------------------------------ MODULE TableProofs ------------------------------
(***************************************************************************)
(* Theorems on Table: what the user and the bots make a session go through *)
(* is a behaviour of Session in which every game is started well, so that  *)
(* all that SessionProofs shows of such sessions holds without a condition. *)
(***************************************************************************)
EXTENDS Table, SessionProofs, SequenceTheorems

-----------------------------------------------------------------------------
(* What every step but a deal leaves of a session *)

\* Every player has a hand, if an empty one.
Handed(s) == \A i \in Playing(s) : s.hand[i] # NoHand

\* No game is started, the rules and the arrays stay, and so do the hands.
Continues(s, t) ==
  /\ On(t) => On(s)
  /\ t.rules = s.rules /\ t.freed = s.freed
  /\ Handed(s) => Handed(t)

\* Two such steps make one.
LEMMA ContinuesTrans ==
  ASSUME NEW s, NEW t, NEW u, Continues(s, t), Continues(t, u)
  PROVE  Continues(s, u)
  BY DEF Continues

\* An operator that leaves those fields alone.
LEMMA ContinuesFrame ==
  ASSUME NEW s, DOMAIN s = AllFields, NEW t, NEW F, Frame(s, t, F),
         F \cap {"rules", "freed", "hand", "role"} = {}, On(t) => On(s)
  PROVE  Continues(s, t)
  <1>1. t.rules = s.rules /\ t.freed = s.freed /\ t.hand = s.hand /\ t.role = s.role
    BY DEF Frame, AllFields, MemberFields
  <1>2. Handed(s) => Handed(t)
    BY <1>1 DEF Handed, Playing
  <1> QED BY <1>1, <1>2 DEF Continues

\* start_move, a row taken, and a round resolved while a game is on.
LEMMA GameContinues ==
  ASSUME NEW s, Equipped(s), NEW sent
  PROVE  /\ Continues(s, StartMove(s, sent))
         /\ On(s) => Continues(s, Resolve(s, sent))
         /\ \A row, slot : Continues(s, TakeLine(s, row, slot))
  <1>1. DOMAIN s = AllFields /\ s.game_state \in States
    BY DEF Equipped
  <1>2. GameFields \cap {"rules", "freed", "hand", "role"} = {}
    BY DEF GameFields
  <1>3. Continues(s, StartMove(s, sent))
    BY <1>1, <1>2, StartMoveFrame, StartMoveState, ContinuesFrame
  <1>4. On(s) => Continues(s, Resolve(s, sent))
    BY <1>1, <1>2, ResolveFrame, ContinuesFrame
  <1>5. ASSUME NEW row, NEW slot PROVE Continues(s, TakeLine(s, row, slot))
    <2> DEFINE t == TakeLine(s, row, slot)
    <2>1. Frame(s, t, {"board", "ready", "nb_head"})
      BY TakeLineFrame
    <2>2. t.game_state = s.game_state
      BY <1>1, <2>1 DEF Frame, AllFields, GameFields
    <2> HIDE DEF t
    <2>3. Continues(s, t)
      BY <1>1, <2>1, <2>2, ContinuesFrame DEF On
    <2> QED BY <2>3 DEF t
  <1> QED BY <1>3, <1>4, <1>5

\* A card given.
LEMMA GivenCardContinues ==
  ASSUME NEW s, Equipped(s), NEW i \in Slots, s.role[i] = "PLAYER",
         NEW card \in HandOf(s, i)
  PROVE  Continues(s, GivenCard(s, i, card))
  <1> DEFINE t == GivenCard(s, i, card)
  <1>1. /\ Equipped(t) /\ Frame(s, t, {"hand", "ready", "ready_count"})
        /\ t.hand = [s.hand EXCEPT ![i] = @ \ {card}]
        /\ t.ready = [s.ready EXCEPT ![i] = card]
        /\ t.ready_count = s.ready_count + 1
        /\ t.hand[i] # NoHand
    BY GivenCardIs
  <1> HIDE DEF t
  <1>2. /\ t.rules = s.rules /\ t.freed = s.freed /\ t.role = s.role
        /\ t.game_state = s.game_state
    BY <1>1 DEF Frame, Equipped, AllFields, MemberFields, GameFields
  <1>3. \A j \in Slots : j # i => t.hand[j] = s.hand[j]
    BY <1>1 DEF Equipped
  <1>4. Playing(t) = Playing(s) /\ Playing(s) \in SUBSET Slots
    BY <1>2 DEF Playing
  <1>5. Handed(s) => Handed(t)
    BY <1>1, <1>3, <1>4 DEF Handed
  <1> QED BY <1>2, <1>5 DEF Continues, On, t

\* A new player comes between games, with an empty hand.
LEMMA AddPlayerContinues ==
  ASSUME NEW s, Members(s), Equipped(s), Free(s) # {}, NEW c,
         NEW newRole \in {"PLAYER", "OBSERVER"}, s.rules.nbrCardsPlayer > 0
  PROVE  Continues(s, AddPlayer(s, c, newRole))
  <1> DEFINE i == Min(Free(s))
             room == IF newRole = "PLAYER" THEN s.rules.nbrCardsPlayer ELSE 0
             t == AddPlayer(s, c, newRole)
  <1>1. i \in Slots
    <2>1. Free(s) \in SUBSET Nat /\ Free(s) \subseteq Slots
      BY SlotsFinite DEF Free
    <2> QED BY <2>1, MinIs
  <1>2. /\ t.rules = s.rules /\ t.freed = s.freed
        /\ t.role = [s.role EXCEPT ![i] = newRole]
        /\ t.hand = [s.hand EXCEPT ![i] = IF room > 0 THEN {} ELSE NoHand]
        /\ t.game_state = s.game_state
    BY DEF AddPlayer, Equipped, AllFields, MemberFields, GameFields
  <1> HIDE DEF i, t
  <1>3. t.role \in [Slots -> Roles] /\ t.role[i] = newRole
        /\ \A j \in Slots : j # i => t.role[j] = s.role[j] /\ t.hand[j] = s.hand[j]
    BY <1>1, <1>2 DEF Members, Equipped, Roles
  <1>4. newRole = "PLAYER" => t.hand[i] # NoHand
    BY <1>1, <1>2 DEF Equipped, NoHand
  <1>5. Handed(s) => Handed(t)
    BY <1>1, <1>3, <1>4 DEF Handed, Playing
  <1> QED BY <1>2, <1>5 DEF Continues, On, t

\* remove_player
LEMMA RemovePlayerContinues ==
  ASSUME NEW s, Members(s), Equipped(s), NEW c, NEW sent
  PROVE  Continues(s, RemovePlayer(s, c, sent))
  <1>1. CASE ~Member(s, c)
    BY <1>1 DEF RemovePlayer, Continues
  <1>2. CASE Member(s, c)
    <2> DEFINE i == Index(s, c)
               h == IF c = s.id_creator /\ s.number_clients > 1
                    THEN [s EXCEPT !.id_creator = Heir(s, i)] ELSE s
               u == IF s.role[i] = "PLAYER" THEN Withdraw(h, i, sent) ELSE h
               t == RemovePlayer(s, c, sent)
    <2>1. i \in Slots
      BY <1>2, IndexIs
    <2>2. t = [u EXCEPT !.number_clients = @ - 1,
                        !.player_id[i] = NoClient, !.role[i] = "NONE",
                        !.is_connected[i] = FALSE,
                        !.hand[i] = NoHand, !.room[i] = 0]
      BY <1>2 DEF RemovePlayer
    <2>3. Frame(s, h, {"id_creator"})
      BY DEF Frame
    <2> HIDE DEF h, t, i
    <2>4. DOMAIN h = AllFields /\ h.game_state = s.game_state /\ h.game_state \in States
      BY <2>3 DEF Frame, Equipped, AllFields, GameFields
    <2>5. /\ Frame(h, Withdraw(h, i, sent), GameFields \cup {"active_players"})
          /\ On(Withdraw(h, i, sent)) => On(h)
      BY <2>4, WithdrawFrame, WithdrawState DEF AllFields, MemberFields
    <2>6. Frame(h, u, GameFields \cup {"active_players"}) /\ (On(u) => On(s))
      BY <2>4, <2>5 DEF Frame, On
    <2> HIDE DEF u
    <2>7. /\ u.role = s.role /\ u.hand = s.hand /\ u.rules = s.rules /\ u.freed = s.freed
          /\ DOMAIN u = AllFields
      BY <2>3, <2>4, <2>6 DEF Frame, AllFields, MemberFields, GameFields, Equipped
    <2>8. /\ t.role = [s.role EXCEPT ![i] = "NONE"] /\ t.rules = s.rules /\ t.freed = s.freed
          /\ t.hand = [s.hand EXCEPT ![i] = NoHand] /\ t.game_state = u.game_state
      BY <2>2, <2>7 DEF AllFields, MemberFields, GameFields
    <2>9. Playing(t) = Playing(s) \ {i} /\ Playing(s) \in SUBSET Slots
          /\ \A j \in Slots : j # i => t.hand[j] = s.hand[j]
      BY <2>1, <2>8 DEF Members, Equipped, Playing
    <2>10. Handed(s) => Handed(t)
      BY <2>9 DEF Handed
    <2> QED BY <2>6, <2>8, <2>10 DEF Continues, On, t
  <1> QED BY <1>1, <1>2

\* The loops that remove everybody.
LEMMA RemoveAllContinues ==
  ASSUME NEW s, Members(s), Equipped(s), NEW sent
  PROVE  Continues(s, RemoveAll(s, sent))
  <1>1. PICK f : /\ RemoveAll(s, sent) = f[MaxClients]
                 /\ f[0] = s
                 /\ \A n \in 1..MaxClients : f[n] = RemovalStep(f, n, sent)
    BY RemoveAllIs
  <1> DEFINE Good(n) == Members(f[n]) /\ Equipped(f[n]) /\ Continues(s, f[n])
             T == {n \in 0..MaxClients : ~Good(n)}
  <1>2. ASSUME NEW n \in T, \A j \in T : n <= j PROVE FALSE
    <2>1. n # 0
      BY <1>1 DEF Continues
    <2>2. n \in 1..MaxClients /\ n - 1 \in 0..MaxClients /\ n - 1 \notin T
      BY <1>2, <2>1, SlotsFinite
    <2>3. Good(n - 1)
      BY <2>2
    <2>4. f[n] = RemovePlayer(f[n - 1], f[n - 1].player_id[n - 1], sent)
      BY <1>1, <2>2 DEF RemovalStep
    <2> QED BY <2>3, <2>4, RemovePlayerMembers, RemovePlayerEquipped,
               RemovePlayerContinues, ContinuesTrans
  <1>3. T \in SUBSET Nat
    BY SlotsFinite
  <1>4. T = {}
    <2> HIDE DEF T
    <2> QED BY <1>2, <1>3, LeastNat
  <1>5. Good(MaxClients)
    BY <1>4, SlotsFinite
  <1> QED BY <1>1, <1>5

\* change_player_role
LEMMA MakeObserverContinues ==
  ASSUME NEW s, Members(s), Equipped(s), NEW c, Member(s, c), NEW sent
  PROVE  Continues(s, MakeObserver(s, c, sent))
  <1> DEFINE i == Index(s, c)
             h == [s EXCEPT !.hand[i] = NoHand, !.room[i] = 0]
             u == Withdraw(h, i, sent)
             t == MakeObserver(s, c, sent)
  <1>1. i \in Slots
    BY IndexIs
  <1>2. CASE s.role[i] = "OBSERVER"
    BY <1>2 DEF MakeObserver, Continues
  <1>3. CASE s.role[i] # "OBSERVER"
    <2>1. t = [u EXCEPT !.role[i] = "OBSERVER"]
      BY <1>3 DEF MakeObserver
    <2>2. /\ DOMAIN h = AllFields /\ h.game_state = s.game_state /\ h.game_state \in States
          /\ h.hand = [s.hand EXCEPT ![i] = NoHand]
          /\ h.role = s.role /\ h.rules = s.rules /\ h.freed = s.freed
      BY DEF Equipped, AllFields, MemberFields, GameFields
    <2> HIDE DEF h, t, i
    <2>3. /\ Frame(h, u, GameFields \cup {"active_players"})
          /\ On(u) => On(h)
      BY <2>2, WithdrawFrame, WithdrawState DEF AllFields, MemberFields
    <2> HIDE DEF u
    <2>4. /\ u.hand = h.hand /\ u.role = h.role /\ u.rules = h.rules /\ u.freed = h.freed
          /\ DOMAIN u = AllFields
      BY <2>2, <2>3 DEF Frame, AllFields, MemberFields, GameFields
    <2>5. /\ t.role = [s.role EXCEPT ![i] = "OBSERVER"] /\ t.rules = s.rules
          /\ t.freed = s.freed /\ t.game_state = u.game_state
          /\ t.hand = [s.hand EXCEPT ![i] = NoHand]
      BY <2>1, <2>2, <2>4 DEF AllFields, MemberFields, GameFields
    <2>6. Playing(t) = Playing(s) \ {i} /\ Playing(s) \in SUBSET Slots
          /\ \A j \in Slots : j # i => t.hand[j] = s.hand[j]
      BY <1>1, <2>5 DEF Members, Equipped, Playing
    <2>7. Handed(s) => Handed(t)
      BY <2>6 DEF Handed
    <2> QED BY <2>2, <2>3, <2>5, <2>7 DEF Continues, On, t
  <1> QED BY <1>2, <1>3

\* USER_LEFT
LEMMA AfterUserLeftContinues ==
  ASSUME NEW s, Members(s), Equipped(s), NEW c, Member(s, c), NEW sent
  PROVE  Continues(s, AfterUserLeft(s, c, sent))
  <1> DEFINE m == MakeObserver(s, c, sent)
             t == [m EXCEPT !.is_connected[Index(s, c)] = FALSE]
             a == RemoveAll(t, sent)
             z == [a EXCEPT !.unregister_send = 1]
  <1>1. AfterUserLeft(s, c, sent) = t \/ AfterUserLeft(s, c, sent) = z
    BY DEF AfterUserLeft
  <1>2. Members(m) /\ Equipped(m) /\ Index(s, c) \in Slots /\ Continues(s, m)
    BY MakeObserverMembers, MakeObserverEquipped, MakeObserverContinues, IndexIs
  <1> HIDE DEF m
  <1>3. Frame(m, t, {"is_connected"}) /\ t.game_state = m.game_state
        /\ t.is_connected = [m.is_connected EXCEPT ![Index(s, c)] = FALSE]
    BY <1>2 DEF Frame, Equipped, AllFields, GameFields
  <1> HIDE DEF t
  <1>4. Members(t)
    BY <1>2, <1>3, MembersFrame DEF MemberFields
  <1>5. Equipped(t)
    <2>1. /\ t.hand = m.hand /\ t.room = m.room /\ t.id_creator = m.id_creator
          /\ t.unregister_send = m.unregister_send /\ t.rules = m.rules
          /\ t.freed = m.freed /\ t.role = m.role /\ DOMAIN t = AllFields
      BY <1>2, <1>3 DEF Equipped, Frame, AllFields, MemberFields, GameFields
    <2>2. t.is_connected \in [Slots -> BOOLEAN]
      BY <1>2, <1>3 DEF Equipped
    <2>3. Playing(t) = Playing(m) /\ (On(t) <=> On(m))
      BY <1>3, <2>1 DEF Playing, On
    <2> QED BY <1>2, <1>3, <2>1, <2>2, <2>3 DEF Equipped
  <1>6. Continues(m, t)
    BY <1>2, <1>3, ContinuesFrame DEF Equipped, On
  <1>7. Continues(t, a) /\ Equipped(a)
    BY <1>4, <1>5, RemoveAllContinues, RemoveAllEquipped
  <1> HIDE DEF a
  <1>8. Frame(a, z, {"unregister_send"}) /\ z.game_state = a.game_state
    BY <1>7 DEF Frame, Equipped, AllFields, GameFields
  <1> HIDE DEF z
  <1>9. Continues(a, z)
    BY <1>7, <1>8, ContinuesFrame DEF Equipped, On
  <1> QED BY <1>1, <1>2, <1>6, <1>7, <1>9, ContinuesTrans

\* PKT_SESSION_CLOSE
LEMMA AfterCloseContinues ==
  ASSUME NEW s, Members(s), Equipped(s), NEW sent
  PROVE  Continues(s, AfterClose(s, sent))
  <1> DEFINE t == [s EXCEPT !.game_state = "INACTIVE"]
             a == RemoveAll(t, sent)
             z == [a EXCEPT !.unregister_send = 1]
  <1>1. AfterClose(s, sent) = z
    BY DEF AfterClose
  <1>2. Frame(s, t, {"game_state"}) /\ t.game_state = "INACTIVE"
    BY DEF Frame, Equipped, AllFields, GameFields
  <1> HIDE DEF t
  <1>3. Members(t)
    BY <1>2, MembersFrame DEF MemberFields
  <1>4. Equipped(t)
    BY <1>2, EquippedFrame DEF EquippedFields, On, States
  <1>5. Continues(s, t)
    BY <1>2, ContinuesFrame DEF Equipped, On
  <1>6. Continues(t, a) /\ Equipped(a)
    BY <1>3, <1>4, RemoveAllContinues, RemoveAllEquipped
  <1> HIDE DEF a
  <1>7. Frame(a, z, {"unregister_send"}) /\ z.game_state = a.game_state
    BY <1>6 DEF Frame, Equipped, AllFields, GameFields
  <1> HIDE DEF z
  <1>8. Continues(a, z)
    BY <1>6, <1>7, ContinuesFrame DEF Equipped, On
  <1> QED BY <1>1, <1>5, <1>6, <1>8, ContinuesTrans

\* PKT_SESSION_JOIN
LEMMA AfterJoinContinues ==
  ASSUME NEW s, Members(s), Equipped(s), s.rules.nbrCardsPlayer > 0,
         NEW c \in Clients, Admissible(s, c)
  PROVE  Continues(s, AfterJoin(s, c))
  <1> DEFINE h == IF s.number_clients = 0
                  THEN [s EXCEPT !.id_creator = c, !.unregister_send = 0] ELSE s
             newRole == IF s.game_state = "INACTIVE" /\ s.active_players < GameCapacity
                        THEN "PLAYER" ELSE "OBSERVER"
  <1>1. AfterJoin(s, c) = AddPlayer(h, c, newRole)
    BY DEF AfterJoin
  <1>2. /\ Frame(s, h, {"id_creator", "unregister_send"}) /\ h.game_state = s.game_state
        /\ h.rules = s.rules /\ Equipped(h)
    BY DEF Frame, Equipped, Playing, On, AllFields, GameFields, MemberFields
  <1> HIDE DEF h
  <1>3. Members(h)
    BY <1>2, MembersFrame DEF MemberFields
  <1>4. Free(h) # {}
    <2>1. Free(h) = Free(s)
      BY <1>2 DEF Frame, Free, Members, MemberFields
    <2> QED BY <2>1, MembersCounts DEF Admissible
  <1>5. Continues(s, h)
    BY <1>2, ContinuesFrame DEF Equipped, On
  <1>6. newRole \in {"PLAYER", "OBSERVER"}
    OBVIOUS
  <1> HIDE DEF newRole
  <1>7. Continues(h, AddPlayer(h, c, newRole))
    BY <1>2, <1>3, <1>4, <1>6, AddPlayerContinues
  <1> QED BY <1>1, <1>5, <1>7, ContinuesTrans

\* The steps of Session that deal no cards and set no rules.
Others ==
  \/ \E c \in Clients : \/ Join(c) \/ Leave(c) \/ UserLeft(c) \/ Close(c)
                        \/ InfoReturn(c) \/ InfoReturnWild(c)
                        \/ ResponseExtra(c) \/ ResponseExtraWild(c)
  \/ InfoReturnRefused \/ EndOfBatch \/ UNCHANGED vars

\* Every such step goes on with the session as it is.
LEMMA OthersContinue ==
  ASSUME Members(session), Equipped(session), session.rules.nbrCardsPlayer > 0, Others
  PROVE  Continues(session, session') /\ deals' = deals
  <1>1. ASSUME NEW c \in Clients, Join(c) PROVE Continues(session, session')
    BY <1>1, AfterJoinContinues DEF Join
  <1>2. ASSUME NEW c \in Clients, Leave(c) PROVE Continues(session, session')
    BY <1>2, RemovePlayerContinues DEF Leave
  <1>3. ASSUME NEW c \in Clients, UserLeft(c) PROVE Continues(session, session')
    BY <1>3, AfterUserLeftContinues DEF UserLeft
  <1>4. ASSUME NEW c \in Clients, Close(c) PROVE Continues(session, session')
    BY <1>4, AfterCloseContinues DEF Close
  <1>5. ASSUME NEW c \in Clients, InfoReturn(c) PROVE Continues(session, session')
    <2> DEFINE i == Index(session, c)
    <2>1. i \in Slots /\ session.role[i] = "PLAYER"
      BY <1>5, IndexIs DEF InfoReturn
    <2>2. PICK card \in HandOf(session, i), sent \in SentOutcomes :
               session' = StartMove(GivenCard(session, i, card), sent)
      BY <1>5 DEF InfoReturn, GivenCard
    <2> HIDE DEF i
    <2> DEFINE t == GivenCard(session, i, card)
    <2>3. Equipped(t) /\ Continues(session, t)
      BY <2>1, GivenCardIs, GivenCardContinues
    <2> HIDE DEF t
    <2>4. Continues(t, StartMove(t, sent))
      BY <2>3, GameContinues
    <2>5. Continues(session, StartMove(t, sent))
      BY <2>3, <2>4, ContinuesTrans
    <2> QED BY <2>2, <2>5 DEF t
  <1>6. ASSUME NEW c \in Clients, ResponseExtra(c) PROVE Continues(session, session')
    <2>1. PICK row, sent : session' = Resolve(TakeLine(session, row, Index(session, c)), sent)
      BY <1>6 DEF ResponseExtra
    <2>2. On(session)
      BY <1>6 DEF ResponseExtra, On
    <2> DEFINE t == TakeLine(session, row, Index(session, c))
    <2>3. Equipped(t) /\ On(t) /\ Continues(session, t)
      BY <2>2, GameEquipped, GameContinues
    <2> HIDE DEF t
    <2>4. Continues(t, Resolve(t, sent))
      BY <2>3, GameContinues
    <2>5. Continues(session, Resolve(t, sent))
      BY <2>3, <2>4, ContinuesTrans
    <2> QED BY <2>1, <2>5 DEF t
  <1>7. ASSUME NEW c \in Clients, InfoReturnWild(c) \/ ResponseExtraWild(c)
        PROVE Continues(session, session')
    BY <1>7 DEF InfoReturnWild, ResponseExtraWild, Continues
  <1>8. ASSUME InfoReturnRefused PROVE Continues(session, session')
    BY <1>8, GameContinues DEF InfoReturnRefused
  <1>9. ASSUME EndOfBatch PROVE Continues(session, session')
    <2> DEFINE t == [session EXCEPT !.unregister_send = 1]
    <2>1. session' = t
      BY <1>9 DEF EndOfBatch
    <2>2. Frame(session, t, {"unregister_send"}) /\ t.game_state = session.game_state
      BY DEF Frame, Equipped, AllFields, GameFields
    <2> HIDE DEF t
    <2>3. Continues(session, t)
      BY <2>2, ContinuesFrame DEF Equipped, On
    <2> QED BY <2>1, <2>3
  <1>10. ASSUME UNCHANGED vars PROVE Continues(session, session')
    BY <1>10 DEF vars, Continues
  <1>11. deals' = deals
    BY DEF Others, Join, Leave, UserLeft, Close, InfoReturn, InfoReturnWild,
           ResponseExtra, ResponseExtraWild, InfoReturnRefused, EndOfBatch, vars
  <1> QED BY <1>1, <1>2, <1>3, <1>4, <1>5, <1>6, <1>7, <1>8, <1>9, <1>10, <1>11
          DEF Others

-----------------------------------------------------------------------------
(* The cards that an index may stand for *)

\* The recursion of VisibleHand.
Shows(f, hand, H) ==
  f = [k \in 0..Len(hand) |->
         IF k = 0 THEN << >>
         ELSE IF hand[k] \in H THEN Append(f[k - 1], hand[k]) ELSE f[k - 1]]

\* The function that VisibleHand recurs on exists, and collects cards of the hand.
LEMMA ShowsExist ==
  ASSUME NEW hand, Len(hand) \in Nat, NEW H
  PROVE  /\ \E f : Shows(f, hand, H)
         /\ \A f : Shows(f, hand, H) => \A k \in 0..Len(hand) : f[k] \in Seq(H)
  <1> DEFINE step == [k \in 1..Len(hand) |-> [v \in Seq(H) |->
                        IF hand[k] \in H THEN Append(v, hand[k]) ELSE v]]
  <1>1. << >> \in Seq(H)
    OBVIOUS
  <1>2. \A k \in 1..Len(hand), v \in Seq(H) : step[k][v] \in Seq(H)
    OBVIOUS
  <1>3. \A k \in 1..Len(hand), v \in Seq(H) :
          step[k][v] = IF hand[k] \in H THEN Append(v, hand[k]) ELSE v
    OBVIOUS
  <1> HIDE DEF step
  <1>4. PICK f : Iterates(f, Len(hand), Seq(H), << >>, step)
    BY <1>1, <1>2, IteratesExist
  <1>5. \A k \in 1..Len(hand) : k - 1 \in 0..Len(hand)
    OBVIOUS
  <1>6. ASSUME NEW k \in 0..Len(hand)
        PROVE  f[k] = IF k = 0 THEN << >>
                      ELSE IF hand[k] \in H THEN Append(f[k - 1], hand[k]) ELSE f[k - 1]
    <2>1. CASE k = 0
      BY <1>4, <2>1 DEF Iterates
    <2>2. CASE k # 0
      <3>1. k \in 1..Len(hand)
        BY <2>2
      <3>2. f[k - 1] \in Seq(H) /\ f[k] = step[k][f[k - 1]]
        BY <1>4, <1>5, <3>1 DEF Iterates
      <3> QED BY <1>3, <2>2, <3>1, <3>2
    <2> QED BY <2>1, <2>2
  <1>7. Shows(f, hand, H)
    <2>1. f = [k \in 0..Len(hand) |-> f[k]]
      BY <1>4 DEF Iterates
    <2> QED BY <1>6, <2>1 DEF Shows
  <1>8. ASSUME NEW g, Shows(g, hand, H) PROVE \A k \in 0..Len(hand) : g[k] \in Seq(H)
    <2> DEFINE T == {k \in 0..Len(hand) : g[k] \notin Seq(H)}
    <2>1. ASSUME NEW k \in 0..Len(hand)
          PROVE  g[k] = IF k = 0 THEN << >>
                        ELSE IF hand[k] \in H THEN Append(g[k - 1], hand[k]) ELSE g[k - 1]
      BY <1>8 DEF Shows
    <2>2. ASSUME NEW n \in T, \A j \in T : n <= j PROVE FALSE
      <3>1. n # 0
        BY <1>1, <2>1, <2>2
      <3>2. n - 1 \in 0..Len(hand) /\ n - 1 \notin T
        BY <2>2, <3>1
      <3>3. g[n - 1] \in Seq(H)
        BY <3>2
      <3>4. g[n] = IF hand[n] \in H THEN Append(g[n - 1], hand[n]) ELSE g[n - 1]
        BY <2>1, <3>1
      <3>5. g[n] \in Seq(H)
        BY <3>3, <3>4
      <3> QED BY <3>5
    <2>3. T \in SUBSET Nat
      OBVIOUS
    <2>4. T = {}
      <3> HIDE DEF T
      <3> QED BY <2>2, <2>3, LeastNat
    <2> QED BY <2>4
  <1> QED BY <1>7, <1>8

\* session_send_info shows cards of the hand only.
LEMMA VisibleHandIs ==
  ASSUME NEW s, NEW i \in Slots, Len(dealt[i]) \in Nat
  PROVE  VisibleHand(s, i) \in Seq(HandOf(s, i))
  <1> DEFINE hand == dealt[i]
             f == CHOOSE f : Shows(f, hand, HandOf(s, i))
  <1>1. VisibleHand(s, i) = IF s.role[i] = "PLAYER" THEN f[Len(hand)] ELSE << >>
    BY DEF VisibleHand, Shows
  <1>2. Shows(f, hand, HandOf(s, i))
    <2>1. \E g : Shows(g, hand, HandOf(s, i))
      BY ShowsExist
    <2> QED BY <2>1, Zenon
  <1>3. \A k \in 0..Len(hand) : f[k] \in Seq(HandOf(s, i))
    <2> HIDE DEF f
    <2> QED BY <1>2, ShowsExist
  <1>4. Len(hand) \in 0..Len(hand)
    OBVIOUS
  <1> HIDE DEF f
  <1> QED BY <1>1, <1>3, <1>4

\* A card that an index is taken for is one of the hand.
LEMMA CardAtIs ==
  ASSUME NEW s, NEW i \in Slots, Len(dealt[i]) \in Nat, NEW index,
         CardAt(s, i, index) # NoCard
  PROVE  CardAt(s, i, index) \in HandOf(s, i)
  <1>1. VisibleHand(s, i) \in Seq(HandOf(s, i))
    BY VisibleHandIs
  <1> DEFINE hand == VisibleHand(s, i)
  <1>2. CardAt(s, i, index) = IF index + 1 \in DOMAIN hand THEN hand[index + 1] ELSE NoCard
    BY DEF CardAt
  <1> HIDE DEF hand
  <1>3. \A k \in DOMAIN hand : hand[k] \in HandOf(s, i)
    BY <1>1 DEF hand
  <1> QED BY <1>2, <1>3

-----------------------------------------------------------------------------
(* A step of the table is one of the session *)

\* The one book of rules has cards for everybody, and no packet gets lost.
LEMMA OneRuleBook ==
  /\ Rules = {DefaultRules} /\ Ample(DefaultRules) /\ DefaultRules.nbrCardsPlayer > 0
  /\ SentOutcomes = {TRUE} /\ ~MidGameStart
  /\ Human \in Clients /\ Bots \subseteq Clients
  BY TableAssumption DEF Rules, Ample, SentOutcomes

\* At most one START is under way, typed between two games.
StartUnderWay ==
  \A j \in DOMAIN toSession : toSession[j].type = "START" =>
    /\ ~On(session) /\ deals < MaxDeals
    /\ \A k \in DOMAIN toSession : toSession[k].type = "START" => k = j

\* The inductive invariant: that of Session, with the rules that nobody changes.
Played ==
  /\ GameInv /\ Numbered
  /\ session.rules = DefaultRules /\ ~session.freed /\ Handed(session)
  /\ \E M : toSession \in Seq(M)
  /\ dealt \in [Slots -> Seq(Cards)]
  /\ StartUnderWay

\* What most steps are: of the session's they are none that deals, and of the
\* queue they take the first message or add one other than START.
Quiet ==
  /\ Others /\ dealt' = dealt
  /\ \/ toSession' = toSession
     \/ toSession # << >> /\ toSession' = Tail(toSession)
     \/ \E m : m.type # "START" /\ toSession' = Append(toSession, m)

\* START that the creator typed.
Dealing == HandleStart /\ Human = session.id_creator

\* What the invariant says of the record that a message finds.
LEMMA PlayedSession ==
  ASSUME Played
  PROVE  Members(session) /\ Equipped(session) /\ session.rules.nbrCardsPlayer > 0
         /\ (Handling => ~fault /\ session.unregister_send = 0)
         /\ \A i \in Slots : Len(dealt[i]) \in Nat
  <1>1. Members(session) /\ Equipped(session)
    BY DEF Played, GameInv, Whole
  <1>2. session.rules.nbrCardsPlayer > 0
    BY OneRuleBook DEF Played
  <1>3. \A i \in Slots : Len(dealt[i]) \in Nat
    BY DEF Played
  <1> QED BY <1>1, <1>2, <1>3 DEF Handling

\* PKT_SESSION_JOIN
LEMMA HandleJoinQuiet ==
  ASSUME NEW c \in Clients, HandleJoin(c)
  PROVE  Quiet
  <1>1. toSession # << >> /\ toSession' = Tail(toSession) /\ Handling
        /\ dealt' = dealt /\ deals' = deals /\ fault' = fault
    BY DEF HandleJoin, Take, Becomes
  <1>2. CASE Admissible(session, c)
    <2>1. session' = AfterJoin(session, c)
      BY <1>2 DEF HandleJoin, Becomes
    <2> QED BY <1>1, <1>2, <2>1 DEF Join, Quiet, Others
  <1>3. CASE ~Admissible(session, c)
    <2>1. session' = session
      BY <1>3 DEF HandleJoin, Becomes
    <2> QED BY <1>1, <2>1 DEF vars, Quiet, Others
  <1> QED BY <1>2, <1>3

\* PKT_SESSION_INFO_RETURN: what stands for a card of the hand is one.
LEMMA HandleInfoReturnQuiet ==
  ASSUME Played, NEW c \in Clients, HandleInfoReturn(c)
  PROVE  Quiet
  <1> DEFINE i == Index(session, c)
             card == CardAt(session, i, Head(toSession).arg)
             wild == /\ session.game_state = "WAITING"
                     /\ Member(session, c) => session.ready[i] = NoCard
                                              /\ session.hand[i] = NoHand
             accepted == /\ session.game_state = "WAITING" /\ Member(session, c)
                         /\ session.ready[i] = NoCard /\ session.hand[i] # NoHand
                         /\ card # NoCard
  <1>1. toSession # << >> /\ toSession' = Tail(toSession) /\ Handling
    BY DEF HandleInfoReturn, Take
  <1>2. \/ wild /\ Faults
        \/ accepted /\ \E in : Becomes(StartMove(GivenCard(session, i, card), TRUE), in)
        \/ \E in : Becomes(StartMove(session, TRUE), in)
    BY DEF HandleInfoReturn, GivenCard
  <1>3. Members(session) /\ Equipped(session) /\ session.rules.nbrCardsPlayer > 0
        /\ TRUE \in SentOutcomes /\ \A k \in Slots : Len(dealt[k]) \in Nat
    BY PlayedSession, OneRuleBook
  <1>4. ASSUME Member(session, c)
        PROVE  i \in Slots /\ session.role[i] \in {"PLAYER", "OBSERVER"}
    BY <1>3, <1>4, IndexIs
  <1> HIDE DEF i, card
  <1>5. CASE wild /\ Faults
    <2>1. Member(session, c) => session.role[i] = "OBSERVER"
      BY <1>3, <1>4, <1>5 DEF Equipped, On, Playing
    <2>2. fault' = TRUE /\ UNCHANGED <<session, deals>> /\ dealt' = dealt
      BY <1>5 DEF Faults
    <2>3. InfoReturnWild(c)
      BY <1>1, <1>5, <2>1, <2>2 DEF InfoReturnWild, i
    <2> QED BY <1>1, <2>2, <2>3 DEF Quiet, Others
  <1>6. ASSUME accepted, NEW in, Becomes(StartMove(GivenCard(session, i, card), TRUE), in)
        PROVE  Quiet
    <2>1. i \in Slots /\ session.role[i] = "PLAYER"
      BY <1>3, <1>4, <1>6 DEF Equipped, Playing
    <2>2. card \in HandOf(session, i)
      BY <1>3, <1>6, <2>1, CardAtIs DEF card
    <2>3. session' = StartMove(GivenCard(session, i, card), TRUE)
          /\ UNCHANGED <<deals, fault>> /\ dealt' = dealt
      BY <1>6 DEF Becomes
    <2>4. InfoReturn(c)
      BY <1>1, <1>3, <1>6, <2>1, <2>2, <2>3 DEF InfoReturn, GivenCard, i
    <2> QED BY <1>1, <2>3, <2>4 DEF Quiet, Others
  <1>7. ASSUME NEW in, Becomes(StartMove(session, TRUE), in) PROVE Quiet
    <2>1. session' = StartMove(session, TRUE) /\ UNCHANGED <<deals, fault>> /\ dealt' = dealt
      BY <1>7 DEF Becomes
    <2>2. InfoReturnRefused
      BY <1>1, <1>3, <2>1 DEF InfoReturnRefused
    <2> QED BY <1>1, <2>1, <2>2 DEF Quiet, Others
  <1> QED BY <1>2, <1>5, <1>6, <1>7

\* PKT_RESPONSE_EXTRA
LEMMA HandleResponseExtraQuiet ==
  ASSUME NEW c \in Clients, HandleResponseExtra(c)
  PROVE  Quiet
  <1> DEFINE row == Head(toSession).arg
             s == Resolve(TakeLine(session, row, Index(session, c)), TRUE)
  <1>1. toSession # << >> /\ toSession' = Tail(toSession) /\ Handling
    BY DEF HandleResponseExtra, Take
  <1>2. \/ \E in : Becomes(session, in)
        \/ /\ session.game_state = "WAITING_EXTRA" /\ c = session.extra_wait_from
           /\ \/ Faults
              \/ row \in Rows(session) /\ Member(session, c) /\ \E in : Becomes(s, in)
    BY DEF HandleResponseExtra
  <1> HIDE DEF row
  <1>3. ASSUME NEW in, Becomes(session, in) PROVE Quiet
    BY <1>1, <1>3 DEF Becomes, Quiet, Others, vars
  <1>4. CASE session.game_state = "WAITING_EXTRA" /\ c = session.extra_wait_from /\ Faults
    <2>1. fault' = TRUE /\ UNCHANGED <<session, deals>> /\ dealt' = dealt
      BY <1>4 DEF Faults
    <2>2. ResponseExtraWild(c)
      BY <1>1, <1>4, <2>1 DEF ResponseExtraWild
    <2> QED BY <1>1, <2>1, <2>2 DEF Quiet, Others
  <1>5. ASSUME session.game_state = "WAITING_EXTRA", c = session.extra_wait_from,
               row \in Rows(session), Member(session, c), NEW in, Becomes(s, in)
        PROVE  Quiet
    <2>1. session' = s /\ UNCHANGED <<deals, fault>> /\ dealt' = dealt
      BY <1>5 DEF Becomes
    <2>2. ResponseExtra(c)
      BY <1>1, <1>5, <2>1, OneRuleBook DEF ResponseExtra
    <2> QED BY <1>1, <2>1, <2>2 DEF Quiet, Others
  <1> QED BY <1>2, <1>3, <1>4, <1>5

\* PKT_SESSION_LEAVE and USER_LEFT, from members or strangers.
LEMMA HandleLeaveQuiet ==
  ASSUME NEW c \in Clients, HandleLeave(c) \/ HandleUserLeft(c)
  PROVE  Quiet
  <1>1. toSession # << >> /\ toSession' = Tail(toSession) /\ Handling
        /\ dealt' = dealt /\ deals' = deals /\ fault' = fault
    BY DEF HandleLeave, HandleUserLeft, Take, Becomes
  <1>2. CASE HandleLeave(c)
    <2>1. session' = RemovePlayer(session, c, TRUE)
      BY <1>2 DEF HandleLeave, Becomes
    <2>2. CASE Member(session, c)
      BY <1>1, <2>1, <2>2, OneRuleBook DEF Leave, Quiet, Others
    <2>3. CASE ~Member(session, c)
      BY <1>1, <2>1, <2>3 DEF RemovePlayer, vars, Quiet, Others
    <2> QED BY <2>2, <2>3
  <1>3. CASE HandleUserLeft(c)
    <2>1. CASE Member(session, c)
      <3>1. session' = AfterUserLeft(session, c, TRUE)
        BY <1>3, <2>1 DEF HandleUserLeft, Becomes
      <3> QED BY <1>1, <2>1, <3>1, OneRuleBook DEF UserLeft, Quiet, Others
    <2>2. CASE ~Member(session, c)
      <3>1. session' = session
        BY <1>3, <2>2 DEF HandleUserLeft, Becomes
      <3> QED BY <1>1, <3>1 DEF vars, Quiet, Others
    <2> QED BY <2>1, <2>2
  <1> QED BY <1>2, <1>3

\* PKT_SESSION_CLOSE, PKT_ADD_BOT, a START that is refused, and the end of a batch.
LEMMA HandleRestQuiet ==
  ASSUME HandleClose \/ HandleAddBot \/ (HandleStart /\ ~Dealing) \/ SessionEmpties
  PROVE  Quiet
  <1>1. CASE HandleClose
    <2>1. toSession # << >> /\ toSession' = Tail(toSession) /\ Handling
          /\ dealt' = dealt /\ deals' = deals /\ fault' = fault
      BY <1>1 DEF HandleClose, Take, Becomes
    <2>2. CASE Human = session.id_creator
      <3>1. session' = AfterClose(session, TRUE)
        BY <1>1, <2>2 DEF HandleClose, Becomes
      <3>2. Close(Human)
        BY <2>1, <2>2, <3>1, OneRuleBook DEF Close
      <3> QED BY <2>1, <3>2, OneRuleBook DEF Quiet, Others
    <2>3. CASE Human # session.id_creator
      <3>1. session' = session
        BY <1>1, <2>3 DEF HandleClose, Becomes
      <3> QED BY <2>1, <3>1 DEF vars, Quiet, Others
    <2> QED BY <2>2, <2>3
  <1>2. CASE HandleAddBot
    <2>1. toSession # << >> /\ toSession' = Tail(toSession) /\ dealt' = dealt /\ UNCHANGED vars
      BY <1>2 DEF HandleAddBot, Take
    <2> QED BY <2>1 DEF Quiet, Others
  <1>3. CASE HandleStart /\ ~Dealing
    <2>1. Human # session.id_creator
      BY <1>3 DEF Dealing
    <2>2. toSession # << >> /\ toSession' = Tail(toSession) /\ dealt' = dealt /\ UNCHANGED vars
      BY <1>3, <2>1 DEF HandleStart, Take, Becomes, vars
    <2> QED BY <2>2 DEF Quiet, Others
  <1>4. CASE SessionEmpties
    BY <1>4 DEF SessionEmpties, Quiet, Others
  <1> QED BY <1>1, <1>2, <1>3, <1>4

\* The bots' programs send answers only.
LEMMA BotProgramQuiet ==
  ASSUME NEW b \in Bots, BotProgram(b)
  PROVE  Quiet
  <1>1. UNCHANGED vars /\ dealt' = dealt
    BY DEF BotProgram, BotJoins, BotGetsState, BotCrashes, BotGetsInfo, BotGetsRequest,
           BotRetires, BotGets, Gets
  <1>2. \/ toSession' = toSession
        \/ \E type, arg : type # "START" /\ toSession' = Append(toSession, Msg(type, b, arg))
    <2>1. CASE BotJoins(b)
      BY <2>1 DEF BotJoins, Sends
    <2>2. CASE BotGetsState(b)
      BY <2>2 DEF BotGetsState
    <2>3. CASE BotCrashes(b)
      BY <2>3 DEF BotCrashes, Sends
    <2>4. CASE BotGetsInfo(b)
      <3>1. \/ UNCHANGED <<bot, toSession>>
            \/ \E index : Sends("INFO_RETURN", b, index % 256)
        BY <2>4 DEF BotGetsInfo
      <3> QED BY <3>1 DEF Sends
    <2>5. CASE BotGetsRequest(b)
      BY <2>5 DEF BotGetsRequest, Sends
    <2>6. CASE BotRetires(b)
      BY <2>6 DEF BotRetires, Sends
    <2> QED BY <2>1, <2>2, <2>3, <2>4, <2>5, <2>6 DEF BotProgram
  <1>3. \A type, arg : Msg(type, b, arg).type = type
    BY DEF Msg
  <1> QED BY <1>1, <1>2, <1>3 DEF Quiet, Others

\* Nor does the user start a game but with start.
LEMMA UserQuiet ==
  ASSUME User, ~Start
  PROVE  Quiet
  <1>1. UNCHANGED vars /\ dealt' = dealt
    BY DEF User, AddBot, Play, Extr, CloseSession, Quit, JoinAgain, Disconnect, Reconnect,
           TypesInside, Types
  <1>2. \/ toSession' = toSession
        \/ \E m : m.type # "START" /\ toSession' = Append(toSession, m)
    <2>1. \A type, arg : Msg(type, Human, arg).type = type
      BY DEF Msg
    <2>2. CASE AddBot
      <3>1. PICK r : toSession' = Append(toSession, [type |-> "ADD_BOT", user |-> Human,
                                                     arg |-> r[1], level |-> r[2]])
        BY <2>2 DEF AddBot, TypesInside, Types
      <3> QED BY <3>1
    <2>3. CASE Play \/ Extr \/ CloseSession \/ Quit \/ JoinAgain \/ Disconnect \/ Reconnect
      <3>1. \/ toSession' = toSession
            \/ \E type, arg : type # "START" /\ toSession' = Append(toSession, Msg(type, Human, arg))
        BY <2>3 DEF Play, Extr, CloseSession, Quit, JoinAgain, Disconnect, Reconnect,
                    TypesInside, Types, Sends
      <3> QED BY <2>1, <3>1
    <2> QED BY <2>2, <2>3 DEF User
  <1> QED BY <1>1, <1>2 DEF Quiet, Others

\* Every step is quiet, a deal, or the START that the user types.
LEMMA TableSteps ==
  ASSUME Played, [TableNext]_tableVars
  PROVE  Quiet \/ Dealing \/ Start
  <1>1. CASE SessionThread
    BY <1>1, HandleJoinQuiet, HandleInfoReturnQuiet, HandleResponseExtraQuiet,
       HandleLeaveQuiet, HandleRestQuiet DEF SessionThread
  <1>2. CASE User
    BY <1>2, UserQuiet
  <1>3. ASSUME NEW b \in Bots, BotProgram(b) PROVE Quiet
    BY <1>3, BotProgramQuiet
  <1>4. CASE UNCHANGED tableVars
    BY <1>4 DEF tableVars, Quiet, Others, vars
  <1> QED BY <1>1, <1>2, <1>3, <1>4 DEF TableNext

-----------------------------------------------------------------------------
(* The invariant *)

\* A queue without its first message, or with one more.
LEMMA QueueTail ==
  ASSUME NEW M, NEW q \in Seq(M), q # << >>
  PROVE  /\ Tail(q) \in Seq(M) /\ DOMAIN Tail(q) = 1..(Len(q) - 1) /\ 1 \in DOMAIN q
         /\ Head(q) = q[1]
         /\ \A k \in DOMAIN Tail(q) : k \in Nat /\ k + 1 \in DOMAIN q /\ k + 1 # 1
                                      /\ Tail(q)[k] = q[k + 1]
  <1>1. Len(q) \in Nat /\ Len(q) > 0 /\ DOMAIN q = 1..Len(q)
    OBVIOUS
  <1>2. Tail(q) \in Seq(M) /\ Len(Tail(q)) = Len(q) - 1
    BY <1>1
  <1>3. DOMAIN Tail(q) = 1..(Len(q) - 1)
    BY <1>2
  <1> QED BY <1>1, <1>2, <1>3

\* The queue with a message more at its end.
LEMMA QueueAppend ==
  ASSUME NEW M, NEW q \in Seq(M), NEW m
  PROVE  /\ Append(q, m) \in Seq(M \cup {m})
         /\ DOMAIN Append(q, m) = 1..(Len(q) + 1) /\ DOMAIN q = 1..Len(q) /\ Len(q) \in Nat
         /\ \A k \in DOMAIN Append(q, m) :
              \/ k \in DOMAIN q /\ Append(q, m)[k] = q[k]
              \/ k = Len(q) + 1 /\ Append(q, m)[k] = m
  <1>1. q \in Seq(M \cup {m}) /\ m \in M \cup {m} /\ Len(q) \in Nat /\ DOMAIN q = 1..Len(q)
    OBVIOUS
  <1>2. Append(q, m) \in Seq(M \cup {m}) /\ Len(Append(q, m)) = Len(q) + 1
    BY <1>1
  <1>3. DOMAIN Append(q, m) = 1..(Len(q) + 1)
    BY <1>1, <1>2
  <1>4. ASSUME NEW k \in 1..(Len(q) + 1)
        PROVE  \/ k \in DOMAIN q /\ Append(q, m)[k] = q[k]
               \/ k = Len(q) + 1 /\ Append(q, m)[k] = m
    BY <1>1
  <1> QED BY <1>1, <1>2, <1>3, <1>4

\* What the invariant says beyond that of Session.
Arranged ==
  /\ session.rules = DefaultRules /\ ~session.freed /\ Handed(session)
  /\ \E M : toSession \in Seq(M)
  /\ dealt \in [Slots -> Seq(Cards)]
  /\ StartUnderWay

\* A quiet step starts no game, so that a START under way still finds none.
LEMMA QuietArranged ==
  ASSUME Played, Quiet
  PROVE  Arranged'
  <1>1. Continues(session, session') /\ deals' = deals
    BY PlayedSession, OthersContinue DEF Quiet
  <1>2. PICK M : toSession \in Seq(M)
    BY DEF Played
  <1>3. /\ session'.rules = DefaultRules /\ ~session'.freed /\ Handed(session')
        /\ On(session') => On(session)
    BY <1>1 DEF Played, Continues
  <1>4. dealt' \in [Slots -> Seq(Cards)]
    BY DEF Played, Quiet
  <1>5. \E N : toSession' \in Seq(N)
        /\ \A j \in DOMAIN toSession' : toSession'[j].type = "START" =>
             /\ ~On(session) /\ deals < MaxDeals
             /\ \A k \in DOMAIN toSession' : toSession'[k].type = "START" => k = j
    <2>1. \A j \in DOMAIN toSession : toSession[j].type = "START" =>
             /\ ~On(session) /\ deals < MaxDeals
             /\ \A k \in DOMAIN toSession : toSession[k].type = "START" => k = j
      BY DEF Played, StartUnderWay
    <2>2. CASE toSession' = toSession
      BY <1>2, <2>1, <2>2
    <2>3. CASE toSession # << >> /\ toSession' = Tail(toSession)
      <3> DEFINE q == Tail(toSession)
      <3>1. /\ q \in Seq(M)
            /\ \A k \in DOMAIN q : k \in Nat /\ k + 1 \in DOMAIN toSession
                                   /\ q[k] = toSession[k + 1]
        BY <1>2, <2>3, QueueTail
      <3> HIDE DEF q
      <3>2. ASSUME NEW j \in DOMAIN q, q[j].type = "START"
            PROVE  /\ ~On(session) /\ deals < MaxDeals
                   /\ \A k \in DOMAIN q : q[k].type = "START" => k = j
        BY <2>1, <3>1, <3>2
      <3> QED BY <2>3, <3>1, <3>2 DEF q
    <2>4. ASSUME NEW m, m.type # "START", toSession' = Append(toSession, m)
          PROVE  \E N : toSession' \in Seq(N)
                 /\ \A j \in DOMAIN toSession' : toSession'[j].type = "START" =>
                      /\ ~On(session) /\ deals < MaxDeals
                      /\ \A k \in DOMAIN toSession' : toSession'[k].type = "START" => k = j
      <3> DEFINE q == Append(toSession, m)
      <3>1. /\ q \in Seq(M \cup {m})
            /\ \A k \in DOMAIN q : q[k].type = "START" =>
                 k \in DOMAIN toSession /\ q[k] = toSession[k]
        BY <1>2, <2>4, QueueAppend
      <3> HIDE DEF q
      <3>2. ASSUME NEW j \in DOMAIN q, q[j].type = "START"
            PROVE  /\ ~On(session) /\ deals < MaxDeals
                   /\ \A k \in DOMAIN q : q[k].type = "START" => k = j
        BY <2>1, <3>1, <3>2
      <3> QED BY <2>4, <3>1, <3>2 DEF q
    <2> QED BY <2>2, <2>3, <2>4 DEF Quiet
  <1>6. StartUnderWay'
    BY <1>1, <1>3, <1>5 DEF StartUnderWay, On
  <1> QED BY <1>3, <1>4, <1>5, <1>6 DEF Arranged, Handed, Playing

\* START finds the session between games, with hands for everybody.
LEMMA DealingStarts ==
  ASSUME Played, Dealing
  PROVE  StartSession(Human)
  <1>1. PICK M : toSession \in Seq(M)
    BY DEF Played
  <1>2. toSession # << >> /\ Head(toSession).type = "START" /\ Handling
    BY DEF Dealing, HandleStart, Take
  <1>3. 1 \in DOMAIN toSession /\ toSession[1].type = "START"
    BY <1>1, <1>2, QueueTail
  <1>4. ~On(session) /\ deals < MaxDeals
    BY <1>3 DEF Played, StartUnderWay
  <1>5. ~StartCrashes(session)
    BY DEF Played, StartCrashes, Handed, Seated
  <1>6. /\ deals' = deals + 1 /\ fault' = fault
        /\ \E shuffle \in Shuffles : session' = Deal(session, shuffle)
    BY DEF Dealing, HandleStart
  <1> QED BY <1>2, <1>4, <1>5, <1>6 DEF StartSession, StartAccepted, On, Dealing

\* A hand is dealt as a sequence of cards of the deck.
LEMMA HandDealtIs ==
  ASSUME NEW s, s.rules \in Rules, NEW shuffle \in Shuffles, NEW i \in Served(s)
  PROVE  HandDealt(s, Shuffled(shuffle.cards, s.rules.nbrCards), i) \in Seq(Deck(s))
  <1> DEFINE ids == Shuffled(shuffle.cards, s.rules.nbrCards)
             n   == s.rules.nbrCardsPlayer
             a   == First(s, i)
  <1>1. ids \in Seq(Deck(s)) /\ Len(ids) = s.rules.nbrCards
    <2>1. shuffle.cards \in Bijection(1..Cardinality(Cards), Cards)
      BY SessionAssumption
    <2>2. s.rules.nbrCards \in 0..Cardinality(Cards)
      BY CardsAre
    <2> QED BY <2>1, <2>2, ShuffledIs DEF Deck
  <1>2. a \in Nat /\ n \in Nat /\ a + n <= s.rules.nbrCards
    BY DealtIs
  <1>3. HandDealt(s, ids, i) = SubSeq(ids, a + 1, a + n)
    BY DEF HandDealt, First
  <1> HIDE DEF ids, a, n
  <1>4. \A k \in (a + 1)..(a + n) : k \in 1..Len(ids)
    BY <1>1, <1>2
  <1>5. SubSeq(ids, a + 1, a + n) \in Seq(Deck(s))
    BY <1>1, <1>2, <1>4
  <1> QED BY <1>3, <1>5 DEF ids

\* A deal takes the one START that was under way.
LEMMA DealingArranged ==
  ASSUME Played, Dealing
  PROVE  Arranged'
  <1>1. PICK M : toSession \in Seq(M)
    BY DEF Played
  <1>2. Members(session) /\ Equipped(session) /\ ~StartCrashes(session)
    BY PlayedSession, DealingStarts DEF StartSession
  <1>3. PICK shuffle \in Shuffles :
          /\ session' = Deal(session, shuffle)
          /\ dealt' = [i \in Slots |-> IF i \in Served(session)
                         THEN HandDealt(session,
                                        Shuffled(shuffle.cards, session.rules.nbrCards), i)
                         ELSE << >>]
    BY DEF Dealing, HandleStart
  <1> DEFINE t == Deal(session, shuffle)
             ids == Shuffled(shuffle.cards, session.rules.nbrCards)
  <1>4. /\ t.rules = session.rules /\ t.freed = session.freed /\ t.role = session.role
        /\ t.hand = [i \in Slots |-> IF i \in Served(session) /\ session.hand[i] # NoHand
                                     THEN ToSet(HandDealt(session, ids, i))
                                     ELSE session.hand[i]]
    BY <1>2 DEF Deal, Equipped, AllFields, MemberFields, GameFields
  <1>5. session.rules \in Rules /\ Deck(session) \subseteq Cards /\ NoCard \notin Cards
    BY <1>2, SlotsAndRows, CardsAre DEF Equipped
  <1>6. ASSUME NEW i \in Playing(session) PROVE t.hand[i] # NoHand
    <2>1. i \in Slots /\ session.hand[i] # NoHand
      BY DEF Played, Handed, Playing
    <2>2. CASE i \in Served(session)
      <3>1. ToSet(HandDealt(session, ids, i)) \subseteq Deck(session)
        BY <1>5, <2>2, DealtIs
      <3>2. t.hand[i] = ToSet(HandDealt(session, ids, i))
        BY <1>4, <2>1, <2>2
      <3> HIDE DEF t, ids
      <3> QED BY <1>5, <3>1, <3>2 DEF NoHand
    <2>3. CASE i \notin Served(session)
      BY <1>4, <2>1, <2>3
    <2> QED BY <2>2, <2>3
  <1>7. session'.rules = DefaultRules /\ ~session'.freed /\ Handed(session')
    BY <1>3, <1>4, <1>6 DEF Played, Handed, Playing
  <1>8. dealt' \in [Slots -> Seq(Cards)]
    <2>1. ASSUME NEW i \in Served(session) PROVE HandDealt(session, ids, i) \in Seq(Cards)
      <3>1. HandDealt(session, ids, i) \in Seq(Deck(session))
        BY <1>5, HandDealtIs
      <3> HIDE DEF ids
      <3> QED BY <1>5, <3>1
    <2> HIDE DEF ids
    <2> QED BY <1>3, <2>1 DEF ids
  <1>9. toSession # << >> /\ toSession' = Tail(toSession) /\ Head(toSession).type = "START"
    BY DEF Dealing, HandleStart, Take
  <1> DEFINE q == Tail(toSession)
  <1>10. /\ q \in Seq(M) /\ 1 \in DOMAIN toSession /\ Head(toSession) = toSession[1]
         /\ \A k \in DOMAIN q : k \in Nat /\ k + 1 \in DOMAIN toSession /\ k + 1 # 1
                                /\ q[k] = toSession[k + 1]
    BY <1>1, <1>9, QueueTail
  <1> HIDE DEF q
  <1>11. \A k \in DOMAIN q : q[k].type # "START"
    BY <1>9, <1>10 DEF Played, StartUnderWay
  <1>12. StartUnderWay' /\ \E N : toSession' \in Seq(N)
    BY <1>9, <1>10, <1>11 DEF StartUnderWay, q
  <1> QED BY <1>7, <1>8, <1>12 DEF Arranged, Handed, Playing

\* The user types start between games, while none is under way.
LEMMA StartArranged ==
  ASSUME Played, Start
  PROVE  Arranged'
  <1>1. PICK M : toSession \in Seq(M)
    BY DEF Played
  <1>2. /\ deals < MaxDeals /\ ~On(session)
        /\ \A k \in DOMAIN toSession : toSession[k].type # "START"
        /\ toSession' = Append(toSession, Msg("START", Human, 0))
        /\ session' = session /\ deals' = deals /\ dealt' = dealt
    BY DEF Start, TypesInside, Types, vars, On
  <1> DEFINE m == Msg("START", Human, 0)
             q == Append(toSession, m)
  <1>3. /\ q \in Seq(M \cup {m}) /\ Len(toSession) \in Nat
        /\ \A k \in DOMAIN q : q[k].type = "START" => k = Len(toSession) + 1
    BY <1>1, <1>2, QueueAppend
  <1> HIDE DEF m, q
  <1>4. StartUnderWay' /\ \E N : toSession' \in Seq(N)
    BY <1>2, <1>3 DEF StartUnderWay, q, m, On
  <1> QED BY <1>2, <1>4 DEF Arranged, Played, Handed, Playing

\* Every step of the table is one of Session, and keeps the invariant.
LEMMA NextPlayed == Played /\ [TableNext]_tableVars => [Next]_vars /\ Played'
  <1> SUFFICES ASSUME Played, [TableNext]_tableVars PROVE [Next]_vars /\ Played'
    OBVIOUS
  <1>1. Quiet \/ Dealing \/ Start
    BY TableSteps
  <1>2. [Next]_vars
    <2>1. CASE Quiet
      BY <2>1 DEF Quiet, Others, Next
    <2>2. CASE Dealing
      BY <2>2, DealingStarts, OneRuleBook DEF Next
    <2>3. CASE Start
      BY <2>3 DEF Start, TypesInside, Types, vars
    <2> QED BY <1>1, <2>1, <2>2, <2>3
  <1>3. \A c \in Clients : StartSession(c) => WellStarted
    <2> SUFFICES ASSUME NEW c \in Clients, StartSession(c) PROVE WellStarted
      OBVIOUS
    <2>1. session.game_state = "INACTIVE"
      BY OneRuleBook DEF StartSession, StartAccepted
    <2>2. Served(session) = Seated(session)
      BY PlayedSession, OneRuleBook, AllServed DEF Played
    <2> QED BY <2>1, <2>2 DEF WellStarted
  <1>4. GameInv'
    BY <1>2, <1>3, NextGame DEF Played
  <1>5. Numbered'
    BY <1>2, NextNumbered DEF Played
  <1>6. Arranged'
    BY <1>1, QuietArranged, DealingArranged, StartArranged
  <1> QED BY <1>2, <1>4, <1>5, <1>6 DEF Played, Arranged

\* A table on which the creator's JOIN is under way.
LEMMA InitPlayed == TableInit => Init /\ Played
  <1> SUFFICES ASSUME TableInit PROVE Init /\ Played
    OBVIOUS
  <1>1. Init /\ GameInv /\ Numbered
    BY InitGame, InitNumbered DEF TableInit
  <1>2. session.rules = DefaultRules /\ ~session.freed /\ Playing(session) = {}
    BY <1>1 DEF Init, Playing
  <1>3. toSession = <<Msg("JOIN", Human, 0)>> /\ toSession[1].type = "JOIN"
    BY DEF TableInit, Msg
  <1>4. toSession \in Seq({Msg("JOIN", Human, 0)}) /\ DOMAIN toSession = {1}
    BY <1>3
  <1>5. dealt \in [Slots -> Seq(Cards)]
    BY DEF TableInit
  <1> QED BY <1>1, <1>2, <1>3, <1>4, <1>5 DEF Played, Handed, StartUnderWay

-----------------------------------------------------------------------------
(* What the bots make of a SESSION_INFO *)

TheRows == 0..(DefaultRules.nbrLign - 1)
TheDeck == 0..(DefaultRules.nbrCards - 1)

\* What is shown of a game: rows that are not empty, cards with their heads.
InfoPackets ==
  [type : {"INFO"}, board : [TheRows -> Seq(TheDeck) \ {<< >>}],
   heads : [TheDeck -> 0..255], hand : Seq(Cards), player_count : Nat]

\* Rules for four rows at most, and cards that count from 0.
LEMMA TheRules ==
  /\ DefaultRules \in Rules /\ DefaultRules.nbrLign \in 1..4
  /\ TheRows \subseteq 0..3 /\ TheRows \subseteq Nat
  /\ TheDeck \subseteq Cards /\ Cards \subseteq Nat /\ NoCard \notin Cards
  <1>1. DefaultRules \in Rules
    BY DEF Rules
  <1>2. DefaultRules.nbrLign \in 1..4
    <2>1. DefaultRules.nbrLign \in 1..255
      BY <1>1, GameAssumption
    <2>2. DefaultRules.nbrLign <= 4
      BY TableAssumption
    <2> QED BY <2>1, <2>2
  <1>3. TheRows \subseteq 0..3 /\ TheRows \subseteq Nat
    BY <1>2 DEF TheRows
  <1>4. TheDeck \subseteq Cards /\ Cards \subseteq Nat /\ NoCard \notin Cards
    <2>1. \A g : g.rules \in Rules => Deck(g) \subseteq Cards
      BY SlotsAndRows
    <2>2. [rules |-> DefaultRules].rules = DefaultRules
      OBVIOUS
    <2>3. Deck([rules |-> DefaultRules]) \subseteq Cards
      BY <1>1, <2>1, <2>2
    <2>4. TheDeck \subseteq Cards
      BY <2>2, <2>3 DEF Deck, TheDeck
    <2>5. Cards \subseteq Nat /\ NoCard \notin Cards
      BY CardsAre
    <2> QED BY <2>4, <2>5
  <1> QED BY <1>1, <1>2, <1>3, <1>4

\* The rows and the deck of a session that has these rules.
LEMMA UnderTheRules ==
  ASSUME NEW s, s.rules = DefaultRules
  PROVE  Rows(s) = TheRows /\ Deck(s) = TheDeck
  BY DEF Rows, Deck, TheRows, TheDeck

\* Among numbers there is a least, and a first one with it.
LEMMA FirstCheapestIs ==
  ASSUME NEW rows \in SUBSET Nat, rows # {}, NEW sum, \A r \in rows : sum[r] \in Nat
  PROVE  FirstCheapest(rows, sum) \in rows
  <1> DEFINE U == {sum[r] : r \in rows}
             Least(r) == \A q \in rows : sum[r] < sum[q] \/ (sum[r] = sum[q] /\ r <= q)
  <1>1. PICK u \in U : \A v \in U : u <= v
    <2>1. U \in SUBSET Nat /\ U # {}
      OBVIOUS
    <2> HIDE DEF U
    <2> QED BY <2>1, LeastNat
  <1> DEFINE W == {r \in rows : sum[r] = u}
  <1>2. PICK r \in W : \A q \in W : r <= q
    <2>1. W \in SUBSET Nat /\ W # {}
      BY <1>1
    <2> HIDE DEF W
    <2> QED BY <2>1, LeastNat
  <1>3. ASSUME NEW q \in rows PROVE sum[r] < sum[q] \/ (sum[r] = sum[q] /\ r <= q)
    <2>1. u <= sum[q] /\ sum[r] = u
      BY <1>1, <1>2
    <2>2. u = sum[q] => r <= q
      BY <1>2
    <2>3. u \in Nat /\ sum[q] \in Nat
      BY <1>2
    <2> QED BY <2>1, <2>2, <2>3
  <1>4. \E k \in rows : Least(k)
    BY <1>2, <1>3
  <1>5. FirstCheapest(rows, sum) = CHOOSE k \in rows : Least(k)
    BY DEF FirstCheapest
  <1> HIDE DEF Least
  <1> QED BY <1>4, <1>5

\* A view of such a packet.
Seen(v) ==
  /\ v.board \in [TheRows -> Seq(TheDeck) \ {<< >>}] /\ v.heads \in [TheDeck -> 0..255]
  /\ v.hand \in Seq(Cards) /\ v.player_count \in Nat

\* The heads of a row are counted as the session counts them.
LEMMA BullsSumIs ==
  ASSUME NEW v, NEW row
  PROVE  BullsSum(v, row) = RowHeads(v, row)
  BY DEF BullsSum, RowHeads

\* They are a number.
LEMMA BullsSumType ==
  ASSUME NEW v, Seen(v), NEW row \in TheRows
  PROVE  BullsSum(v, row) \in Nat
  <1>1. v.board[row] \in Seq(TheDeck)
    BY DEF Seen
  <1>2. \A c \in TheDeck : v.heads[c] \in Nat
    <2>1. v.heads \in [TheDeck -> 0..255]
      BY DEF Seen
    <2> QED BY <2>1
  <1>3. RowHeads(v, row) \in Nat
    BY <1>1, <1>2, RowHeadsType
  <1> QED BY <1>3, BullsSumIs

\* The row that a bot would take is one of the board, or none.
LEMMA RowsToTakeAre ==
  ASSUME NEW v, Seen(v)
  PROVE  RowsToTake(v) \subseteq -1..3
  <1> DEFINE known == DOMAIN v.board \ FullRows(v)
             sum == [r \in known |-> BullsSum(v, r)]
  <1>1. DOMAIN v.board = TheRows /\ FullRows(v) \subseteq TheRows
    BY DEF Seen, FullRows
  <1>2. ASSUME known # {} PROVE FirstCheapest(known, sum) \in known
    <2>1. known \in SUBSET Nat
      <3>1. known \subseteq TheRows /\ TheRows \subseteq Nat
        BY <1>1, TheRules
      <3> HIDE DEF known
      <3> QED BY <3>1
    <2>2. \A r \in known : sum[r] \in Nat
      BY <1>1, BullsSumType
    <2> HIDE DEF known, sum
    <2> QED BY <1>2, <2>1, <2>2, FirstCheapestIs
  <1>3. RowsToTake(v) = FullRows(v) \cup
                          (IF known = {} THEN {-1} ELSE {FirstCheapest(known, sum)})
    BY DEF RowsToTake
  <1> HIDE DEF sum
  <1>4. known \subseteq TheRows
    BY <1>1
  <1> HIDE DEF known
  <1>5. RowsToTake(v) \subseteq TheRows \cup {-1}
    BY <1>1, <1>2, <1>3, <1>4
  <1>6. TheRows \cup {-1} \subseteq -1..3
    BY TheRules
  <1> QED BY <1>5, <1>6

\* The danger of a card is a number.
LEMMA DangerType ==
  ASSUME NEW v, Seen(v), 0..3 \subseteq TheRows, NEW card \in Nat
  PROVE  Danger(v, card) \in Nat
  <1> DEFINE below == {r \in 0..3 : Last(v.board[r]) < card}
             Best(r) == \A q \in below : Last(v.board[r]) >= Last(v.board[q])
             best == CHOOSE r \in below : Best(r)
  <1>1. \A r \in 0..3 : Last(v.board[r]) \in Nat
    <2>1. ASSUME NEW r \in 0..3 PROVE Last(v.board[r]) \in TheDeck
      <3>1. v.board[r] \in Seq(TheDeck) /\ v.board[r] # << >>
        BY DEF Seen
      <3> QED BY <3>1 DEF Last
    <2> QED BY <2>1, TheRules
  <1>2. ASSUME below # {} PROVE best \in below
    <2> DEFINE U == {card - Last(v.board[r]) : r \in below}
    <2>1. PICK u \in U : \A w \in U : u <= w
      <3>1. U \in SUBSET Nat /\ U # {}
        BY <1>1, <1>2
      <3> HIDE DEF U
      <3> QED BY <3>1, LeastNat
    <2>2. PICK r \in below : card - Last(v.board[r]) = u
      BY <2>1
    <2>3. \A q \in below : u <= card - Last(v.board[q])
      BY <2>1
    <2>4. r \in 0..3 /\ \A q \in below : q \in 0..3
      OBVIOUS
    <2> HIDE DEF below
    <2>5. Best(r)
      BY <1>1, <2>2, <2>3, <2>4
    <2> HIDE DEF Best
    <2> QED BY <2>2, <2>5
  <1> DEFINE count == Len(v.board[best])
             diff  == card - Last(v.board[best])
  <1>3. Danger(v, card) =
          IF below = {} THEN 500
          ELSE IF count = 5 THEN 1000 + 10 * BullsSum(v, best)
               ELSE (IF count = 4 /\ diff > 1 THEN 50 * v.player_count ELSE 0)
                      + (IF diff > v.player_count THEN 2 * diff ELSE 0)
    BY DEF Danger
  <1>4. ASSUME below # {} PROVE diff \in Nat /\ BullsSum(v, best) \in Nat
    <2>1. best \in 0..3 /\ Last(v.board[best]) < card
      BY <1>2, <1>4
    <2> HIDE DEF best
    <2>2. BullsSum(v, best) \in Nat
      BY <2>1, BullsSumType
    <2> QED BY <1>1, <2>1, <2>2
  <1>5. v.player_count \in Nat
    BY DEF Seen
  <1> HIDE DEF diff, count, best
  <1> DEFINE bulls == BullsSum(v, best)
  <1> HIDE DEF bulls, below
  <1> QED BY <1>3, <1>4, <1>5 DEF bulls

\* A bot answers with an index of its hand, or with one that stands for none.
LEMMA CardChoicesAre ==
  ASSUME NEW v, Seen(v), NEW level, NEW placed
  PROVE  CardChoices(level, v, placed) \subseteq (0..(Len(v.hand) - 1)) \cup {-1, 0}
  <1> DEFINE indices == 0..(Len(v.hand) - 1)
             danger == [i \in indices |-> Danger(v, v.hand[i + 1])]
  <1>1. LeastDangerous(v) \subseteq indices \cup {-1}
    <2>1. CASE ~(0..3 \subseteq DOMAIN v.board) \/ FullRows(v) \cap (0..3) # {}
      BY <2>1 DEF LeastDangerous
    <2>2. CASE 0..3 \subseteq DOMAIN v.board /\ FullRows(v) \cap (0..3) = {}
      <3>1. 0..3 \subseteq TheRows /\ v.hand \in Seq(Cards) /\ Cards \subseteq Nat
        BY <2>2, TheRules DEF Seen
      <3>2. ASSUME NEW i \in indices PROVE danger[i] \in Nat
        <4>1. i + 1 \in DOMAIN v.hand
          <5>1. Len(v.hand) \in Nat /\ DOMAIN v.hand = 1..Len(v.hand)
            BY <3>1
          <5> QED BY <5>1
        <4>2. v.hand[i + 1] \in Cards
          BY <3>1, <4>1
        <4>3. Danger(v, v.hand[i + 1]) \in Nat
          BY <3>1, <4>2, DangerType
        <4> QED BY <4>3
      <3>3. indices # {} => FirstCheapest(indices, danger) \in indices
        <4>1. indices \in SUBSET Nat
          OBVIOUS
        <4> HIDE DEF indices, danger
        <4> QED BY <3>2, <4>1, FirstCheapestIs
      <3>4. LeastDangerous(v) = IF indices = {} THEN {-1} ELSE {FirstCheapest(indices, danger)}
        BY <2>2 DEF LeastDangerous
      <3> HIDE DEF indices, danger
      <3> QED BY <3>3, <3>4
    <2> QED BY <2>1, <2>2
  <1>2. \A others, cost : LeastPenalty(v, others, cost) \subseteq indices \cup {0}
    BY Zenon DEF LeastPenalty
  <1> DEFINE others == OtherHands(v, placed)
             deck == indices \X others
             round == [d \in deck |-> RoundPenalty(v, d[2], v.hand[d[1] + 1])]
             deep == [d \in deck |-> DeepPenalty(v, d[2], v.hand[d[1] + 1])]
  <1>3. CardChoices(level, v, placed) =
          CASE level = 0 -> LeastDangerous(v)
            [] level = 1 -> LeastPenalty(v, others, round)
            [] OTHER     -> LeastPenalty(v, others, deep)
    BY DEF CardChoices
  <1> HIDE DEF others, round, deep, indices
  <1> QED BY <1>1, <1>2, <1>3 DEF indices

-----------------------------------------------------------------------------
(* The packets for the bots *)

OtherPackets ==
  [type : {"STATE"}, rules : {DefaultRules}]
    \cup [type : {"REQUEST_EXTRA", "PHASE_RESULT", "SESSION_END", "ERROR"}]
Packets == InfoPackets \cup OtherPackets

\* Packets wait for the bots that run only.
Boxed(in) == /\ in \in [Bots -> Seq(Packets)]
             /\ \A b \in Bots : bot[b].pc # "running" => in[b] = << >>

\* What the hands are dealt from, and how many at most.
Hands == /\ dealt \in [Slots -> Seq(Cards)]
         /\ \A i \in Slots : Len(dealt[i]) <= 255

\* While a game is on under these rules no row is empty.
LEMMA RowsFilled ==
  ASSUME NEW s, Sound(s), On(s), s.rules = DefaultRules
  PROVE  \A r \in TheRows : s.board[r] # << >>
  <1>1. ~BusMayFill /\ DefaultRules.nbrLign <= DefaultRules.nbrCards
    <2> DEFINE size == DefaultRules.nbrCardsPlayer
               dealing == size * GameCapacity
    <2>1. /\ DefaultRules.nbrLign \in Nat /\ DefaultRules.nbrCards \in Nat
          /\ size \in Nat /\ GameCapacity \in Nat
      <3>1. DefaultRules \in Rules /\ GameCapacity \in 1..255
        BY OneRuleBook, SessionAssumption
      <3> QED BY <3>1, GameAssumption
    <2>2. DefaultRules.nbrLign + dealing <= DefaultRules.nbrCards
      BY OneRuleBook DEF Ample
    <2> HIDE DEF size
    <2>3. dealing \in Nat
      BY <2>1
    <2> HIDE DEF dealing
    <2>4. DefaultRules.nbrLign <= DefaultRules.nbrCards
      BY <2>1, <2>2, <2>3
    <2>5. ~BusMayFill
      BY TableAssumption
    <2> QED BY <2>4, <2>5
  <1>2. Filled(s) /\ Rows(s) = TheRows
    BY UnderTheRules DEF Sound
  <1> QED BY <1>1, <1>2 DEF Filled

\* A member's slot.
LEMMA MemberSlot ==
  ASSUME NEW s, NEW c, Member(s, c)
  PROVE  /\ Index(s, c) \in Slots /\ s.player_id[Index(s, c)] = c
         /\ s.role[Index(s, c)] # "NONE"
  <1> DEFINE T == {i \in Slots : s.role[i] # "NONE" /\ s.player_id[i] = c}
  <1>1. T \in SUBSET Nat /\ T # {} /\ Index(s, c) = Min(T)
    BY SlotsFinite DEF Member, Index
  <1>2. Index(s, c) \in T
    <2> HIDE DEF T
    <2> QED BY <1>1, MinIs
  <1> QED BY <1>2

\* Cards of a hand, as many as were dealt at most.
LEMMA HandShownIs ==
  ASSUME NEW s, Sound(s), On(s), s.rules = DefaultRules, Hands, NEW i \in Slots
  PROVE  VisibleHand(s, i) \in Seq(Cards)
  <1>1. HandOf(s, i) \subseteq Cards
    <2>1. HandOf(s, i) \subseteq TheDeck /\ TheDeck \subseteq Cards
      BY UnderTheRules, TheRules DEF Sound, DeckInUse
    <2> QED BY <2>1
  <1>2. Len(dealt[i]) \in Nat
    BY DEF Hands
  <1>3. VisibleHand(s, i) \in Seq(HandOf(s, i))
    BY <1>2, VisibleHandIs
  <1> QED BY <1>1, <1>3

\* session_send_info
LEMMA InfoIs ==
  ASSUME NEW s, Sound(s), On(s), s.rules = DefaultRules, Hands, NEW b, Member(s, b)
  PROVE  Info(s, b) \in InfoPackets /\ Info(s, b).type = "INFO"
         /\ Info(s, b).board = s.board /\ Info(s, b).heads = s.heads
         /\ Info(s, b).hand = VisibleHand(s, Index(s, b))
  <1> DEFINE i == Index(s, b)
             n == Cardinality(Seated(s))
             hand == VisibleHand(s, i)
  <1>1. s.board \in [TheRows -> Seq(TheDeck) \ {<< >>}]
    <2>1. s.board \in [TheRows -> Seq(TheDeck)]
      BY UnderTheRules DEF Sound, Formed, Boards
    <2>2. \A r \in TheRows : s.board[r] # << >>
      BY RowsFilled
    <2> QED BY <2>1, <2>2
  <1>2. s.heads \in [TheDeck -> 0..255]
    BY UnderTheRules DEF Sound, DeckInUse
  <1>3. hand \in Seq(Cards)
    BY MemberSlot, HandShownIs
  <1>4. n \in Nat
    <2>1. Seated(s) \in SUBSET Slots
      BY DEF Seated, Playing
    <2>2. n \in 0..MaxClients /\ MaxClients \in Nat
      BY <2>1, SlotSets, SlotsFinite
    <2> QED BY <2>2
  <1>5. Info(s, b) = [type |-> "INFO", board |-> s.board, heads |-> s.heads,
                      hand |-> hand, player_count |-> n]
    BY DEF Info
  <1> HIDE DEF hand, n, i
  <1>6. Info(s, b) \in InfoPackets
    BY <1>1, <1>2, <1>3, <1>4, <1>5 DEF InfoPackets
  <1> QED BY <1>5, <1>6 DEF hand, i

\* A packet of a type without more to it.
LEMMA PacketIs ==
  ASSUME NEW type \in {"REQUEST_EXTRA", "PHASE_RESULT", "SESSION_END", "ERROR"}
  PROVE  /\ Packet(type) \in Packets /\ Packet(type).type = type
         /\ Packet(type) \notin InfoPackets
  BY DEF Packet, Packets, OtherPackets, InfoPackets

\* Packets sent to one client.
LEMMA SendToIs ==
  ASSUME NEW in, Boxed(in), NEW c, NEW packets \in Seq(Packets)
  PROVE  /\ Boxed(SendTo(in, c, packets))
         /\ \A b \in Bots : SendTo(in, c, packets)[b] =
                              IF b = c /\ bot[b].pc = "running" THEN in[b] \o packets
                              ELSE in[b]
  <1>1. CASE c \in Bots /\ bot[c].pc = "running"
    <2>1. SendTo(in, c, packets) = [in EXCEPT ![c] = @ \o packets]
      BY <1>1 DEF SendTo
    <2>2. in[c] \o packets \in Seq(Packets)
      BY <1>1 DEF Boxed
    <2> QED BY <1>1, <2>1, <2>2 DEF Boxed
  <1>2. CASE ~(c \in Bots /\ bot[c].pc = "running")
    <2>1. SendTo(in, c, packets) = in
      BY <1>2 DEF SendTo
    <2> QED BY <1>2, <2>1
  <1> QED BY <1>1, <1>2

\* A packet for each bot of a set.
LEMMA SendToAllIs ==
  ASSUME NEW in, Boxed(in), NEW packet, DOMAIN packet \subseteq Bots,
         \A b \in DOMAIN packet : packet[b] \in Packets
  PROVE  /\ Boxed(SendToAll(in, packet))
         /\ \A b \in Bots : SendToAll(in, packet)[b] =
                              IF b \in DOMAIN packet /\ bot[b].pc = "running"
                              THEN Append(in[b], packet[b]) ELSE in[b]
  <1> DEFINE out == SendToAll(in, packet)
  <1>1. out = [b \in Bots |-> IF b \in DOMAIN packet /\ bot[b].pc = "running"
                              THEN Append(in[b], packet[b]) ELSE in[b]]
    BY DEF SendToAll
  <1> HIDE DEF out
  <1>2. ASSUME NEW b \in Bots PROVE out[b] \in Seq(Packets)
    <2>1. in[b] \in Seq(Packets)
      BY DEF Boxed
    <2> QED BY <1>1, <2>1
  <1> QED BY <1>1, <1>2 DEF Boxed, out

-----------------------------------------------------------------------------
(* What the bots are told of a round *)

\* Who is told something once a round has made the session s, and what.
Told(s, b) == IF s.game_state = "WAITING_EXTRA" THEN b = s.extra_wait_from ELSE Member(s, b)
Telling(s, b) ==
  CASE s.game_state = "WAITING"  -> Info(s, b)
    [] s.game_state = "INACTIVE" -> Packet("PHASE_RESULT")
    [] OTHER -> Packet("REQUEST_EXTRA")

\* It is a packet.
LEMMA TellingIs ==
  ASSUME NEW s, Sound(s), s.rules = DefaultRules, Hands, NEW b, Told(s, b)
  PROVE  Telling(s, b) \in Packets
  <1>1. s.game_state \in States
    BY DEF Sound, Formed
  <1>2. CASE s.game_state = "WAITING"
    <2>1. Info(s, b) \in InfoPackets
      BY <1>2, InfoIs DEF On, Told
    <2> QED BY <1>2, <2>1 DEF Telling, Packets
  <1>3. CASE s.game_state # "WAITING"
    <2>1. Packet("PHASE_RESULT") \in Packets /\ Packet("REQUEST_EXTRA") \in Packets
      BY PacketIs
    <2> QED BY <1>3, <2>1 DEF Telling
  <1> QED BY <1>2, <1>3

\* handle_result_of_play
LEMMA AnnounceIs ==
  ASSUME NEW in, Boxed(in), NEW s, Sound(s), s.rules = DefaultRules, Hands
  PROVE  /\ Boxed(Announce(in, s))
         /\ \A b \in Bots : Announce(in, s)[b] =
                              IF bot[b].pc = "running" /\ Told(s, b)
                              THEN Append(in[b], Telling(s, b)) ELSE in[b]
  <1> DEFINE members == {b \in Bots : Member(s, b)}
             infos == [b \in members |-> Info(s, b)]
             results == [b \in members |-> Packet("PHASE_RESULT")]
             question == <<Packet("REQUEST_EXTRA")>>
             out == Announce(in, s)
  <1>1. out = CASE s.game_state = "WAITING"  -> SendToAll(in, infos)
                [] s.game_state = "INACTIVE" -> SendToAll(in, results)
                [] OTHER -> SendTo(in, s.extra_wait_from, question)
    BY DEF Announce
  <1>2. s.game_state \in States
    BY DEF Sound, Formed
  <1> HIDE DEF out
  <1>3. CASE s.game_state = "WAITING"
    <2>1. out = SendToAll(in, infos)
      BY <1>1, <1>3
    <2>2. /\ DOMAIN infos = members /\ members \subseteq Bots
          /\ \A b \in members : infos[b] = Telling(s, b) /\ Telling(s, b) \in Packets
      <3>1. ASSUME NEW b \in members PROVE infos[b] = Telling(s, b) /\ Told(s, b)
        BY <1>3 DEF Telling, Told
      <3> QED BY <3>1, TellingIs
    <2> HIDE DEF infos
    <2>3. /\ Boxed(out)
          /\ \A b \in Bots : out[b] = IF b \in members /\ bot[b].pc = "running"
                                      THEN Append(in[b], infos[b]) ELSE in[b]
      <3> HIDE DEF members
      <3> QED BY <2>1, <2>2, SendToAllIs
    <2>4. \A b \in Bots : b \in members <=> Told(s, b)
      BY <1>3 DEF Told
    <2> QED BY <2>2, <2>3, <2>4 DEF out
  <1>4. CASE s.game_state = "INACTIVE"
    <2>1. out = SendToAll(in, results)
      BY <1>1, <1>4
    <2>2. /\ DOMAIN results = members /\ members \subseteq Bots
          /\ \A b \in members : results[b] = Telling(s, b) /\ Telling(s, b) \in Packets
      <3>1. ASSUME NEW b \in members PROVE results[b] = Telling(s, b) /\ Told(s, b)
        BY <1>4 DEF Telling, Told
      <3> QED BY <3>1, TellingIs
    <2> HIDE DEF results
    <2>3. /\ Boxed(out)
          /\ \A b \in Bots : out[b] = IF b \in members /\ bot[b].pc = "running"
                                      THEN Append(in[b], results[b]) ELSE in[b]
      <3> HIDE DEF members
      <3> QED BY <2>1, <2>2, SendToAllIs
    <2>4. \A b \in Bots : b \in members <=> Told(s, b)
      BY <1>4 DEF Told
    <2> QED BY <2>2, <2>3, <2>4 DEF out
  <1>5. CASE s.game_state = "WAITING_EXTRA"
    <2>1. out = SendTo(in, s.extra_wait_from, question)
      BY <1>1, <1>5
    <2>2. question \in Seq(Packets) /\ Packet("REQUEST_EXTRA") \in Packets
      BY PacketIs
    <2>3. \A b : Telling(s, b) = Packet("REQUEST_EXTRA") /\ (Told(s, b) <=> b = s.extra_wait_from)
      BY <1>5 DEF Telling, Told
    <2>4. ASSUME NEW b \in Bots
          PROVE  in[b] \o question = Append(in[b], Packet("REQUEST_EXTRA"))
      <3>1. in[b] \in Seq(Packets)
        BY DEF Boxed
      <3> DEFINE p == Packet("REQUEST_EXTRA")
      <3>2. p \in Packets
        BY <2>2
      <3> HIDE DEF p
      <3> QED BY <3>1, <3>2
    <2> HIDE DEF question
    <2>5. /\ Boxed(out)
          /\ \A b \in Bots : out[b] = IF b = s.extra_wait_from /\ bot[b].pc = "running"
                                      THEN in[b] \o question ELSE in[b]
      BY <2>1, <2>2, SendToIs
    <2> QED BY <2>3, <2>4, <2>5 DEF out
  <1> QED BY <1>2, <1>3, <1>4, <1>5 DEF States

\* The bots that run are told of the session s, if there is something to tell.
Spread(in, out, due, s) ==
  \A b \in Bots : out[b] = IF due /\ bot[b].pc = "running" /\ Told(s, b)
                           THEN Append(in[b], Telling(s, b)) ELSE in[b]

\* start_move and handle_result_of_play
LEMMA AfterMoveIs ==
  ASSUME NEW in, Boxed(in), NEW s, Sound(StartMove(s, TRUE)),
         StartMove(s, TRUE).rules = DefaultRules, Hands
  PROVE  /\ Boxed(AfterMove(in, s))
         /\ Spread(in, AfterMove(in, s), Due(s), StartMove(s, TRUE))
  <1>1. CASE Due(s)
    <2>1. AfterMove(in, s) = Announce(in, StartMove(s, TRUE))
      BY <1>1 DEF AfterMove
    <2> DEFINE t == StartMove(s, TRUE)
    <2> HIDE DEF t
    <2>2. /\ Boxed(Announce(in, t))
          /\ \A b \in Bots : Announce(in, t)[b] =
                               IF bot[b].pc = "running" /\ Told(t, b)
                               THEN Append(in[b], Telling(t, b)) ELSE in[b]
      BY AnnounceIs DEF t
    <2> QED BY <1>1, <2>1, <2>2 DEF Spread, t
  <1>2. CASE ~Due(s)
    BY <1>2 DEF AfterMove, Spread
  <1> QED BY <1>1, <1>2

\* The round is due without the player in slot i of s.
DueWithout(s, i) == s.role[i] = "PLAYER" /\ On(s) /\ Due(Left(s, i))

\* The same within remove_player and change_player_role.
LEMMA AfterWithdrawIs ==
  ASSUME NEW in, Boxed(in), NEW s, NEW c, Member(s, c), s.rules = DefaultRules,
         DOMAIN s = AllFields, Hands,
         s.role[Index(s, c)] = "PLAYER" => \E P : MayPart(s, Index(s, c), P)
  PROVE  /\ Boxed(AfterWithdraw(in, s, c))
         /\ Spread(in, AfterWithdraw(in, s, c), DueWithout(s, Index(s, c)),
                   Withdraw(s, Index(s, c), TRUE))
  <1> DEFINE i == Index(s, c)
             x == Left(s, i)
             out == AfterWithdraw(in, s, c)
  <1>1. out = IF s.role[i] = "PLAYER" /\ On(s) THEN AfterMove(in, x) ELSE in
    BY DEF AfterWithdraw, Left, On
  <1>2. ASSUME On(s) PROVE Withdraw(s, i, TRUE) = StartMove(x, TRUE)
    BY <1>2 DEF Withdraw, On, Left
  <1> HIDE DEF i, out
  <1>3. CASE s.role[i] = "PLAYER" /\ On(s)
    <2>1. PICK P : MayPart(s, i, P)
      BY <1>3 DEF i
    <2>2. Sound(Withdraw(s, i, TRUE))
      BY <2>1, OneRuleBook, WithdrawSound
    <2>3. Withdraw(s, i, TRUE).rules = DefaultRules
      <3>1. Frame(s, Withdraw(s, i, TRUE), GameFields \cup {"active_players"})
        BY WithdrawFrame DEF AllFields, MemberFields
      <3> QED BY <3>1 DEF Frame, GameFields, AllFields, MemberFields
    <2> HIDE DEF x
    <2>4. Boxed(AfterMove(in, x)) /\ Spread(in, AfterMove(in, x), Due(x), StartMove(x, TRUE))
      BY <1>2, <1>3, <2>2, <2>3, AfterMoveIs
    <2>5. out = AfterMove(in, x) /\ Withdraw(s, i, TRUE) = StartMove(x, TRUE)
          /\ (DueWithout(s, i) <=> Due(x))
      BY <1>1, <1>2, <1>3 DEF DueWithout, x
    <2> QED BY <2>4, <2>5 DEF out, i, Spread
  <1>4. CASE ~(s.role[i] = "PLAYER" /\ On(s))
    BY <1>1, <1>4 DEF Spread, DueWithout, out, i
  <1> QED BY <1>3, <1>4

-----------------------------------------------------------------------------
(* Who is asked for a row is asked before any card is placed *)

\* A row of the board ends below all the cards that wait.
Led(s, g) ==
  \E r \in Rows(s) :
    /\ g.board[r] # << >>
    /\ \A i \in Waiting(g) : Last(g.board[r]) < g.ready[i]

\* A card that is placed leads those that are left.
LEMMA PlacedLeads ==
  ASSUME NEW s, Decked(s), NEW g \in Reached(s, Held(s)), ~Settled(g)
  PROVE  Led(s, PlaceLowest(g))
  <1> DEFINE slot == LowestSlot(g)
             c    == g.ready[slot]
             row  == BestRow(g, c)
             h    == PlaceLowest(g)
             v    == IF Len(g.board[row]) >= s.rules.nbrCardsLign THEN <<c>>
                     ELSE Append(g.board[row], c)
  <1>1. g \in Positions(s) /\ Waiting(g) # {} /\ ~Blocked(g) /\ Neat(s, g, Held(s))
    BY DEF Reached, Settled
  <1>2. /\ slot \in Waiting(g) /\ c \in Deck(s) /\ row \in Fitting(g, c)
        /\ h.ready = [g.ready EXCEPT ![slot] = NoCard]
        /\ h.board = [g.board EXCEPT ![row] = v]
        /\ Waiting(h) = Waiting(g) \ {slot}
    BY <1>1, PlaceLowestIn
  <1>3. /\ g.board \in [Rows(s) -> Seq(Deck(s))] /\ Rows(g) = Rows(s)
        /\ g.ready \in [Slots -> Deck(s) \cup {NoCard}] /\ Deck(s) \subseteq Nat
    BY <1>1, PositionParts, SlotsAndRows DEF Decked
  <1>4. \A i \in Waiting(g) : g.ready[i] \in Nat /\ i \in Slots
    BY <1>3 DEF Waiting
  <1>5. \A i \in Waiting(g) : c <= g.ready[i]
    BY <1>1, <1>4, LowestSlotIs
  <1>6. row \in Rows(s)
    BY <1>2, <1>3 DEF Fitting
  <1> HIDE DEF slot, c, row, h
  <1>7. g.board[row] \in Seq(Deck(s)) /\ c \in Deck(s)
    BY <1>2, <1>3, <1>6
  <1>8. v # << >> /\ Last(v) = c
    <2>1. <<c>> # << >> /\ Last(<<c>>) = c
      BY DEF Last
    <2>2. Append(g.board[row], c) # << >> /\ Last(Append(g.board[row], c)) = c
      BY <1>7 DEF Last
    <2> QED BY <2>1, <2>2
  <1>9. h.board[row] = v
    BY <1>2, <1>3, <1>6
  <1>10. ASSUME NEW i \in Waiting(h) PROVE c < h.ready[i]
    <2>1. i \in Waiting(g) /\ i # slot
      BY <1>2
    <2>2. h.ready[i] = g.ready[i] /\ g.ready[i] # g.ready[slot]
      BY <1>1, <1>2, <1>3, <1>4, <2>1 DEF Neat
    <2>3. c <= g.ready[i] /\ c \in Nat /\ g.ready[i] \in Nat
      BY <1>2, <1>3, <1>4, <1>5, <2>1
    <2> QED BY <2>2, <2>3 DEF c
  <1> HIDE DEF v
  <1> QED BY <1>6, <1>8, <1>9, <1>10 DEF Led, h

\* Nor is a row asked for when one leads.
LEMMA LedGoesOn ==
  ASSUME NEW s, Decked(s), NEW g \in Positions(s), Led(s, g)
  PROVE  ~Blocked(g)
  <1> SUFFICES ASSUME Waiting(g) # {} PROVE Fitting(g, g.ready[LowestSlot(g)]) # {}
    BY DEF Blocked
  <1>1. PICK r \in Rows(s) : /\ g.board[r] # << >>
                             /\ \A i \in Waiting(g) : Last(g.board[r]) < g.ready[i]
    BY DEF Led
  <1>2. Rows(g) = Rows(s) /\ g.ready \in [Slots -> Deck(s) \cup {NoCard}]
        /\ Deck(s) \subseteq Nat
    BY PositionParts, SlotsAndRows DEF Decked
  <1>3. \A i \in Waiting(g) : g.ready[i] \in Nat
    BY <1>2 DEF Waiting
  <1>4. LowestSlot(g) \in Waiting(g)
    BY <1>3, LowestSlotIs
  <1> QED BY <1>1, <1>2, <1>4 DEF Fitting

\* So the board on which a row is asked for is that on which the round began, and
\* no row leads on it.
LEMMA BlockedAtOnce ==
  ASSUME NEW s, Sound(s), On(s), Blocked(PlaceAll(s))
  PROVE  PlaceAll(s).board = s.board /\ ~Led(s, s)
  <1> DEFINE I == {g \in Reached(s, Held(s)) :
                     Led(s, g) \/ (g.board = s.board /\ ~Led(s, s))}
             p == PlaceAll(s)
  <1>1. Decked(s) /\ Position(s) \in Reached(s, Held(s))
    BY PositionReached
  <1>2. I \in SUBSET Positions(s)
    BY DEF Reached
  <1>3. Position(s) \in I
    <2>1. Position(s).board = s.board /\ Position(s).ready = s.ready
      BY DEF Position
    <2>2. Led(s, Position(s)) <=> Led(s, s)
      BY <2>1 DEF Led, Waiting
    <2> QED BY <1>1, <2>1, <2>2
  <1>4. ASSUME NEW g \in I, ~Settled(g) PROVE PlaceLowest(g) \in I
    BY <1>1, <1>4, PlaceLowestNeat, PlacedLeads
  <1> HIDE DEF I
  <1>5. PICK g \in I : p = [s EXCEPT !.board = g.board, !.ready = g.ready,
                                     !.nb_head = g.nb_head]
    BY <1>1, <1>2, <1>3, <1>4, PlaceAllIn
  <1>6. p.board = g.board /\ p.ready = g.ready /\ p.rules = g.rules
    <2>1. DOMAIN s = AllFields
      BY DEF Sound, Formed
    <2>2. g.rules = s.rules
      BY <1>2, PositionParts
    <2> QED BY <1>5, <2>1, <2>2 DEF AllFields, MemberFields, GameFields
  <1>7. Blocked(g)
    <2>1. SameCards(g, p)
      BY <1>6 DEF SameCards
    <2> QED BY <2>1, SameCardsAs
  <1>8. ~Led(s, g)
    BY <1>1, <1>2, <1>7, LedGoesOn
  <1> QED BY <1>6, <1>8 DEF I

\* What is left to ask once a round is resolved: the board is that on which the
\* round began, and no row leads on it.
LEMMA ResolveAsks ==
  ASSUME NEW s, Sound(s), On(s), NEW sent,
         Resolve(s, sent).game_state = "WAITING_EXTRA"
  PROVE  Resolve(s, sent).board = s.board /\ ~Led(s, s)
  <1> DEFINE p == PlaceAll(s)
             t == Resolve(s, sent)
             owner == p.player_id[LowestSlot(p)]
             asked == IF sent /\ owner # NoClient THEN owner ELSE p.extra_wait_from
             next == IF \E i \in Seated(p) : OutOfCards(p, i) THEN "INACTIVE" ELSE "WAITING"
  <1>1. /\ Blocked(p) => t = [p EXCEPT !.game_state = "WAITING_EXTRA",
                                       !.extra_wait_from = asked]
        /\ ~Blocked(p) => t = [p EXCEPT !.ready_count = 0, !.game_state = next]
    BY DEF Resolve, AskForRow
  <1>2. DOMAIN p = AllFields
    BY PlaceAllFrame DEF Frame, Sound, Formed
  <1> HIDE DEF p, t, asked
  <1>3. Blocked(p)
    <2>1. ~Blocked(p) => t.game_state = next
      BY <1>1, <1>2 DEF AllFields, GameFields
    <2>2. next # "WAITING_EXTRA"
      OBVIOUS
    <2> HIDE DEF next
    <2> QED BY <2>1, <2>2 DEF t
  <1>4. t.board = p.board
    BY <1>1, <1>2, <1>3 DEF AllFields, GameFields
  <1>5. p.board = s.board /\ ~Led(s, s)
    BY <1>3, BlockedAtOnce DEF p
  <1> QED BY <1>4, <1>5 DEF t

-----------------------------------------------------------------------------
(* Sessions that differ in nothing that a round depends on *)

OwnFields == CardFields \cup GameFields \cup {"role", "active_players"}

SameGame(s, t) == /\ DOMAIN s = AllFields /\ DOMAIN t = AllFields
                  /\ \A x \in OwnFields : t[x] = s[x]

\* Field by field.
LEMMA SameGameIs ==
  ASSUME NEW s, NEW t, SameGame(s, t)
  PROVE  /\ t.board = s.board /\ t.ready = s.ready /\ t.nb_head = s.nb_head
         /\ t.heads = s.heads /\ t.rules = s.rules /\ t.hand = s.hand
         /\ t.player_id = s.player_id /\ t.role = s.role
         /\ t.game_state = s.game_state /\ t.extra_wait_from = s.extra_wait_from
         /\ t.ready_count = s.ready_count /\ t.active_players = s.active_players
  BY DEF SameGame, OwnFields, CardFields, GameFields

\* The recursion of place_card on the positions S.
Placing(S) == CHOOSE f : f = [g \in S |-> IF Settled(g) THEN g ELSE f[PlaceLowest(g)]]

\* place_card
LEMMA PlaceAllAs ==
  ASSUME NEW s, NEW t, SameGame(s, t)
  PROVE  SameGame(PlaceAll(s), PlaceAll(t))
  <1> DEFINE e(u) == Placing(Positions(u))[Position(u)]
  <1>1. ASSUME NEW u
        PROVE  PlaceAll(u) = [u EXCEPT !.board = e(u).board, !.ready = e(u).ready,
                                       !.nb_head = e(u).nb_head]
    BY DEF PlaceAll, Placing, Position, Settled
  <1>2. Positions(t) = Positions(s) /\ Position(t) = Position(s)
    BY SameGameIs DEF Positions, Position, Deck, Rows
  <1>3. e(t) = e(s)
    BY <1>2
  <1> HIDE DEF e
  <1>4. DOMAIN s = AllFields /\ DOMAIN t = AllFields
    BY DEF SameGame
  <1>5. ASSUME NEW u, DOMAIN u = AllFields
        PROVE  /\ DOMAIN PlaceAll(u) = AllFields
               /\ PlaceAll(u).board = e(u).board /\ PlaceAll(u).ready = e(u).ready
               /\ PlaceAll(u).nb_head = e(u).nb_head
    BY <1>1, <1>5 DEF AllFields, GameFields
  <1>6. /\ Frame(s, PlaceAll(s), {"board", "ready", "nb_head"})
        /\ Frame(t, PlaceAll(t), {"board", "ready", "nb_head"})
    BY PlaceAllFrame
  <1>7. OwnFields \subseteq AllFields
    BY DEF OwnFields, AllFields, CardFields, GameFields, MemberFields
  <1>8. ASSUME NEW x \in OwnFields PROVE PlaceAll(t)[x] = PlaceAll(s)[x]
    <2>1. CASE x \in {"board", "ready", "nb_head"}
      BY <1>3, <1>4, <1>5, <2>1
    <2>2. CASE x \notin {"board", "ready", "nb_head"}
      <3>1. PlaceAll(t)[x] = t[x] /\ PlaceAll(s)[x] = s[x]
        BY <1>4, <1>6, <1>7, <2>2 DEF Frame
      <3> QED BY <3>1 DEF SameGame
    <2> QED BY <2>1, <2>2
  <1> QED BY <1>4, <1>5, <1>8 DEF SameGame

\* What depends on those fields alone.
LEMMA SameGameSets ==
  ASSUME NEW s, NEW t, SameGame(s, t)
  PROVE  /\ SameCards(s, t) /\ Playing(t) = Playing(s) /\ Free(t) = Free(s)
         /\ Seated(t) = Seated(s)
         /\ \A i : OutOfCards(t, i) <=> OutOfCards(s, i)
         /\ Due(t) <=> Due(s)
         /\ On(t) <=> On(s)
  BY SameGameIs DEF SameCards, Playing, Free, Seated, Occupied, OutOfCards, Due, On

\* The same change made to both.
LEMMA SameGameWith ==
  ASSUME NEW s, NEW t, SameGame(s, t), NEW v, NEW w
  PROVE  /\ SameGame([s EXCEPT !.game_state = v, !.extra_wait_from = w],
                     [t EXCEPT !.game_state = v, !.extra_wait_from = w])
         /\ SameGame([s EXCEPT !.ready_count = v, !.game_state = w],
                     [t EXCEPT !.ready_count = v, !.game_state = w])
         /\ SameGame([s EXCEPT !.ready = v], [t EXCEPT !.ready = v])
         /\ SameGame([s EXCEPT !.active_players = v, !.ready = w],
                     [t EXCEPT !.active_players = v, !.ready = w])
  <1>1. DOMAIN s = AllFields /\ DOMAIN t = AllFields /\ \A x \in OwnFields : t[x] = s[x]
    BY DEF SameGame
  <1>2. OwnFields \subseteq AllFields
    BY DEF OwnFields, AllFields, CardFields, GameFields, MemberFields
  <1>3. SameGame([s EXCEPT !.game_state = v, !.extra_wait_from = w],
                 [t EXCEPT !.game_state = v, !.extra_wait_from = w])
    BY <1>1, <1>2 DEF SameGame
  <1>4. SameGame([s EXCEPT !.ready_count = v, !.game_state = w],
                 [t EXCEPT !.ready_count = v, !.game_state = w])
    BY <1>1, <1>2 DEF SameGame
  <1>5. SameGame([s EXCEPT !.ready = v], [t EXCEPT !.ready = v])
    BY <1>1, <1>2 DEF SameGame
  <1>6. SameGame([s EXCEPT !.active_players = v, !.ready = w],
                 [t EXCEPT !.active_players = v, !.ready = w])
    BY <1>1, <1>2 DEF SameGame
  <1> QED BY <1>3, <1>4, <1>5, <1>6

\* A round resolved.
LEMMA ResolveAs ==
  ASSUME NEW s, NEW t, SameGame(s, t), NEW sent
  PROVE  SameGame(Resolve(s, sent), Resolve(t, sent))
  <1> DEFINE owner(p) == p.player_id[LowestSlot(p)]
             asked(p) == IF sent /\ owner(p) # NoClient THEN owner(p) ELSE p.extra_wait_from
             next(p) == IF \E i \in Seated(p) : OutOfCards(p, i) THEN "INACTIVE" ELSE "WAITING"
             P == PlaceAll(s)
             Q == PlaceAll(t)
  <1>1. ASSUME NEW u
        PROVE  Resolve(u, sent) =
                 IF Blocked(PlaceAll(u))
                 THEN [PlaceAll(u) EXCEPT !.game_state = "WAITING_EXTRA",
                                          !.extra_wait_from = asked(PlaceAll(u))]
                 ELSE [PlaceAll(u) EXCEPT !.ready_count = 0,
                                          !.game_state = next(PlaceAll(u))]
    BY DEF Resolve, AskForRow
  <1>2. SameGame(P, Q)
    BY PlaceAllAs
  <1> HIDE DEF P, Q
  <1>3. (Blocked(P) <=> Blocked(Q)) /\ LowestSlot(P) = LowestSlot(Q)
    BY <1>2, SameGameSets, SameCardsAs
  <1>4. asked(P) = asked(Q)
    BY <1>2, <1>3, SameGameIs
  <1>5. next(P) = next(Q)
    BY <1>2, SameGameSets
  <1> HIDE DEF asked, next
  <1> DEFINE a == asked(P)
             n == next(P)
             extra == "WAITING_EXTRA"
  <1>6. CASE Blocked(P)
    <2>1. /\ Resolve(s, sent) = [P EXCEPT !.game_state = extra, !.extra_wait_from = a]
          /\ Resolve(t, sent) = [Q EXCEPT !.game_state = extra, !.extra_wait_from = a]
      BY <1>1, <1>3, <1>4, <1>6 DEF P, Q
    <2> HIDE DEF a, extra
    <2>2. SameGame([P EXCEPT !.game_state = extra, !.extra_wait_from = a],
                   [Q EXCEPT !.game_state = extra, !.extra_wait_from = a])
      BY <1>2, SameGameWith
    <2> QED BY <2>1, <2>2
  <1>7. CASE ~Blocked(P)
    <2>1. /\ Resolve(s, sent) = [P EXCEPT !.ready_count = 0, !.game_state = n]
          /\ Resolve(t, sent) = [Q EXCEPT !.ready_count = 0, !.game_state = n]
      BY <1>1, <1>3, <1>5, <1>7 DEF P, Q
    <2> HIDE DEF n
    <2>2. SameGame([P EXCEPT !.ready_count = 0, !.game_state = n],
                   [Q EXCEPT !.ready_count = 0, !.game_state = n])
      BY <1>2, SameGameWith
    <2> QED BY <2>1, <2>2
  <1> QED BY <1>6, <1>7

\* start_move
LEMMA StartMoveAs ==
  ASSUME NEW s, NEW t, SameGame(s, t), NEW sent
  PROVE  SameGame(StartMove(s, sent), StartMove(t, sent))
  <1> DEFINE h(u) == [u EXCEPT !.ready = [i \in Slots |-> IF i \in Free(u) \ Playing(u)
                                             THEN NoCard ELSE u.ready[i]]]
  <1>1. ASSUME NEW u
        PROVE  StartMove(u, sent) = IF Due(u) THEN Resolve(h(u), sent) ELSE u
    BY DEF StartMove
  <1>2. SameGame(h(s), h(t))
    <2> DEFINE ready(u) == [i \in Slots |-> IF i \in Free(u) \ Playing(u)
                                             THEN NoCard ELSE u.ready[i]]
    <2>1. ready(s) = ready(t)
      BY SameGameSets, SameGameIs
    <2>2. h(s) = [s EXCEPT !.ready = ready(s)] /\ h(t) = [t EXCEPT !.ready = ready(s)]
      BY <2>1
    <2> DEFINE v == ready(s)
    <2> HIDE DEF v
    <2>3. SameGame([s EXCEPT !.ready = v], [t EXCEPT !.ready = v])
      BY SameGameWith
    <2> HIDE DEF ready, h
    <2> QED BY <2>2, <2>3 DEF v
  <1> HIDE DEF h
  <1>3. SameGame(Resolve(h(s), sent), Resolve(h(t), sent))
    BY <1>2, ResolveAs
  <1> QED BY <1>1, <1>3, SameGameSets

\* start_move forgets the cards of slots that nobody has, of which there are none.
LEMMA StartMoveIs ==
  ASSUME NEW s, Sound(s), Waiting(s) \subseteq Seated(s), NEW sent
  PROVE  SameGame(IF Due(s) THEN Resolve(s, sent) ELSE s, StartMove(s, sent))
  <1> DEFINE ready == [i \in Slots |-> IF i \in Free(s) \ Playing(s) THEN NoCard
                                                                  ELSE s.ready[i]]
             h == [s EXCEPT !.ready = ready]
  <1>1. s.ready = [i \in Slots |-> s.ready[i]] /\ DOMAIN s = AllFields
    BY DEF Sound, Formed, ReadyCards
  <1>2. \A i \in Slots : i \in Free(s) \ Playing(s) => s.ready[i] = NoCard
    BY DEF Waiting, Seated
  <1>3. ready = s.ready
    BY <1>1, <1>2
  <1>4. StartMove(s, sent) = IF Due(s) THEN Resolve(h, sent) ELSE s
    BY DEF StartMove
  <1> HIDE DEF ready
  <1>5. SameGame(s, h)
    <2>1. \A x \in AllFields : h[x] = IF x = "ready" THEN ready ELSE s[x]
      BY <1>1
    <2>2. h.ready = s.ready /\ DOMAIN h = AllFields
      BY <1>1, <1>3, <2>1
    <2>3. OwnFields \subseteq AllFields
      BY DEF OwnFields, AllFields, CardFields, GameFields, MemberFields
    <2> HIDE DEF h
    <2> QED BY <1>1, <1>3, <2>1, <2>2, <2>3 DEF SameGame
  <1> HIDE DEF h
  <1>6. SameGame(Resolve(s, sent), Resolve(h, sent)) /\ SameGame(s, s)
    BY <1>1, <1>5, ResolveAs DEF SameGame
  <1> QED BY <1>4, <1>6

-----------------------------------------------------------------------------
(* What is under way, and what the bots keep *)

BotStates ==
  [pc : {"none", "forked", "running", "crashed", "gone"}, level : 0..2,
   rules : {NoRules, DefaultRules}, placed_cards : SUBSET Cards,
   index_row_to_take : -1..3, chosen : Cards \cup {NoCard}]

\* The types of what Table adds to Session.
Typed ==
  /\ toSession \in Seq(ToSessionMessages)
  /\ Boxed(inbox) /\ Hands
  /\ bot \in [Bots -> BotStates]
  /\ commands \in 0..MaxCommands /\ online \in BOOLEAN

\* The session that a message finds.
LEMMA SessionFound ==
  ASSUME Played
  PROVE  /\ Whole(session) /\ Sound(session) /\ DOMAIN session = AllFields
         /\ session.rules = DefaultRules /\ Members(session) /\ Equipped(session)
         /\ TRUE \in SentOutcomes
  <1>1. Whole(session) /\ session.rules = DefaultRules
    BY DEF Played, GameInv
  <1>2. DOMAIN session = AllFields
    BY <1>1 DEF Whole, Equipped
  <1> QED BY <1>1, <1>2, OneRuleBook DEF Whole

\* A message that the session takes is of the queue.
LEMMA TakenIs ==
  ASSUME Typed, NEW type, NEW c, Take(type, c)
  PROVE  /\ Head(toSession) \in ToSessionMessages /\ toSession' \in Seq(ToSessionMessages)
         /\ Head(toSession).type = type /\ Head(toSession).user = c
  <1>1. toSession \in Seq(ToSessionMessages) /\ toSession # << >>
        /\ toSession' = Tail(toSession)
    BY DEF Typed, Take
  <1>2. Head(toSession) \in ToSessionMessages /\ Tail(toSession) \in Seq(ToSessionMessages)
    <2> HIDE DEF ToSessionMessages
    <2> QED BY <1>1
  <1> QED BY <1>1, <1>2 DEF Take

\* session_send_state
LEMMA StateIs ==
  ASSUME NEW s, s.rules = DefaultRules
  PROVE  State(s) \in Packets /\ State(s).type = "STATE" /\ State(s).rules = DefaultRules
  BY DEF State, Packets, OtherPackets

\* Sequences of one message and of two.
LEMMA PairIs ==
  ASSUME NEW M, NEW p \in M, NEW r \in M
  PROVE  /\ <<p>> \in Seq(M) /\ <<p, r>> \in Seq(M)
         /\ <<p>> \o << >> = <<p>> /\ <<p>> \o <<r>> = <<p, r>>
  <1>1. <<p>> \in Seq(M) /\ <<p, r>> \in Seq(M)
    OBVIOUS
  <1>2. <<p>> \o << >> = <<p>>
    OBVIOUS
  <1>3. <<p>> \o <<r>> = <<p, r>>
    <2> DEFINE x == <<p>> \o <<r>>
               y == <<p, r>>
    <2>1. <<p>> \in Seq(M) /\ <<r>> \in Seq(M) /\ Len(<<p>>) = 1 /\ Len(<<r>>) = 1
      BY <1>1
    <2>2. x \in Seq(M) /\ Len(x) = 2
      BY <2>1
    <2>3. x[1] = p /\ x[2] = r
      BY <2>1
    <2>4. y \in Seq(M) /\ Len(y) = 2 /\ y[1] = p /\ y[2] = r
      BY <1>1
    <2> HIDE DEF x, y
    <2>5. \A k \in 1..2 : x[k] = y[k]
      BY <2>3, <2>4
    <2>6. x = y
      BY <2>2, <2>4, <2>5, SeqEqual
    <2> QED BY <2>6 DEF x, y
  <1> QED BY <1>1, <1>2, <1>3

\* One message or two put at the end of a queue.
LEMMA QueueWith ==
  ASSUME NEW M, NEW q \in Seq(M), NEW p \in M, NEW r \in M
  PROVE  q \o <<p>> = Append(q, p) /\ q \o <<p, r>> = Append(Append(q, p), r)
  <1>1. q \o <<p>> = Append(q, p)
    OBVIOUS
  <1>2. <<p>> \in Seq(M) /\ <<r>> \in Seq(M) /\ <<p>> \o <<r>> = <<p, r>>
    BY PairIs
  <1>3. (q \o <<p>>) \o <<r>> = q \o (<<p>> \o <<r>>)
    BY <1>2, ConcatAssociative
  <1> DEFINE x == Append(q, p)
  <1>4. x \in Seq(M)
    OBVIOUS
  <1> HIDE DEF x
  <1>5. x \o <<r>> = Append(x, r)
    BY <1>4
  <1> QED BY <1>1, <1>2, <1>3, <1>5 DEF x

\* A packet sent to a client.
LEMMA SendOne ==
  ASSUME NEW in, Boxed(in), NEW c, NEW p \in Packets
  PROVE  /\ Boxed(SendTo(in, c, <<p>>))
         /\ \A b \in Bots : SendTo(in, c, <<p>>)[b] =
                              IF b = c /\ bot[b].pc = "running" THEN Append(in[b], p)
                              ELSE in[b]
  <1> DEFINE one == <<p>>
  <1>1. ASSUME NEW b \in Bots PROVE in[b] \in Seq(Packets)
    BY DEF Boxed
  <1>2. one \in Seq(Packets) /\ \A b \in Bots : in[b] \o one = Append(in[b], p)
    <2> HIDE DEF Packets
    <2> QED BY <1>1, PairIs, QueueWith
  <1> HIDE DEF one
  <1>3. /\ Boxed(SendTo(in, c, one))
        /\ \A b \in Bots : SendTo(in, c, one)[b] =
                              IF b = c /\ bot[b].pc = "running" THEN Append(in[b], p)
                              ELSE in[b]
    BY <1>2, SendToIs
  <1> QED BY <1>3 DEF one

\* PKT_SESSION_JOIN: who is admitted is shown the rules, and the game if one is on;
\* another is told of an error.
LEMMA JoinTells ==
  ASSUME Played, Typed, Played', NEW c \in Clients, HandleJoin(c)
  PROVE  /\ Boxed(inbox')
         /\ \A b \in Bots : inbox'[b] =
              IF b = c /\ bot[b].pc = "running"
              THEN IF Admissible(session, c)
                   THEN IF session'.role[Index(session', c)] = "OBSERVER" /\ On(session')
                        THEN Append(Append(inbox[b], State(session')), Info(session', c))
                        ELSE Append(inbox[b], State(session'))
                   ELSE Append(inbox[b], Packet("ERROR"))
              ELSE inbox[b]
  <1>1. Boxed(inbox) /\ Hands
    BY DEF Typed
  <1>2. CASE Admissible(session, c)
    <2> DEFINE s == AfterJoin(session, c)
               watching == s.role[Index(s, c)] = "OBSERVER" /\ s.game_state # "INACTIVE"
    <2>1. session' = s /\ inbox' = SendTo(inbox, c, <<State(s)>>
                                     \o IF watching THEN <<Info(s, c)>> ELSE << >>)
      BY <1>2 DEF HandleJoin, Becomes
    <2>2. s.rules = DefaultRules /\ Sound(s)
      BY <2>1 DEF Played, GameInv, Whole
    <2>3. Member(s, c)
      BY <1>2, SessionFound, AfterJoinWho
    <2> HIDE DEF s
    <2>4. State(s) \in Packets
      BY <2>2, StateIs
    <2>5. CASE watching
      <3>1. On(s)
        BY <2>5 DEF On
      <3>2. Info(s, c) \in Packets
        BY <1>1, <2>2, <2>3, <3>1, InfoIs DEF Packets
      <3> DEFINE p == State(s)
                 r == Info(s, c)
      <3> HIDE DEF p, r
      <3>4. inbox' = SendTo(inbox, c, <<p>> \o <<r>>)
        BY <2>1, <2>5 DEF p, r
      <3>5. p \in Packets /\ r \in Packets
        BY <2>4, <3>2 DEF p, r
      <3>6. /\ Boxed(inbox')
            /\ \A b \in Bots : inbox'[b] =
                              IF b = c /\ bot[b].pc = "running"
                              THEN Append(Append(inbox[b], p), r) ELSE inbox[b]
        <4> DEFINE two == <<p>> \o <<r>>
        <4>1. ASSUME NEW b \in Bots PROVE inbox[b] \in Seq(Packets)
          BY <1>1 DEF Boxed
        <4>2. /\ two \in Seq(Packets)
              /\ \A b \in Bots : inbox[b] \o two = Append(Append(inbox[b], p), r)
          <5> HIDE DEF Packets
          <5> QED BY <3>5, <4>1, PairIs, QueueWith
        <4> HIDE DEF two
        <4>3. inbox' = SendTo(inbox, c, two)
          BY <3>4 DEF two
        <4>4. /\ Boxed(SendTo(inbox, c, two))
              /\ \A b \in Bots : SendTo(inbox, c, two)[b] =
                    IF b = c /\ bot[b].pc = "running" THEN inbox[b] \o two ELSE inbox[b]
          BY <1>1, <4>2, SendToIs
        <4> QED BY <4>2, <4>3, <4>4
      <3> QED BY <1>2, <2>1, <2>5, <3>1, <3>6 DEF p, r
    <2>6. CASE ~watching
      <3> DEFINE p == State(s)
      <3> HIDE DEF p
      <3>3. <<p>> \o << >> = <<p>>
        BY <2>4, PairIs DEF p
      <3>4. inbox' = SendTo(inbox, c, <<p>>)
        BY <2>1, <2>6, <3>3 DEF p
      <3>5. /\ Boxed(SendTo(inbox, c, <<p>>))
            /\ \A b \in Bots : SendTo(inbox, c, <<p>>)[b] =
                              IF b = c /\ bot[b].pc = "running"
                              THEN Append(inbox[b], p) ELSE inbox[b]
        BY <1>1, <2>4, SendOne DEF p
      <3>6. ~(session'.role[Index(session', c)] = "OBSERVER" /\ On(session'))
        BY <2>1, <2>6 DEF On
      <3> QED BY <1>2, <2>1, <3>4, <3>5, <3>6 DEF p
    <2> QED BY <2>5, <2>6
  <1>3. CASE ~Admissible(session, c)
    <2>1. inbox' = SendTo(inbox, c, <<Packet("ERROR")>>)
      BY <1>3 DEF HandleJoin, Becomes
    <2>2. Packet("ERROR") \in Packets
      BY PacketIs
    <2> DEFINE p == Packet("ERROR")
    <2> HIDE DEF p
    <2> QED BY <1>1, <1>3, <2>1, <2>2, SendOne DEF p
  <1> QED BY <1>2, <1>3

\* PKT_SESSION_INFO_RETURN: the bots are told of the round, if the card was the last
\* that it waited for, or if the packet was refused while a row is waited for.
LEMMA InfoReturnTells ==
  ASSUME Played, Typed, Played', NEW c \in Clients, HandleInfoReturn(c)
  PROVE  LET i == Index(session, c)
             card == CardAt(session, i, Head(toSession).arg)
             s == GivenCard(session, i, card)
         IN  /\ Boxed(inbox')
             /\ \/ Faults
                \/ /\ session.game_state = "WAITING" /\ Member(session, c)
                   /\ session.ready[i] = NoCard /\ session.hand[i] # NoHand
                   /\ card # NoCard
                   /\ session' = StartMove(s, TRUE)
                   /\ Spread(inbox, inbox', Due(s), session')
                \/ /\ ~(/\ session.game_state = "WAITING" /\ Member(session, c)
                        /\ session.ready[i] = NoCard /\ card # NoCard)
                   /\ session' = StartMove(session, TRUE)
                   /\ Spread(inbox, inbox', Due(session), session')
  <1> DEFINE i == Index(session, c)
             card == CardAt(session, i, Head(toSession).arg)
             s == GivenCard(session, i, card)
             mine == session.ready[i] = NoCard
             wild == /\ session.game_state = "WAITING"
                     /\ Member(session, c) => mine /\ session.hand[i] = NoHand
             accepted == /\ session.game_state = "WAITING" /\ Member(session, c)
                         /\ mine /\ session.hand[i] # NoHand
                         /\ card # NoCard
  <1>1. Boxed(inbox) /\ Hands
    BY DEF Typed
  <1>2. \/ wild /\ Faults
        \/ accepted /\ Becomes(StartMove(s, TRUE), AfterMove(inbox, s))
        \/ ~wild /\ ~accepted /\ Becomes(StartMove(session, TRUE), AfterMove(inbox, session))
    BY DEF HandleInfoReturn, GivenCard
  <1>3. ASSUME NEW x, Becomes(StartMove(x, TRUE), AfterMove(inbox, x))
        PROVE  /\ session' = StartMove(x, TRUE)
               /\ Boxed(inbox') /\ Spread(inbox, inbox', Due(x), session')
    <2> DEFINE t == StartMove(x, TRUE)
               out == AfterMove(inbox, x)
    <2>1. session' = t /\ inbox' = out
      BY <1>3 DEF Becomes
    <2> HIDE DEF t
    <2>2. Sound(t) /\ t.rules = DefaultRules
      BY <2>1 DEF Played, GameInv, Whole
    <2>3. Boxed(out) /\ Spread(inbox, out, Due(x), t)
      BY <1>1, <2>2, AfterMoveIs DEF t
    <2> HIDE DEF out
    <2> QED BY <2>1, <2>3 DEF t
  <1>4. CASE wild /\ Faults
    BY <1>1, <1>4 DEF Faults
  <1>5. CASE accepted /\ Becomes(StartMove(s, TRUE), AfterMove(inbox, s))
    <2> HIDE DEF s
    <2>1. /\ session' = StartMove(s, TRUE)
          /\ Boxed(inbox') /\ Spread(inbox, inbox', Due(s), session')
      BY <1>3, <1>5
    <2> QED BY <1>5, <2>1 DEF s
  <1>6. CASE ~wild /\ ~accepted
             /\ Becomes(StartMove(session, TRUE), AfterMove(inbox, session))
    <2>1. /\ session' = StartMove(session, TRUE)
          /\ Boxed(inbox') /\ Spread(inbox, inbox', Due(session), session')
      BY <1>3, <1>6
    <2> HIDE DEF card, i
    <2>2. ~(/\ session.game_state = "WAITING" /\ Member(session, c)
            /\ mine /\ card # NoCard)
      BY <1>6
    <2> QED BY <2>1, <2>2 DEF card, i
  <1> HIDE DEF wild, accepted
  <1> QED BY <1>2, <1>4, <1>5, <1>6

\* PKT_RESPONSE_EXTRA: all are told of a row that is taken, and of an error who was
\* not asked.
LEMMA ResponseExtraTells ==
  ASSUME Played, Typed, Played', NEW c \in Clients, HandleResponseExtra(c)
  PROVE  LET row == Head(toSession).arg
         IN  /\ Boxed(inbox')
             /\ \/ session' = session /\ inbox' = inbox
                \/ /\ session' = session
                   /\ session.game_state = "WAITING_EXTRA" /\ c # session.extra_wait_from
                   /\ \A b \in Bots : inbox'[b] =
                        IF b = c /\ bot[b].pc = "running"
                        THEN Append(inbox[b], Packet("ERROR")) ELSE inbox[b]
                \/ /\ session.game_state = "WAITING_EXTRA" /\ c = session.extra_wait_from
                   /\ row \in Rows(session) /\ Member(session, c)
                   /\ session' = Resolve(TakeLine(session, row, Index(session, c)), TRUE)
                   /\ Spread(inbox, inbox', TRUE, session')
  <1> DEFINE row == Head(toSession).arg
             x == TakeLine(session, row, Index(session, c))
             s == Resolve(x, TRUE)
  <1>1. Boxed(inbox) /\ Hands
    BY DEF Typed
  <1>2. \/ Becomes(session, inbox) \/ Faults
        \/ /\ session.game_state = "WAITING_EXTRA" /\ c # session.extra_wait_from
           /\ Becomes(session, SendTo(inbox, c, <<Packet("ERROR")>>))
        \/ /\ session.game_state = "WAITING_EXTRA" /\ c = session.extra_wait_from
           /\ row \in Rows(session) /\ Member(session, c) /\ Becomes(s, Announce(inbox, s))
    BY DEF HandleResponseExtra
  <1>3. CASE Becomes(session, inbox) \/ Faults
    BY <1>1, <1>3 DEF Becomes, Faults
  <1>4. CASE /\ session.game_state = "WAITING_EXTRA" /\ c # session.extra_wait_from
             /\ Becomes(session, SendTo(inbox, c, <<Packet("ERROR")>>))
    <2> DEFINE p == Packet("ERROR")
    <2>1. p \in Packets
      BY PacketIs
    <2>2. session' = session /\ inbox' = SendTo(inbox, c, <<p>>)
      BY <1>4 DEF Becomes
    <2> HIDE DEF p
    <2>3. /\ Boxed(SendTo(inbox, c, <<p>>))
          /\ \A b \in Bots : SendTo(inbox, c, <<p>>)[b] =
                              IF b = c /\ bot[b].pc = "running" THEN Append(inbox[b], p)
                              ELSE inbox[b]
      BY <1>1, <2>1, SendOne
    <2> QED BY <1>4, <2>2, <2>3 DEF p
  <1>5. CASE /\ session.game_state = "WAITING_EXTRA" /\ c = session.extra_wait_from
             /\ row \in Rows(session) /\ Member(session, c) /\ Becomes(s, Announce(inbox, s))
    <2> DEFINE out == Announce(inbox, s)
    <2>1. session' = s /\ inbox' = out
      BY <1>5 DEF Becomes
    <2> HIDE DEF s
    <2>2. Sound(s) /\ s.rules = DefaultRules
      BY <2>1 DEF Played, GameInv, Whole
    <2>3. /\ Boxed(out)
          /\ \A b \in Bots : out[b] = IF bot[b].pc = "running" /\ Told(s, b)
                              THEN Append(inbox[b], Telling(s, b)) ELSE inbox[b]
      BY <1>1, <2>2, AnnounceIs
    <2> HIDE DEF out
    <2>4. Spread(inbox, out, TRUE, s)
      BY <2>3 DEF Spread
    <2> QED BY <1>5, <2>1, <2>3, <2>4 DEF s
  <1> QED BY <1>2, <1>3, <1>4, <1>5

\* PKT_SESSION_LEAVE: the others are told of the round that is due without the one
\* who leaves, and he that the session has ended for him.
LEMMA LeaveTells ==
  ASSUME Played, Typed, NEW c \in Clients, HandleLeave(c)
  PROVE  LET i == Index(session, c)
             mid == AfterWithdraw(inbox, session, c)
         IN  /\ Boxed(inbox') /\ Boxed(mid)
             /\ \A b \in Bots : inbox'[b] =
                  IF b = c /\ bot[b].pc = "running"
                  THEN Append(mid[b], Packet("SESSION_END")) ELSE mid[b]
             /\ Member(session, c) =>
                  Spread(inbox, mid, DueWithout(session, i), Withdraw(session, i, TRUE))
             /\ ~Member(session, c) => mid = inbox
  <1> DEFINE i == Index(session, c)
             mid == AfterWithdraw(inbox, session, c)
             p == Packet("SESSION_END")
  <1>1. Boxed(inbox) /\ Hands /\ Whole(session) /\ DOMAIN session = AllFields
        /\ session.rules = DefaultRules
    BY SessionFound DEF Typed
  <1>2. ASSUME ~Member(session, c) PROVE mid = inbox
    BY <1>2 DEF AfterWithdraw
  <1>3. ASSUME Member(session, c)
        PROVE  Boxed(mid) /\ Spread(inbox, mid, DueWithout(session, i), Withdraw(session, i, TRUE))
    <2>1. i \in Slots
      BY <1>3, MemberSlot
    <2>2. session.role[i] = "PLAYER" => MayPart(session, i, Playing(session) \ {i})
      BY <1>1, <2>1, PlayerMayPart
    <2>3. session.role[i] = "PLAYER" => \E P : MayPart(session, i, P)
      BY <2>2
    <2> QED BY <1>1, <1>3, <2>3, AfterWithdrawIs
  <1>4. p \in Packets
    BY PacketIs
  <1>5. inbox' = SendTo(mid, c, <<p>>)
    BY DEF HandleLeave, Becomes
  <1> HIDE DEF mid, i, p
  <1>6. Boxed(mid)
    BY <1>1, <1>2, <1>3
  <1>7. /\ Boxed(SendTo(mid, c, <<p>>))
        /\ \A b \in Bots : SendTo(mid, c, <<p>>)[b] =
                            IF b = c /\ bot[b].pc = "running" THEN Append(mid[b], p)
                            ELSE mid[b]
    BY <1>4, <1>6, SendOne
  <1> QED BY <1>2, <1>3, <1>5, <1>6, <1>7 DEF mid, i, p

\* USER_LEFT: change_player_role frees the hand of the player before the round that
\* is due without him.
LEMMA UserLeftTells ==
  ASSUME Played, Typed, NEW c \in Clients, HandleUserLeft(c)
  PROVE  LET i == Index(session, c)
             h == [session EXCEPT !.hand[i] = NoHand]
         IN  /\ Boxed(inbox')
             /\ Member(session, c) =>
                  /\ session' = AfterUserLeft(session, c, TRUE)
                  /\ Spread(inbox, inbox', DueWithout(h, i), Withdraw(h, i, TRUE))
             /\ ~Member(session, c) => inbox' = inbox /\ session' = session
  <1> DEFINE i == Index(session, c)
             h == [session EXCEPT !.hand[i] = NoHand]
             out == AfterWithdraw(inbox, h, c)
  <1>1. Boxed(inbox) /\ Hands /\ Whole(session) /\ DOMAIN session = AllFields
        /\ session.rules = DefaultRules
    BY SessionFound DEF Typed
  <1>2. CASE ~Member(session, c)
    BY <1>1, <1>2 DEF HandleUserLeft, Becomes
  <1>3. CASE Member(session, c)
    <2>1. i \in Slots
      BY <1>3, MemberSlot
    <2>2. inbox' = out /\ session' = AfterUserLeft(session, c, TRUE)
      BY <1>3 DEF HandleUserLeft, Becomes
    <2>3. /\ DOMAIN h = AllFields /\ SameCards(session, h) /\ h.heads = session.heads
          /\ h.nb_head = session.nb_head /\ h.ready_count = session.ready_count
          /\ h.game_state = session.game_state /\ h.rules = DefaultRules
          /\ h.extra_wait_from = session.extra_wait_from
          /\ h.active_players = session.active_players
          /\ h.hand = [session.hand EXCEPT ![i] = NoHand]
          /\ h.player_id = session.player_id /\ h.role = session.role
      BY <1>1 DEF AllFields, MemberFields, GameFields, SameCards
    <2>4. Member(h, c) /\ Index(h, c) = i
      BY <1>3, <2>3 DEF Member, Index
    <2> HIDE DEF h, i
    <2>5. h.role[i] = "PLAYER" => \E P : MayPart(h, i, P)
      <3> SUFFICES ASSUME h.role[i] = "PLAYER" PROVE MayPart(h, i, Playing(session) \ {i})
        OBVIOUS
      <3> QED BY <1>1, <2>1, <2>3, HandFreedMayPart
    <2>6. Boxed(out) /\ Spread(inbox, out, DueWithout(h, i), Withdraw(h, i, TRUE))
      BY <1>1, <2>3, <2>4, <2>5, AfterWithdrawIs
    <2> HIDE DEF out
    <2> QED BY <1>3, <2>2, <2>6 DEF h, i
  <1> QED BY <1>2, <1>3

\* PKT_SESSION_CLOSE: the session ends for all its members.
LEMMA CloseTells ==
  ASSUME Played, Typed, HandleClose
  PROVE  /\ Boxed(inbox')
         /\ IF Human = session.id_creator
            THEN /\ session' = AfterClose(session, TRUE)
                 /\ \A b \in Bots : inbox'[b] =
                      IF bot[b].pc = "running" /\ Member(session, b)
                      THEN Append(inbox[b], Packet("SESSION_END")) ELSE inbox[b]
            ELSE session' = session /\ inbox' = inbox
  <1> DEFINE members == {d \in Bots : Member(session, d)}
             packet == [b \in members |-> Packet("SESSION_END")]
             out == SendToAll(inbox, packet)
  <1>1. Boxed(inbox)
    BY DEF Typed
  <1>2. CASE Human = session.id_creator
    <2>1. session' = AfterClose(session, TRUE) /\ inbox' = out
      BY <1>2 DEF HandleClose, Becomes
    <2>2. /\ DOMAIN packet = members /\ members \subseteq Bots
          /\ \A b \in members : packet[b] = Packet("SESSION_END") /\ packet[b] \in Packets
      BY PacketIs
    <2> HIDE DEF packet
    <2>3. /\ Boxed(out)
          /\ \A b \in Bots : out[b] = IF b \in members /\ bot[b].pc = "running"
                                      THEN Append(inbox[b], packet[b]) ELSE inbox[b]
      <3> HIDE DEF members
      <3> QED BY <1>1, <2>2, SendToAllIs
    <2> HIDE DEF out
    <2> QED BY <1>2, <2>1, <2>2, <2>3
  <1>3. CASE Human # session.id_creator
    BY <1>1, <1>3 DEF HandleClose, Becomes
  <1> QED BY <1>2, <1>3

\* The hands that are dealt fit a byte, as their indices do.
LEMMA DealtHands ==
  ASSUME Played, HandleStart, Played', Hands
  PROVE  Hands'
  <1>1. CASE Human = session.id_creator
    <2>1. PICK shuffle \in Shuffles :
            dealt' = [i \in Slots |-> IF i \in Served(session)
                         THEN HandDealt(session,
                                        Shuffled(shuffle.cards, session.rules.nbrCards), i)
                         ELSE << >>]
      BY <1>1 DEF HandleStart
    <2> DEFINE ids == Shuffled(shuffle.cards, session.rules.nbrCards)
    <2>2. session.rules \in Rules
      BY SessionFound DEF Equipped
    <2>3. ASSUME NEW i \in Slots PROVE Len(dealt'[i]) <= 255
      <3>1. CASE i \in Served(session)
        <4> DEFINE a == First(session, i)
                   n == session.rules.nbrCardsPlayer
        <4>1. a \in Nat /\ n \in Nat
          BY <2>2, <3>1, DealtIs
        <4>2. n <= 255
          BY <2>2, GameAssumption
        <4>3. dealt'[i] = SubSeq(ids, a + 1, a + n)
          BY <2>1, <3>1 DEF HandDealt, First
        <4>4. HandDealt(session, ids, i) \in Seq(Deck(session))
          BY <2>2, <3>1, HandDealtIs
        <4>5. HandDealt(session, ids, i) = SubSeq(ids, a + 1, a + n)
          BY DEF HandDealt, First
        <4> HIDE DEF ids, a, n
        <4>6. Len(SubSeq(ids, a + 1, a + n)) = IF a + 1 <= a + n THEN (a + n) - (a + 1) + 1 ELSE 0
          BY <4>1, <4>4, <4>5
        <4> QED BY <4>1, <4>2, <4>3, <4>6
      <3>2. CASE i \notin Served(session)
        BY <2>1, <3>2
      <3> QED BY <3>1, <3>2
    <2> QED BY <2>3 DEF Hands, Played
  <1>2. CASE Human # session.id_creator
    BY <1>2 DEF HandleStart, Becomes, Hands
  <1> QED BY <1>1, <1>2

\* PKT_START_SESSION: every member is shown the board and the hand dealt to him.
LEMMA StartTells ==
  ASSUME Played, Typed, Played', HandleStart
  PROVE  /\ Boxed(inbox')
         /\ IF Human = session.id_creator
            THEN \A b \in Bots : inbox'[b] =
                   IF bot[b].pc = "running" /\ Member(session', b)
                   THEN Append(inbox[b], [Info(session', b) EXCEPT
                                            !.hand = dealt'[Index(session', b)]])
                   ELSE inbox[b]
            ELSE session' = session /\ inbox' = inbox
  <1>1. Boxed(inbox) /\ Hands
    BY DEF Typed
  <1>2. CASE Human = session.id_creator
    <2>1. PICK shuffle \in Shuffles :
            LET s == Deal(session, shuffle)
            IN  /\ session' = s
                /\ inbox' = SendToAll(inbox, [b \in {d \in Bots : Member(s, d)} |->
                               [Info(s, b) EXCEPT !.hand = dealt'[Index(s, b)]]])
      BY <1>2 DEF HandleStart
    <2> DEFINE s == Deal(session, shuffle)
               members == {d \in Bots : Member(s, d)}
               shown(b) == [Info(s, b) EXCEPT !.hand = dealt'[Index(s, b)]]
               packet == [b \in members |-> shown(b)]
               out == SendToAll(inbox, packet)
    <2>2. session' = s /\ inbox' = out
      BY <2>1
    <2>3. On(s)
      BY SessionFound DEF Deal, On, AllFields, GameFields
    <2> HIDE DEF s
    <2>4. Sound(s) /\ s.rules = DefaultRules
      BY <2>2 DEF Played, GameInv, Whole
    <2>5. ASSUME NEW b \in members PROVE shown(b) \in Packets
      <3>1. Info(s, b) \in InfoPackets
        BY <1>1, <2>3, <2>4, InfoIs
      <3>2. dealt'[Index(s, b)] \in Seq(Cards)
        <4>1. Index(s, b) \in Slots
          BY MemberSlot
        <4> QED BY <4>1 DEF Played
      <3> DEFINE hand == dealt'[Index(s, b)]
                 info == Info(s, b)
      <3> HIDE DEF hand, info
      <3>3. [info EXCEPT !.hand = hand] \in InfoPackets
        BY <3>1, <3>2 DEF hand, info, InfoPackets
      <3> QED BY <3>3 DEF hand, info, Packets
    <2> HIDE DEF shown
    <2>6. /\ DOMAIN packet = members /\ members \subseteq Bots
          /\ \A b \in members : packet[b] = shown(b) /\ packet[b] \in Packets
      BY <2>5
    <2> HIDE DEF packet
    <2>7. /\ Boxed(out)
          /\ \A b \in Bots : out[b] = IF b \in members /\ bot[b].pc = "running"
                                      THEN Append(inbox[b], packet[b]) ELSE inbox[b]
      <3> HIDE DEF members
      <3> QED BY <1>1, <2>6, SendToAllIs
    <2> HIDE DEF out
    <2>8. ASSUME NEW b \in Bots
          PROVE  inbox'[b] = IF bot[b].pc = "running" /\ Member(session', b)
                             THEN Append(inbox[b], [Info(session', b) EXCEPT
                                                      !.hand = dealt'[Index(session', b)]])
                             ELSE inbox[b]
      <3>1. inbox'[b] = IF bot[b].pc = "running" /\ Member(s, b)
                        THEN Append(inbox[b], shown(b)) ELSE inbox[b]
        BY <2>2, <2>6, <2>7
      <3> QED BY <2>2, <3>1 DEF shown
    <2> QED BY <1>2, <2>2, <2>7, <2>8
  <1>3. CASE Human # session.id_creator
    BY <1>1, <1>3 DEF HandleStart, Becomes
  <1> QED BY <1>2, <1>3

-----------------------------------------------------------------------------
(* The types of the table *)

\* A step that leaves the bots' programs and the user alone.
LEMMA TypedWith ==
  ASSUME Typed, UNCHANGED clientVars, toSession' \in Seq(ToSessionMessages), Boxed(inbox'),
         Hands'
  PROVE  Typed'
  <1>1. bot' = bot /\ commands' = commands /\ online' = online
    BY DEF clientVars, userVars
  <1>2. bot' \in [Bots -> BotStates] /\ commands' \in 0..MaxCommands /\ online' \in BOOLEAN
    BY <1>1 DEF Typed
  <1>3. (Boxed(inbox))'
    BY <1>1 DEF Boxed
  <1> QED BY <1>2, <1>3 DEF Typed

\* A message to the session from a bot or from the user.
LEMMA MsgIs ==
  ASSUME NEW c \in Clients
  PROVE  /\ \A type \in {"JOIN", "START", "CLOSE", "LEAVE", "USER_LEFT"} :
              Msg(type, c, 0) \in ToSessionMessages
         /\ \A arg \in 0..255 : Msg("INFO_RETURN", c, arg) \in ToSessionMessages
         /\ \A arg \in -1..3 : Msg("RESPONSE_EXTRA", c, arg) \in ToSessionMessages
  <1>1. \A type \in {"JOIN", "START", "CLOSE", "LEAVE", "USER_LEFT"} :
              Msg(type, c, 0) \in ToSessionMessages
    BY DEF Msg, ToSessionMessages
  <1>2. \A arg \in 0..255 : Msg("INFO_RETURN", c, arg) \in ToSessionMessages
    BY DEF Msg, ToSessionMessages
  <1>3. \A arg \in -1..3 : Msg("RESPONSE_EXTRA", c, arg) \in ToSessionMessages
    BY DEF Msg, ToSessionMessages
  <1> QED BY <1>1, <1>2, <1>3

\* The queue with a message more.
LEMMA QueueMore ==
  ASSUME Typed, NEW m \in ToSessionMessages, toSession' = Append(toSession, m)
  PROVE  toSession' \in Seq(ToSessionMessages)
  <1>1. toSession \in Seq(ToSessionMessages)
    BY DEF Typed
  <1> HIDE DEF ToSessionMessages
  <1> QED BY <1>1

\* A bot whose program has not started, runs or has ended.
LEMMA NewBotIs ==
  /\ NewBot \in BotStates
  /\ \A level \in 0..2 : /\ [NewBot EXCEPT !.pc = "forked", !.level = level] \in BotStates
                         /\ [NewBot EXCEPT !.pc = "forked", !.level = level].pc = "forked"
  /\ \A pc \in {"crashed", "gone"} : [NewBot EXCEPT !.pc = pc] \in BotStates
                                     /\ [NewBot EXCEPT !.pc = pc].pc = pc
  <1>1. NewBot \in BotStates
    BY DEF NewBot, BotStates
  <1>2. NewBot \in BotStates =>
        \A level \in 0..2 : /\ [NewBot EXCEPT !.pc = "forked", !.level = level] \in BotStates
                            /\ [NewBot EXCEPT !.pc = "forked", !.level = level].pc = "forked"
    <2> HIDE DEF NewBot
    <2> QED BY DEF BotStates
  <1>3. NewBot \in BotStates =>
        \A pc \in {"crashed", "gone"} : [NewBot EXCEPT !.pc = pc] \in BotStates
                                        /\ [NewBot EXCEPT !.pc = pc].pc = pc
    <2> HIDE DEF NewBot
    <2> QED BY DEF BotStates
  <1> QED BY <1>1, <1>2, <1>3

\* PKT_ADD_BOT: only bots that were never forked are.
LEMMA AddBotTyped ==
  ASSUME Typed, HandleAddBot
  PROVE  Typed'
  <1> DEFINE wanted == Head(toSession)
             unused == {b \in Bots : bot[b].pc = "none"}
             new == CHOOSE new \in SUBSET unused : Cardinality(new) = wanted.arg
             forked == [NewBot EXCEPT !.pc = "forked", !.level = wanted.level]
  <1>1. /\ wanted \in ToSessionMessages /\ wanted.type = "ADD_BOT"
        /\ toSession' \in Seq(ToSessionMessages)
    <2>1. Take("ADD_BOT", Human)
      BY DEF HandleAddBot
    <2> QED BY <2>1, TakenIs
  <1>2. wanted.level \in 0..2
    BY <1>1 DEF ToSessionMessages
  <1>3. \/ bot' = [b \in Bots |-> IF b \in new \cap unused THEN forked ELSE bot[b]]
        \/ bot' = bot
    BY DEF HandleAddBot
  <1>4. inbox' = inbox /\ dealt' = dealt /\ commands' = commands /\ online' = online
    BY DEF HandleAddBot, userVars
  <1>5. forked \in BotStates /\ forked.pc = "forked"
    BY <1>2, NewBotIs
  <1> HIDE DEF wanted, new, forked
  <1>6. bot \in [Bots -> BotStates] /\ Boxed(inbox) /\ Hands
        /\ commands \in 0..MaxCommands /\ online \in BOOLEAN
    BY DEF Typed
  <1>7. bot' \in [Bots -> BotStates]
    <2> HIDE DEF BotStates
    <2> QED BY <1>3, <1>5, <1>6
  <1>8. ASSUME NEW b \in Bots, bot'[b].pc # "running" PROVE inbox'[b] = << >>
    <2>1. bot'[b] = bot[b] \/ bot[b].pc = "none"
      BY <1>3
    <2> QED BY <1>4, <1>6, <1>8, <2>1 DEF Boxed
  <1>9. (Boxed(inbox))'
    BY <1>4, <1>6, <1>8 DEF Boxed
  <1> QED BY <1>1, <1>4, <1>6, <1>7, <1>9 DEF Typed, Hands

\* The session's thread.
LEMMA SessionTyped ==
  ASSUME Played, Typed, Played', SessionThread
  PROVE  Typed'
  <1>1. ASSUME toSession' \in Seq(ToSessionMessages), Boxed(inbox'), dealt' = dealt,
               UNCHANGED clientVars
        PROVE  Typed'
    <2>1. Hands'
      BY <1>1 DEF Typed, Hands
    <2> QED BY <1>1, <2>1, TypedWith
  <1>2. ASSUME NEW type, NEW c, Take(type, c) PROVE toSession' \in Seq(ToSessionMessages)
    BY <1>2, TakenIs
  <1>3. ASSUME NEW s, NEW in, Becomes(s, in) PROVE dealt' = dealt /\ UNCHANGED clientVars
    BY <1>3 DEF Becomes
  <1>4. ASSUME NEW c \in Clients, HandleJoin(c) PROVE Typed'
    <2>1. Boxed(inbox')
      BY <1>4, JoinTells
    <2>2. Take("JOIN", c) /\ \E s, in : Becomes(s, in)
      BY <1>4 DEF HandleJoin
    <2> QED BY <1>1, <1>2, <1>3, <2>1, <2>2
  <1>5. ASSUME NEW c \in Clients, HandleInfoReturn(c) PROVE Typed'
    <2>1. Boxed(inbox')
      BY <1>5, InfoReturnTells
    <2>2. Take("INFO_RETURN", c) /\ (Faults \/ \E s, in : Becomes(s, in))
      BY <1>5 DEF HandleInfoReturn
    <2>3. dealt' = dealt /\ UNCHANGED clientVars
      BY <1>3, <2>2 DEF Faults
    <2> QED BY <1>1, <1>2, <2>1, <2>2, <2>3
  <1>6. ASSUME NEW c \in Clients, HandleResponseExtra(c) PROVE Typed'
    <2>1. Take("RESPONSE_EXTRA", c) /\ (Faults \/ \E s, in : Becomes(s, in))
      BY <1>6 DEF HandleResponseExtra
    <2>2. dealt' = dealt /\ UNCHANGED clientVars
      BY <1>3, <2>1 DEF Faults
    <2>3. Boxed(inbox')
      BY <1>6, ResponseExtraTells
    <2> QED BY <1>1, <1>2, <2>1, <2>2, <2>3
  <1>7. ASSUME NEW c \in Clients, HandleLeave(c) PROVE Typed'
    <2>1. Boxed(inbox')
      BY <1>7, LeaveTells
    <2>2. Take("LEAVE", c) /\ \E s, in : Becomes(s, in)
      BY <1>7 DEF HandleLeave
    <2> QED BY <1>1, <1>2, <1>3, <2>1, <2>2
  <1>8. ASSUME NEW c \in Clients, HandleUserLeft(c) PROVE Typed'
    <2>1. Boxed(inbox')
      BY <1>8, UserLeftTells
    <2>2. Take("USER_LEFT", c) /\ \E s, in : Becomes(s, in)
      BY <1>8 DEF HandleUserLeft
    <2> QED BY <1>1, <1>2, <1>3, <2>1, <2>2
  <1>9. CASE HandleClose
    <2>1. Boxed(inbox')
      BY <1>9, CloseTells
    <2>2. Take("CLOSE", Human) /\ \E s, in : Becomes(s, in)
      BY <1>9 DEF HandleClose
    <2> QED BY <1>1, <1>2, <1>3, <2>1, <2>2
  <1>10. CASE HandleStart
    <2>1. Boxed(inbox')
      BY <1>10, StartTells
    <2>2. Hands'
      BY <1>10, DealtHands DEF Typed
    <2>3. Take("START", Human) /\ UNCHANGED clientVars
      BY <1>10 DEF HandleStart, Becomes
    <2> QED BY <1>2, <2>1, <2>2, <2>3, TypedWith
  <1>11. CASE SessionEmpties
    <2>1. toSession' = toSession /\ inbox' = inbox /\ dealt' = dealt /\ UNCHANGED clientVars
      BY <1>11 DEF SessionEmpties
    <2>2. toSession' \in Seq(ToSessionMessages) /\ Boxed(inbox')
      BY <2>1 DEF Typed
    <2> QED BY <1>1, <2>1, <2>2
  <1> QED BY <1>4, <1>5, <1>6, <1>7, <1>8, <1>9, <1>10, <1>11, AddBotTyped DEF SessionThread

\* A message from the user's program.
LEMMA UserTyped ==
  ASSUME Typed, User
  PROVE  Typed'
  <1>1. inbox' = inbox /\ bot' = bot /\ dealt' = dealt
    BY DEF User, AddBot, Start, Play, Extr, CloseSession, Quit, JoinAgain, Disconnect,
           Reconnect, TypesInside, Types
  <1>2. commands' \in 0..MaxCommands
    <2>1. commands' = commands \/ (commands < MaxCommands /\ commands' = commands + 1)
      BY DEF User, AddBot, Start, Play, Extr, CloseSession, Quit, JoinAgain, Disconnect,
             Reconnect, UnderTheBound
    <2>2. commands \in 0..MaxCommands /\ MaxCommands \in Nat
      BY TableAssumption DEF Typed
    <2> QED BY <2>1, <2>2
  <1>3. online' \in BOOLEAN
    <2>1. online' = online \/ online' = TRUE \/ online' = FALSE
      BY DEF User, AddBot, Start, Play, Extr, CloseSession, Quit, JoinAgain, Disconnect,
             Reconnect, TypesInside, Types
    <2> QED BY <2>1 DEF Typed
  <1>4. toSession' \in Seq(ToSessionMessages)
    <2>1. Human \in Clients
      BY OneRuleBook
    <2>2. \/ toSession' = toSession
          \/ \E m \in ToSessionMessages : toSession' = Append(toSession, m)
      <3>1. CASE AddBot
        <4>1. PICK r \in Requests :
                toSession' = Append(toSession, [type |-> "ADD_BOT", user |-> Human,
                                                arg |-> r[1], level |-> r[2]])
          BY <3>1 DEF AddBot, TypesInside, Types
        <4>2. r[1] \in 1..Cardinality(Bots) /\ r[2] \in 0..2
          BY TableAssumption
        <4>3. [type |-> "ADD_BOT", user |-> Human, arg |-> r[1], level |-> r[2]]
                \in ToSessionMessages
          BY <4>2 DEF ToSessionMessages
        <4> QED BY <4>1, <4>3
      <3>2. CASE Play
        <4>1. PICK index \in 0..(DefaultRules.nbrCardsPlayer - 1) :
                toSession' = Append(toSession, Msg("INFO_RETURN", Human, index))
          BY <3>2 DEF Play, TypesInside, Types
        <4>2. DefaultRules.nbrCardsPlayer \in 0..255
          BY TheRules, GameAssumption
        <4>3. index \in 0..255
          BY <4>2
        <4> QED BY <2>1, <4>1, <4>3, MsgIs
      <3>3. CASE Extr
        <4>1. PICK row \in TypedRows :
                toSession' = Append(toSession, Msg("RESPONSE_EXTRA", Human, row))
          BY <3>3 DEF Extr, TypesInside, Types
        <4>2. row \in Rows([rules |-> DefaultRules])
          BY TableAssumption
        <4>3. row \in TheRows
          BY <4>2 DEF Rows, TheRows
        <4>4. row \in -1..3
          BY <4>3, TheRules
        <4> QED BY <2>1, <4>1, <4>4, MsgIs
      <3>4. CASE Start \/ CloseSession \/ Quit \/ JoinAgain \/ Disconnect \/ Reconnect
        <4>1. \/ toSession' = toSession
              \/ \E type \in {"JOIN", "START", "CLOSE", "LEAVE", "USER_LEFT"} :
                   toSession' = Append(toSession, Msg(type, Human, 0))
          BY <3>4 DEF Start, CloseSession, Quit, JoinAgain, Disconnect, Reconnect,
                      TypesInside, Types, Sends
        <4> QED BY <2>1, <4>1, MsgIs
      <3> QED BY <3>1, <3>2, <3>3, <3>4 DEF User
    <2> QED BY <2>2, QueueMore DEF Typed
  <1>5. (Boxed(inbox))' /\ Hands'
    BY <1>1 DEF Typed, Boxed, Hands
  <1> QED BY <1>1, <1>2, <1>3, <1>4, <1>5 DEF Typed

\* A step of one bot's program.
LEMMA BotBecomes ==
  ASSUME Typed, NEW b \in Bots, NEW w \in BotStates, NEW q \in Seq(Packets),
         w.pc # "running" => q = << >>,
         bot' = [bot EXCEPT ![b] = w], inbox' = [inbox EXCEPT ![b] = q],
         toSession' \in Seq(ToSessionMessages), UNCHANGED <<dealt, userVars>>
  PROVE  Typed'
  <1>1. bot' \in [Bots -> BotStates]
    <2> HIDE DEF BotStates
    <2> QED BY DEF Typed
  <1>2. inbox' \in [Bots -> Seq(Packets)]
    <2> HIDE DEF Packets
    <2> QED BY DEF Typed, Boxed
  <1>3. ASSUME NEW d \in Bots, bot'[d].pc # "running" PROVE inbox'[d] = << >>
    <2>1. bot \in [Bots -> BotStates] /\ Boxed(inbox)
      BY DEF Typed
    <2> HIDE DEF Packets, BotStates
    <2> QED BY <1>3, <2>1 DEF Boxed
  <1>4. (Boxed(inbox))'
    BY <1>2, <1>3 DEF Boxed
  <1>5. Hands' /\ commands' \in 0..MaxCommands /\ online' \in BOOLEAN
    BY DEF Typed, Hands, userVars
  <1> QED BY <1>1, <1>4, <1>5 DEF Typed

\* The first packet that waits for a bot.
LEMMA GotIs ==
  ASSUME Typed, NEW b \in Bots, inbox[b] # << >>
  PROVE  /\ Head(inbox[b]) \in Packets /\ Tail(inbox[b]) \in Seq(Packets)
         /\ inbox[b] \in Seq(Packets)
         /\ bot[b].pc = "running" /\ bot[b] \in BotStates
  <1>1. inbox[b] \in Seq(Packets) /\ bot[b].pc = "running" /\ bot[b] \in BotStates
    BY DEF Typed, Boxed
  <1>2. Head(inbox[b]) \in Packets /\ Tail(inbox[b]) \in Seq(Packets)
    <2> HIDE DEF Packets
    <2> QED BY <1>1
  <1> QED BY <1>1, <1>2

\* A bot's state with some fields set.
LEMMA BotStateWith ==
  ASSUME NEW w \in BotStates
  PROVE  /\ [w EXCEPT !.pc = "running"] \in BotStates /\ [w EXCEPT !.pc = "running"].pc = "running"
         /\ [w EXCEPT !.rules = DefaultRules, !.placed_cards = {}] \in BotStates
         /\ [w EXCEPT !.rules = DefaultRules, !.placed_cards = {}].pc = w.pc
         /\ \A placed \in SUBSET Cards, row \in -1..3, card \in Cards \cup {NoCard} :
              LET x == [w EXCEPT !.placed_cards = placed, !.index_row_to_take = row,
                                 !.chosen = card]
              IN  /\ x \in BotStates /\ x.pc = w.pc /\ x.rules = w.rules /\ x.level = w.level
                  /\ x.placed_cards = placed /\ x.index_row_to_take = row /\ x.chosen = card
  <1>1. /\ [w EXCEPT !.pc = "running"] \in BotStates
        /\ [w EXCEPT !.pc = "running"].pc = "running"
    BY DEF BotStates
  <1>2. /\ [w EXCEPT !.rules = DefaultRules, !.placed_cards = {}] \in BotStates
        /\ [w EXCEPT !.rules = DefaultRules, !.placed_cards = {}].pc = w.pc
    BY DEF BotStates
  <1>3. ASSUME NEW placed \in SUBSET Cards, NEW row \in -1..3, NEW card \in Cards \cup {NoCard}
        PROVE  LET x == [w EXCEPT !.placed_cards = placed, !.index_row_to_take = row,
                                  !.chosen = card]
               IN  /\ x \in BotStates /\ x.pc = w.pc /\ x.rules = w.rules /\ x.level = w.level
                   /\ x.placed_cards = placed /\ x.index_row_to_take = row /\ x.chosen = card
    BY DEF BotStates
  <1> QED BY <1>1, <1>2, <1>3

\* What a SESSION_INFO shows is seen as it is.
LEMMA ViewIs ==
  ASSUME NEW info \in InfoPackets, NEW b
  PROVE  LET v == ViewOf(b, info)
         IN  /\ Seen(v) /\ v.hand = info.hand /\ v.board = info.board /\ v.heads = info.heads
             /\ v.nb_card_line = bot[b].rules.nbrCardsLign
  BY DEF ViewOf, Seen, InfoPackets

\* Every card of the board is one of the game.
LEMMA PlacedAre ==
  ASSUME NEW v, Seen(v)
  PROVE  UNION {ToSet(v.board[r]) : r \in DOMAIN v.board} \subseteq Cards
  <1>1. ASSUME NEW r \in DOMAIN v.board PROVE ToSet(v.board[r]) \subseteq Cards
    <2>1. v.board[r] \in Seq(TheDeck) /\ TheDeck \subseteq Cards
      BY TheRules DEF Seen
    <2> QED BY <2>1 DEF ToSet
  <1> QED BY <1>1

\* bot_handle_session_info: what the bot keeps, and what it answers.
LEMMA GetsInfoIs ==
  ASSUME Typed, NEW b \in Bots, BotGetsInfo(b)
  PROVE  LET info == Head(inbox[b])
             v == ViewOf(b, info)
         IN  /\ info \in InfoPackets /\ Seen(v)
             /\ \/ bot[b].rules = NoRules /\ UNCHANGED <<bot, toSession>>
                \/ /\ bot[b].rules = DefaultRules
                   /\ \E placed \in SUBSET Cards, row \in RowsToTake(v),
                         index \in (0..(Len(v.hand) - 1)) \cup {-1, 0},
                         card \in Cards \cup {NoCard} :
                      /\ card = IF index + 1 \in DOMAIN v.hand THEN v.hand[index + 1]
                                ELSE NoCard
                      /\ bot' = [bot EXCEPT ![b].placed_cards = placed,
                                            ![b].index_row_to_take = row,
                                            ![b].chosen = card]
                      /\ toSession' = Append(toSession, Msg("INFO_RETURN", b, index % 256))
  <1> DEFINE info == Head(inbox[b])
             v == ViewOf(b, info)
             placed == bot[b].placed_cards \cup UNION {ToSet(v.board[r]) : r \in DOMAIN v.board}
  <1>1. BotGets(b, "INFO")
    BY DEF BotGetsInfo
  <1>2. info \in InfoPackets
    <2>1. info \in Packets /\ info.type = "INFO"
      BY <1>1, GotIs DEF BotGets, Gets
    <2> QED BY <2>1 DEF Packets, OtherPackets
  <1>3. Seen(v) /\ bot[b].rules \in {NoRules, DefaultRules} /\ bot[b].placed_cards \in SUBSET Cards
    <2>1. bot[b] \in BotStates
      BY <1>1, GotIs DEF BotGets, Gets
    <2>2. bot[b].rules \in {NoRules, DefaultRules} /\ bot[b].placed_cards \in SUBSET Cards
      BY <2>1 DEF BotStates
    <2>3. Seen(v)
      BY <1>2, ViewIs
    <2> QED BY <2>2, <2>3
  <1>4. placed \in SUBSET Cards
    <2>1. UNION {ToSet(v.board[r]) : r \in DOMAIN v.board} \subseteq Cards
      BY <1>3, PlacedAre
    <2> QED BY <1>3, <2>1
  <1>5. IF bot[b].rules = NoRules THEN UNCHANGED <<bot, toSession>>
        ELSE \E row \in RowsToTake(v), index \in CardChoices(bot[b].level, v, placed) :
               /\ bot' = [bot EXCEPT ![b].placed_cards = placed,
                                     ![b].index_row_to_take = row,
                                     ![b].chosen = IF index + 1 \in DOMAIN v.hand
                                                   THEN v.hand[index + 1] ELSE NoCard]
               /\ toSession' = Append(toSession, Msg("INFO_RETURN", b, index % 256))
    BY DEF BotGetsInfo, Sends
  <1>6. CardChoices(bot[b].level, v, placed) \subseteq (0..(Len(v.hand) - 1)) \cup {-1, 0}
    BY <1>3, CardChoicesAre
  <1>7. v.hand \in Seq(Cards)
    BY <1>3 DEF Seen
  <1> HIDE DEF placed, v, info
  <1>8. CASE bot[b].rules # NoRules
    <2>1. PICK row \in RowsToTake(v), index \in CardChoices(bot[b].level, v, placed) :
               /\ bot' = [bot EXCEPT ![b].placed_cards = placed,
                                     ![b].index_row_to_take = row,
                                     ![b].chosen = IF index + 1 \in DOMAIN v.hand
                                                   THEN v.hand[index + 1] ELSE NoCard]
               /\ toSession' = Append(toSession, Msg("INFO_RETURN", b, index % 256))
      BY <1>5, <1>8
    <2> DEFINE card == IF index + 1 \in DOMAIN v.hand THEN v.hand[index + 1] ELSE NoCard
    <2>2. card \in Cards \cup {NoCard}
      BY <1>7
    <2>3. index \in (0..(Len(v.hand) - 1)) \cup {-1, 0}
      BY <1>6
    <2>4. bot' = [bot EXCEPT ![b].placed_cards = placed, ![b].index_row_to_take = row,
                             ![b].chosen = card]
      BY <2>1
    <2>5. bot[b].rules = DefaultRules
      BY <1>3, <1>8
    <2>6. card = IF index + 1 \in DOMAIN v.hand THEN v.hand[index + 1] ELSE NoCard
      OBVIOUS
    <2>7. toSession' = Append(toSession, Msg("INFO_RETURN", b, index % 256))
      BY <2>1
    <2> HIDE DEF card
    <2>8. row \in RowsToTake(v)
      OBVIOUS
    <2>9. \E p \in SUBSET Cards, r \in RowsToTake(v),
            j \in (0..(Len(v.hand) - 1)) \cup {-1, 0}, a \in Cards \cup {NoCard} :
            /\ a = IF j + 1 \in DOMAIN v.hand THEN v.hand[j + 1] ELSE NoCard
            /\ bot' = [bot EXCEPT ![b].placed_cards = p, ![b].index_row_to_take = r,
                                  ![b].chosen = a]
            /\ toSession' = Append(toSession, Msg("INFO_RETURN", b, j % 256))
      BY <1>4, <2>2, <2>3, <2>4, <2>6, <2>7, <2>8, Zenon
    <2> QED BY <1>2, <1>3, <2>5, <2>9, Zenon DEF v, info
  <1>9. CASE bot[b].rules = NoRules
    BY <1>2, <1>3, <1>5, <1>9 DEF v, info
  <1> QED BY <1>8, <1>9

\* A bot's program.
LEMMA BotTyped ==
  ASSUME Typed, NEW b \in Bots, BotProgram(b)
  PROVE  Typed'
  <1>1. UNCHANGED <<dealt, userVars>> /\ b \in Clients
    BY OneRuleBook DEF BotProgram, BotJoins, BotGetsState, BotCrashes, BotGetsInfo, BotGetsRequest,
           BotRetires, BotGets, Gets
  <1>2. /\ bot \in [Bots -> BotStates] /\ inbox \in [Bots -> Seq(Packets)]
        /\ toSession \in Seq(ToSessionMessages) /\ bot[b] \in BotStates
        /\ Boxed(inbox)
    BY DEF Typed, Boxed
  <1>3. CASE BotJoins(b)
    <2> DEFINE w == [bot[b] EXCEPT !.pc = "running"]
               q == inbox[b]
    <2>1. bot' = [bot EXCEPT ![b] = w] /\ inbox' = [inbox EXCEPT ![b] = q]
      <3>1. bot' = [bot EXCEPT ![b].pc = "running"] /\ inbox' = inbox
        BY <1>3 DEF BotJoins
      <3> HIDE DEF BotStates, Packets
      <3> QED BY <1>2, <3>1
    <2>2. w \in BotStates /\ w.pc = "running" /\ q \in Seq(Packets)
      BY <1>2, BotStateWith
    <2>3. toSession' \in Seq(ToSessionMessages)
      BY <1>1, <1>3, MsgIs, QueueMore DEF BotJoins, Sends
    <2> HIDE DEF w, q
    <2> QED BY <1>1, <2>1, <2>2, <2>3, BotBecomes
  <1>4. CASE BotGetsState(b)
    <2> DEFINE w == [bot[b] EXCEPT !.rules = DefaultRules, !.placed_cards = {}]
               q == Tail(inbox[b])
    <2>1. /\ inbox[b] # << >> /\ Head(inbox[b]).type = "STATE"
          /\ inbox' = [inbox EXCEPT ![b] = q] /\ toSession' = toSession
          /\ bot' = [bot EXCEPT ![b].rules = Head(inbox[b]).rules, ![b].placed_cards = {}]
      BY <1>4 DEF BotGetsState, BotGets, Gets
    <2>2. Head(inbox[b]).rules = DefaultRules
      <3>1. Head(inbox[b]) \in Packets
        BY <2>1, GotIs
      <3> QED BY <2>1, <3>1 DEF Packets, InfoPackets, OtherPackets
    <2>3. bot' = [bot EXCEPT ![b] = w]
      <3> HIDE DEF BotStates, Packets
      <3> QED BY <1>2, <2>1, <2>2
    <2>4. w \in BotStates /\ w.pc = "running" /\ q \in Seq(Packets)
      BY <1>2, <2>1, BotStateWith, GotIs
    <2> HIDE DEF w, q
    <2> QED BY <1>1, <1>2, <2>1, <2>3, <2>4, BotBecomes
  <1>5. CASE BotCrashes(b) \/ BotRetires(b)
    <2> DEFINE pc == IF BotCrashes(b) THEN "crashed" ELSE "gone"
               type == IF BotCrashes(b) THEN "USER_LEFT" ELSE "LEAVE"
               w == [NewBot EXCEPT !.pc = pc]
               q == << >>
    <2>1. /\ bot' = [bot EXCEPT ![b] = w] /\ inbox' = [inbox EXCEPT ![b] = q]
          /\ toSession' = Append(toSession, Msg(type, b, 0))
      BY <1>5 DEF BotCrashes, BotRetires, Sends
    <2>2. w \in BotStates /\ w.pc # "running" /\ q \in Seq(Packets)
      BY NewBotIs
    <2>3. toSession' \in Seq(ToSessionMessages)
      BY <1>1, <2>1, MsgIs, QueueMore
    <2>4. w.pc # "running" => q = << >>
      OBVIOUS
    <2> HIDE DEF w, q
    <2> QED BY <1>1, <2>1, <2>2, <2>3, <2>4, BotBecomes
  <1>6. CASE BotGetsInfo(b)
    <2> DEFINE info == Head(inbox[b])
               v == ViewOf(b, info)
               q == Tail(inbox[b])
    <2>1. inbox[b] # << >> /\ inbox' = [inbox EXCEPT ![b] = q]
      BY <1>6 DEF BotGetsInfo, BotGets, Gets
    <2>2. q \in Seq(Packets) /\ bot[b].pc = "running"
      BY <2>1, GotIs
    <2>3. Seen(v)
      BY <1>6, GetsInfoIs
    <2>4. CASE UNCHANGED <<bot, toSession>>
      <3> DEFINE w == bot[b]
      <3>1. bot' = [bot EXCEPT ![b] = w]
        <4> HIDE DEF BotStates, Packets
        <4> QED BY <1>2, <2>4
      <3>2. toSession' \in Seq(ToSessionMessages) /\ w \in BotStates /\ w.pc = "running"
        BY <1>2, <2>2, <2>4
      <3> HIDE DEF q, w
      <3> QED BY <1>1, <2>1, <2>2, <3>1, <3>2, BotBecomes
    <2>5. ASSUME NEW placed \in SUBSET Cards, NEW row \in RowsToTake(v),
                 NEW index \in (0..(Len(v.hand) - 1)) \cup {-1, 0},
                 NEW card \in Cards \cup {NoCard},
                 bot' = [bot EXCEPT ![b].placed_cards = placed,
                                    ![b].index_row_to_take = row, ![b].chosen = card],
                 toSession' = Append(toSession, Msg("INFO_RETURN", b, index % 256))
          PROVE  Typed'
      <3> DEFINE w == [bot[b] EXCEPT !.placed_cards = placed, !.index_row_to_take = row,
                                     !.chosen = card]
      <3>1. bot' = [bot EXCEPT ![b] = w]
        <4> HIDE DEF BotStates, Packets
        <4> QED BY <1>2, <2>5
      <3>2. row \in -1..3
        BY <2>3, RowsToTakeAre
      <3>3. w \in BotStates /\ w.pc = "running"
        <4> DEFINE old == bot[b]
                   new == [old EXCEPT !.placed_cards = placed, !.index_row_to_take = row,
                                      !.chosen = card]
        <4>1. old \in BotStates /\ old.pc = "running"
          BY <1>2, <2>2
        <4> HIDE DEF old
        <4>2. new \in BotStates /\ new.pc = old.pc
          BY <3>2, <4>1 DEF BotStates
        <4> QED BY <4>1, <4>2 DEF old
      <3>4. index % 256 \in 0..255
        <4>1. v.hand \in Seq(Cards)
          BY <2>3 DEF Seen
        <4>2. index \in Int
          <5> HIDE DEF v
          <5> QED BY <4>1
        <4> QED BY <4>2
      <3>5. toSession' \in Seq(ToSessionMessages)
        BY <1>1, <2>5, <3>4, MsgIs, QueueMore
      <3> HIDE DEF w, q
      <3> QED BY <1>1, <2>1, <2>2, <3>1, <3>3, <3>5, BotBecomes
    <2>6. \/ UNCHANGED <<bot, toSession>>
          \/ \E placed \in SUBSET Cards, row \in RowsToTake(v),
                index \in (0..(Len(v.hand) - 1)) \cup {-1, 0},
                card \in Cards \cup {NoCard} :
             /\ bot' = [bot EXCEPT ![b].placed_cards = placed,
                                   ![b].index_row_to_take = row, ![b].chosen = card]
             /\ toSession' = Append(toSession, Msg("INFO_RETURN", b, index % 256))
      <3>1. \/ bot[b].rules = NoRules /\ UNCHANGED <<bot, toSession>>
            \/ /\ bot[b].rules = DefaultRules
               /\ \E placed \in SUBSET Cards, row \in RowsToTake(v),
                     index \in (0..(Len(v.hand) - 1)) \cup {-1, 0},
                     card \in Cards \cup {NoCard} :
                  /\ card = IF index + 1 \in DOMAIN v.hand THEN v.hand[index + 1]
                            ELSE NoCard
                  /\ bot' = [bot EXCEPT ![b].placed_cards = placed,
                                        ![b].index_row_to_take = row,
                                        ![b].chosen = card]
                  /\ toSession' = Append(toSession, Msg("INFO_RETURN", b, index % 256))
        BY <1>6, GetsInfoIs
      <3>2. CASE bot[b].rules = NoRules /\ UNCHANGED <<bot, toSession>>
        BY <3>2
      <3> HIDE DEF v
      <3>3. ASSUME NEW placed \in SUBSET Cards, NEW row \in RowsToTake(v),
                   NEW index \in (0..(Len(v.hand) - 1)) \cup {-1, 0},
                   NEW card \in Cards \cup {NoCard},
                   /\ bot' = [bot EXCEPT ![b].placed_cards = placed,
                                         ![b].index_row_to_take = row,
                                         ![b].chosen = card]
                   /\ toSession' = Append(toSession, Msg("INFO_RETURN", b, index % 256))
            PROVE  \E placed_ \in SUBSET Cards, row_ \in RowsToTake(v),
                     index_ \in (0..(Len(v.hand) - 1)) \cup {-1, 0},
                     card_ \in Cards \cup {NoCard} :
                  /\ bot' = [bot EXCEPT ![b].placed_cards = placed_,
                                        ![b].index_row_to_take = row_, ![b].chosen = card_]
                  /\ toSession' = Append(toSession, Msg("INFO_RETURN", b, index_ % 256))
        BY <3>3, Zenon
      <3> QED BY <3>1, <3>2, <3>3, Zenon
    <2> HIDE DEF v
    <2> QED BY <2>4, <2>5, <2>6
  <1>7. CASE BotGetsRequest(b)
    <2> DEFINE q == Tail(inbox[b])
    <2>1. /\ inbox[b] # << >> /\ inbox' = [inbox EXCEPT ![b] = q] /\ bot' = bot
          /\ toSession' = Append(toSession, Msg("RESPONSE_EXTRA", b, bot[b].index_row_to_take))
      BY <1>7 DEF BotGetsRequest, BotGets, Gets, Sends
    <2>2. q \in Seq(Packets) /\ bot[b].pc = "running"
      BY <2>1, GotIs
    <2>3. bot' = [bot EXCEPT ![b] = bot[b]]
      <3> HIDE DEF BotStates, Packets
      <3> QED BY <1>2, <2>1
    <2>4. bot[b].index_row_to_take \in -1..3
      BY <1>2 DEF BotStates
    <2>5. toSession' \in Seq(ToSessionMessages)
      BY <1>1, <2>1, <2>4, MsgIs, QueueMore
    <2> HIDE DEF q
    <2> QED BY <1>1, <1>2, <2>1, <2>2, <2>3, <2>5, BotBecomes
  <1> QED BY <1>3, <1>4, <1>5, <1>6, <1>7 DEF BotProgram

\* Every step keeps the types.
LEMMA NextTyped == Played /\ Typed /\ [TableNext]_tableVars => Typed'
  <1> SUFFICES ASSUME Played, Typed, [TableNext]_tableVars PROVE Typed'
    OBVIOUS
  <1>1. Played'
    BY NextPlayed
  <1>2. CASE SessionThread
    BY <1>1, <1>2, SessionTyped
  <1>3. CASE User
    BY <1>3, UserTyped
  <1>4. ASSUME NEW b \in Bots, BotProgram(b) PROVE Typed'
    BY <1>4, BotTyped
  <1>5. CASE UNCHANGED tableVars
    BY <1>5 DEF tableVars, clientVars, userVars, Typed, Boxed, Hands
  <1> QED BY <1>2, <1>3, <1>4, <1>5 DEF TableNext

\* The table as it is set up.
LEMMA InitTyped == TableInit => Typed
  <1> SUFFICES ASSUME TableInit PROVE Typed
    OBVIOUS
  <1>1. toSession \in Seq(ToSessionMessages)
    <2> DEFINE m == Msg("JOIN", Human, 0)
    <2>1. m \in ToSessionMessages /\ toSession = <<m>>
      BY MsgIs, OneRuleBook DEF TableInit
    <2> HIDE DEF m, ToSessionMessages
    <2> QED BY <2>1
  <1>2. Boxed(inbox) /\ Hands
    <2>1. inbox = [b \in Bots |-> << >>] /\ dealt = [i \in Slots |-> << >>]
      BY DEF TableInit
    <2>2. Hands
      BY <2>1 DEF Hands
    <2>3. Boxed(inbox)
      <3> HIDE DEF Packets
      <3> QED BY <2>1 DEF Boxed
    <2> QED BY <2>2, <2>3
  <1>3. bot \in [Bots -> BotStates]
    <2>1. bot = [b \in Bots |-> NewBot]
      BY DEF TableInit
    <2> HIDE DEF BotStates
    <2> QED BY <2>1, NewBotIs
  <1>4. commands \in 0..MaxCommands /\ online \in BOOLEAN
    BY TableAssumption DEF TableInit
  <1> QED BY <1>1, <1>2, <1>3, <1>4 DEF Typed

\* What TableTypeOK says follows.
LEMMA TypedTypes == Played /\ Typed => TableTypeOK
  <1> SUFFICES ASSUME Played, Typed PROVE TableTypeOK
    OBVIOUS
  <1>1. TypeOK
    BY InvariantTypes DEF Played
  <1>2. \A k \in DOMAIN toSession : toSession[k] \in ToSessionMessages
    <2>1. toSession \in Seq(ToSessionMessages)
      BY DEF Typed
    <2> HIDE DEF ToSessionMessages
    <2> QED BY <2>1
  <1>3. ASSUME NEW b \in Bots, NEW k \in DOMAIN inbox[b]
        PROVE  inbox[b][k].type \in {"STATE", "INFO", "REQUEST_EXTRA", "PHASE_RESULT",
                                     "SESSION_END", "ERROR"}
    <2>1. inbox[b] \in Seq(Packets)
      BY DEF Typed, Boxed
    <2>2. inbox[b][k] \in Packets
      <3> HIDE DEF Packets
      <3> QED BY <2>1
    <2> QED BY <2>2 DEF Packets, InfoPackets, OtherPackets
  <1>4. ASSUME NEW b \in Bots, bot[b].pc \notin {"forked", "running"} PROVE inbox[b] = << >>
    BY <1>4 DEF Typed, Boxed
  <1> QED BY <1>1, <1>2, <1>3, <1>4 DEF TableTypeOK, Typed, Hands, BotStates

-----------------------------------------------------------------------------
(* What lies in a queue *)

Asks == {p \in Packets : p.type = "REQUEST_EXTRA"}
From(b) == {m \in ToSessionMessages : m.user = b}
Answers(b, type) == {m \in ToSessionMessages : m.type = type /\ m.user = b}

\* Nothing of S lies in q; the last of S, if any, is in G; and each of S comes
\* before one of G.
None(q, S) == \A k \in DOMAIN q : q[k] \notin S
LatestIn(q, S, G) ==
  \A k \in DOMAIN q :
    q[k] \in S /\ (\A j \in DOMAIN q : q[j] \in S => j <= k) => q[k] \in G
AllBefore(q, S, G) ==
  \A k \in DOMAIN q : q[k] \in S => \E p \in DOMAIN q : p > k /\ q[p] \in G

\* One more at the end.
LEMMA MoreIn ==
  ASSUME NEW M, NEW q \in Seq(M), NEW m, NEW S, NEW G
  PROVE  /\ None(Append(q, m), S) <=> None(q, S) /\ m \notin S
         /\ m \in S => (LatestIn(Append(q, m), S, G) <=> m \in G)
         /\ m \notin S => (LatestIn(Append(q, m), S, G) <=> LatestIn(q, S, G))
         /\ m \in G /\ m \notin S => AllBefore(Append(q, m), S, G)
         /\ m \notin S /\ AllBefore(q, S, G) => AllBefore(Append(q, m), S, G)
  <1> DEFINE v == Append(q, m)
  <1>1. /\ DOMAIN v = 1..(Len(q) + 1) /\ DOMAIN q = 1..Len(q) /\ Len(q) \in Nat
        /\ v[Len(q) + 1] = m /\ \A k \in DOMAIN q : v[k] = q[k]
    BY AppendProperties
  <1> HIDE DEF v
  <1>2. None(v, S) <=> None(q, S) /\ m \notin S
    BY <1>1 DEF None
  <1>3. ASSUME m \in S PROVE LatestIn(v, S, G) <=> m \in G
    <2>1. \A j \in DOMAIN v : j <= Len(q) + 1
      BY <1>1
    <2>2. ASSUME LatestIn(v, S, G) PROVE m \in G
      <3>1. Len(q) + 1 \in DOMAIN v BY <1>1
      <3> QED BY <1>1, <1>3, <2>1, <2>2, <3>1 DEF LatestIn
    <2>3. ASSUME m \in G, NEW k \in DOMAIN v, \A j \in DOMAIN v : v[j] \in S => j <= k
          PROVE v[k] \in G
      <3>1. Len(q) + 1 <= k BY <1>1, <1>3, <2>3
      <3>2. k = Len(q) + 1 BY <1>1, <3>1
      <3> QED BY <1>1, <2>3, <3>2
    <2> QED BY <2>2, <2>3 DEF LatestIn
  <1>4. ASSUME m \notin S PROVE LatestIn(v, S, G) <=> LatestIn(q, S, G)
    <2>1. \A k : k \in DOMAIN v /\ v[k] \in S <=> k \in DOMAIN q /\ q[k] \in S
      BY <1>1, <1>4
    <2>2. \A k \in DOMAIN q : v[k] = q[k] BY <1>1
    <2> QED BY <2>1, <2>2 DEF LatestIn
  <1>5. ASSUME m \in G, m \notin S PROVE AllBefore(v, S, G)
    <2> SUFFICES ASSUME NEW k \in DOMAIN v, v[k] \in S
                 PROVE  \E p \in DOMAIN v : p > k /\ v[p] \in G
      BY DEF AllBefore
    <2>1. k < Len(q) + 1 /\ Len(q) + 1 \in DOMAIN v BY <1>1, <1>5
    <2> QED BY <1>1, <1>5, <2>1
  <1>6. ASSUME m \notin S, AllBefore(q, S, G) PROVE AllBefore(v, S, G)
    <2> SUFFICES ASSUME NEW k \in DOMAIN v, v[k] \in S
                 PROVE  \E p \in DOMAIN v : p > k /\ v[p] \in G
      BY DEF AllBefore
    <2>1. k \in DOMAIN q /\ q[k] \in S BY <1>1, <1>6
    <2>2. PICK p \in DOMAIN q : p > k /\ q[p] \in G BY <1>6, <2>1 DEF AllBefore
    <2> QED BY <1>1, <2>2
  <1> QED BY <1>2, <1>3, <1>4, <1>5, <1>6 DEF v

\* The first taken.
LEMMA LessIn ==
  ASSUME NEW M, NEW q \in Seq(M), q # << >>, NEW S, NEW G
  PROVE  /\ None(q, S) <=> None(Tail(q), S) /\ Head(q) \notin S
         /\ LatestIn(q, S, G) => LatestIn(Tail(q), S, G)
         /\ LatestIn(q, S, G) /\ None(Tail(q), S) /\ Head(q) \in S => Head(q) \in G
         /\ AllBefore(q, S, G) => AllBefore(Tail(q), S, G)
  <1> DEFINE v == Tail(q)
  <1>1. /\ DOMAIN q = 1..Len(q) /\ Len(q) \in Nat /\ Len(q) > 0
        /\ DOMAIN v = 1..(Len(q) - 1) /\ Head(q) = q[1]
        /\ \A k \in DOMAIN v : v[k] = q[k + 1]
    BY QueueTail
  <1> HIDE DEF v
  <1>2. \A k \in DOMAIN v : k + 1 \in DOMAIN q /\ k \in Nat
    BY <1>1
  <1>3. \A k \in DOMAIN q : k = 1 \/ (k - 1 \in DOMAIN v /\ q[k] = v[k - 1])
    <2> SUFFICES ASSUME NEW k \in DOMAIN q, k # 1
                 PROVE  k - 1 \in DOMAIN v /\ q[k] = v[k - 1]
      OBVIOUS
    <2>1. k - 1 \in DOMAIN v BY <1>1
    <2>2. v[k - 1] = q[(k - 1) + 1] BY <1>1, <2>1
    <2>3. (k - 1) + 1 = k BY <1>1
    <2> QED BY <2>1, <2>2, <2>3
  <1>4. None(q, S) <=> None(v, S) /\ Head(q) \notin S
    <2>1. 1 \in DOMAIN q BY <1>1
    <2> QED BY <1>1, <1>2, <1>3, <2>1 DEF None
  <1>5. ASSUME LatestIn(q, S, G) PROVE LatestIn(v, S, G)
    <2> SUFFICES ASSUME NEW k \in DOMAIN v, v[k] \in S,
                        \A j \in DOMAIN v : v[j] \in S => j <= k
                 PROVE  v[k] \in G
      BY DEF LatestIn
    <2>1. k + 1 \in DOMAIN q /\ q[k + 1] \in S /\ q[k + 1] = v[k] BY <1>1, <1>2
    <2>2. ASSUME NEW j \in DOMAIN q, q[j] \in S PROVE j <= k + 1
      <3>1. CASE j = 1 BY <1>2, <3>1
      <3>2. CASE j # 1
        <4>1. j - 1 \in DOMAIN v /\ v[j - 1] \in S BY <1>3, <2>2, <3>2
        <4>2. j - 1 <= k BY <4>1
        <4> QED BY <1>1, <4>2
      <3> QED BY <3>1, <3>2
    <2>3. q[k + 1] \in G BY <1>5, <2>1, <2>2 DEF LatestIn
    <2> QED BY <2>1, <2>3
  <1>6. ASSUME LatestIn(q, S, G), None(v, S), Head(q) \in S PROVE Head(q) \in G
    <2>1. 1 \in DOMAIN q /\ q[1] \in S BY <1>1, <1>6
    <2>2. ASSUME NEW j \in DOMAIN q, q[j] \in S PROVE j <= 1
      BY <1>1, <1>3, <1>6, <2>2 DEF None
    <2>3. q[1] \in G BY <1>6, <2>1, <2>2 DEF LatestIn
    <2> QED BY <1>1, <2>3
  <1>7. ASSUME AllBefore(q, S, G) PROVE AllBefore(v, S, G)
    <2> SUFFICES ASSUME NEW k \in DOMAIN v, v[k] \in S
                 PROVE  \E p \in DOMAIN v : p > k /\ v[p] \in G
      BY DEF AllBefore
    <2>1. k + 1 \in DOMAIN q /\ q[k + 1] \in S BY <1>1, <1>2
    <2>2. PICK p \in DOMAIN q : p > k + 1 /\ q[p] \in G BY <1>7, <2>1 DEF AllBefore
    <2>3. p # 1 BY <1>2, <2>2
    <2>4. p - 1 \in DOMAIN v /\ v[p - 1] \in G BY <1>3, <2>2, <2>3
    <2>5. p - 1 > k BY <1>1, <2>2
    <2> QED BY <2>4, <2>5
  <1> QED BY <1>4, <1>5, <1>6, <1>7 DEF v

\* With nothing that they come before, none is there.
LEMMA NoneBefore ==
  ASSUME NEW q, NEW S, NEW G, AllBefore(q, S, G), None(q, G)
  PROVE  None(q, S)
  BY DEF AllBefore, None

-----------------------------------------------------------------------------
(* What a bot that plays has been told, and has answered *)

\* The hand of slot i of s as session_send_info shows it, from the cards that were
\* dealt to the slot.
Shown(hand, H) == (CHOOSE f : Shows(f, hand, H))[Len(hand)]
HandIn(s, d, b) == Shown(d[Index(s, b)], HandOf(s, Index(s, b)))

PlaysIn(s, b) == Member(s, b) /\ s.role[Index(s, b)] = "PLAYER"
Awaited(s, b) == s.game_state = "WAITING" /\ s.ready[Index(s, b)] = NoCard
Chooses(s, b) == s.game_state = "WAITING_EXTRA" /\ s.extra_wait_from = b

CardIn(hand, index) == IF index + 1 \in DOMAIN hand THEN hand[index + 1] ELSE NoCard
RowOK(s, row) ==
  (\A r \in Rows(s) : Len(s.board[r]) < s.rules.nbrCardsLign)
    => row = FirstCheapest(Rows(s), [r \in Rows(s) |-> RowHeads(s, r)])

HandShown(hand) == {p \in InfoPackets : p.hand = hand}
BoardShown(s) == {p \in InfoPackets : p.board = s.board /\ p.heads = s.heads}
CardMeant(hand, card) == {m \in ToSessionMessages : CardIn(hand, m.arg) = card}
RowMeant(s) == {m \in ToSessionMessages : RowOK(s, m.arg)}

\* While b plays, the last board shown to it is that of the game, and when it has
\* seen it its row is the cheapest.  While its card is waited for, the last hand
\* shown to it is its own, and when it has seen it its last answer stands for the
\* card that it chose; while its row is, it is asked after all else, and when it
\* has been its last answer is that row.
Informed(s, h, q, m, w, b) ==
  PlaysIn(s, b) /\ On(s) =>
    /\ LatestIn(q, InfoPackets, BoardShown(s))
    /\ None(q, InfoPackets) => RowOK(s, w.index_row_to_take)
    /\ Awaited(s, b) =>
         /\ LatestIn(q, InfoPackets, HandShown(h))
         /\ None(q, InfoPackets) =>
              LatestIn(m, Answers(b, "INFO_RETURN"), CardMeant(h, w.chosen))
    /\ Chooses(s, b) =>
         /\ AllBefore(q, InfoPackets, Asks)
         /\ None(q, Asks) => LatestIn(m, Answers(b, "RESPONSE_EXTRA"), RowMeant(s))

\* To b the game goes on as it was; or it is another round, or nothing more than
\* that b is asked for a row.
SameBoard(s, t) == t.board = s.board /\ t.heads = s.heads /\ t.rules = s.rules
Retains(s, h, t, g, b) ==
  PlaysIn(t, b) /\ On(t) =>
    /\ PlaysIn(s, b) /\ On(s) /\ SameBoard(s, t)
    /\ Awaited(t, b) => Awaited(s, b) /\ g = h
    /\ Chooses(t, b) => Chooses(s, b)
Renews(t, g, b, p) ==
  /\ p \in InfoPackets
  /\ PlaysIn(t, b) /\ On(t) =>
       /\ t.game_state = "WAITING"
       /\ p.board = t.board /\ p.heads = t.heads /\ p.hand = g
Blocks(s, t, b) ==
  PlaysIn(t, b) /\ On(t) =>
    PlaysIn(s, b) /\ On(s) /\ SameBoard(s, t) /\ t.game_state = "WAITING_EXTRA"

\* The session goes from s to t, and b, who had q to read and the hand h, is told
\* what there is to know: it has r to read and the hand g.
Follows(s, h, q, t, g, r, b) ==
  \/ r = q /\ Retains(s, h, t, g, b)
  \/ \E p \in Packets \ (InfoPackets \cup Asks) : r = Append(q, p) /\ Retains(s, h, t, g, b)
  \/ \E p \in Packets : r = Append(q, p) /\ Renews(t, g, b, p)
  \/ \E p \in Asks : r = Append(q, p) /\ Blocks(s, t, b)

\* Two games with one board are played for the same row.
LEMMA RowOKAs ==
  ASSUME NEW s, NEW t, SameBoard(s, t), NEW row
  PROVE  RowOK(t, row) <=> RowOK(s, row)
  <1> DEFINE Sum(heads, v) == FoldSeq(LAMBDA c, sum : heads[c] + sum, 0, v)
  <1>1. \A g, r : RowHeads(g, r) = Sum(g.heads, g.board[r])
    BY DEF RowHeads
  <1> HIDE DEF Sum
  <1>2. \A r : RowHeads(t, r) = RowHeads(s, r)
    BY <1>1 DEF SameBoard
  <1>3. Rows(t) = Rows(s)
    BY DEF SameBoard, Rows
  <1> DEFINE cost(u) == [r \in Rows(u) |-> RowHeads(u, r)]
  <1>4. cost(t) = cost(s)
    BY <1>2, <1>3
  <1> HIDE DEF cost
  <1>5. /\ RowOK(t, row) <=> ((\A r \in Rows(t) : Len(t.board[r]) < t.rules.nbrCardsLign)
                               => row = FirstCheapest(Rows(t), cost(t)))
        /\ RowOK(s, row) <=> ((\A r \in Rows(s) : Len(s.board[r]) < s.rules.nbrCardsLign)
                               => row = FirstCheapest(Rows(s), cost(s)))
    BY DEF RowOK, cost
  <1> QED BY <1>3, <1>4, <1>5 DEF SameBoard

\* What the four things to know of a queue of packets become with one packet more.
LEMMA OneMore ==
  ASSUME NEW q \in Seq(Packets), NEW p \in Packets, NEW G
  PROVE  LET r == Append(q, p)
         IN  /\ p \notin InfoPackets =>
                  /\ LatestIn(r, InfoPackets, G) <=> LatestIn(q, InfoPackets, G)
                  /\ None(r, InfoPackets) <=> None(q, InfoPackets)
                  /\ AllBefore(q, InfoPackets, Asks) => AllBefore(r, InfoPackets, Asks)
             /\ p \in InfoPackets =>
                  /\ LatestIn(r, InfoPackets, G) <=> p \in G
                  /\ ~None(r, InfoPackets)
             /\ p \notin Asks => (None(r, Asks) <=> None(q, Asks))
             /\ p \in Asks => AllBefore(r, InfoPackets, Asks) /\ ~None(r, Asks)
  <1>1. p \in Asks => p \notin InfoPackets
    BY DEF Asks, InfoPackets
  <1> HIDE DEF Packets, InfoPackets, Asks
  <1>2. \A S : None(Append(q, p), S) <=> None(q, S) /\ p \notin S
    BY MoreIn
  <1>3. /\ p \in InfoPackets => (LatestIn(Append(q, p), InfoPackets, G) <=> p \in G)
        /\ p \notin InfoPackets => (LatestIn(Append(q, p), InfoPackets, G)
                                     <=> LatestIn(q, InfoPackets, G))
    BY MoreIn
  <1>4. /\ p \in Asks /\ p \notin InfoPackets => AllBefore(Append(q, p), InfoPackets, Asks)
        /\ p \notin InfoPackets /\ AllBefore(q, InfoPackets, Asks)
             => AllBefore(Append(q, p), InfoPackets, Asks)
    BY MoreIn
  <1> QED BY <1>1, <1>2, <1>3, <1>4

\* As long as the hand, the cheapest row and the answers asked for are the same, what
\* b was told is still right.
LEMMA RetainsInformed ==
  ASSUME NEW s, NEW h, NEW t, NEW g, NEW b, Retains(s, h, t, g, b),
         NEW q, NEW m, NEW w, Informed(s, h, q, m, w, b)
  PROVE  Informed(t, g, q, m, w, b)
  <1> SUFFICES ASSUME PlaysIn(t, b), On(t)
               PROVE  Informed(t, g, q, m, w, b)
    BY DEF Informed
  <1>1. /\ PlaysIn(s, b) /\ On(s) /\ SameBoard(s, t)
        /\ Awaited(t, b) => Awaited(s, b) /\ g = h
        /\ Chooses(t, b) => Chooses(s, b)
    BY DEF Retains
  <1>2. \A row : RowOK(t, row) <=> RowOK(s, row)
    BY <1>1, RowOKAs
  <1>3. BoardShown(t) = BoardShown(s)
    BY <1>1 DEF BoardShown, SameBoard
  <1>4. RowMeant(t) = RowMeant(s)
    BY <1>2 DEF RowMeant
  <1>5. /\ LatestIn(q, InfoPackets, BoardShown(s))
        /\ None(q, InfoPackets) => RowOK(s, w.index_row_to_take)
        /\ Awaited(s, b) =>
             /\ LatestIn(q, InfoPackets, HandShown(h))
             /\ None(q, InfoPackets) =>
                  LatestIn(m, Answers(b, "INFO_RETURN"), CardMeant(h, w.chosen))
        /\ Chooses(s, b) =>
             /\ AllBefore(q, InfoPackets, Asks)
             /\ None(q, Asks) => LatestIn(m, Answers(b, "RESPONSE_EXTRA"), RowMeant(s))
    BY <1>1 DEF Informed
  <1>6. Awaited(t, b) =>
          /\ LatestIn(q, InfoPackets, HandShown(g))
          /\ None(q, InfoPackets) =>
               LatestIn(m, Answers(b, "INFO_RETURN"), CardMeant(g, w.chosen))
    BY <1>1, <1>5
  <1>7. Chooses(t, b) =>
          /\ AllBefore(q, InfoPackets, Asks)
          /\ None(q, Asks) => LatestIn(m, Answers(b, "RESPONSE_EXTRA"), RowMeant(t))
    BY <1>1, <1>4, <1>5
  <1>8. /\ LatestIn(q, InfoPackets, BoardShown(t))
        /\ None(q, InfoPackets) => RowOK(t, w.index_row_to_take)
    BY <1>2, <1>3, <1>5
  <1> QED BY <1>6, <1>7, <1>8 DEF Informed

\* Another packet, neither the game nor a question, changes nothing.
LEMMA OtherInformed ==
  ASSUME NEW t, NEW g, NEW q \in Seq(Packets), NEW m, NEW w, NEW b,
         Informed(t, g, q, m, w, b), NEW p \in Packets \ (InfoPackets \cup Asks)
  PROVE  Informed(t, g, Append(q, p), m, w, b)
  <1> DEFINE r == Append(q, p)
  <1>1. /\ \A G : LatestIn(r, InfoPackets, G) <=> LatestIn(q, InfoPackets, G)
        /\ None(r, InfoPackets) <=> None(q, InfoPackets)
        /\ AllBefore(q, InfoPackets, Asks) => AllBefore(r, InfoPackets, Asks)
        /\ None(r, Asks) <=> None(q, Asks)
    BY OneMore
  <1> HIDE DEF r
  <1>2. Informed(t, g, r, m, w, b)
    BY <1>1 DEF Informed
  <1> QED BY <1>2 DEF r

\* The new round.
LEMMA RenewsInformed ==
  ASSUME NEW t, NEW g, NEW q \in Seq(Packets), NEW m, NEW w, NEW b,
         NEW p \in Packets, Renews(t, g, b, p)
  PROVE  Informed(t, g, Append(q, p), m, w, b)
  <1> DEFINE r == Append(q, p)
  <1> SUFFICES ASSUME PlaysIn(t, b), On(t)
               PROVE  Informed(t, g, r, m, w, b)
    BY DEF Informed
  <1>1. /\ p \in InfoPackets /\ t.game_state = "WAITING"
        /\ p \in BoardShown(t) /\ p \in HandShown(g)
    BY DEF Renews, BoardShown, HandShown
  <1>2. /\ \A G : LatestIn(r, InfoPackets, G) <=> p \in G
        /\ ~None(r, InfoPackets)
    BY <1>1, OneMore
  <1>3. ~Chooses(t, b)
    BY <1>1 DEF Chooses
  <1> HIDE DEF r
  <1> QED BY <1>1, <1>2, <1>3 DEF Informed

\* The question for a row.
LEMMA BlocksInformed ==
  ASSUME NEW s, NEW t, NEW b, Blocks(s, t, b),
         NEW h, NEW g, NEW q \in Seq(Packets), NEW m, NEW w,
         Informed(s, h, q, m, w, b), NEW p \in Asks
  PROVE  Informed(t, g, Append(q, p), m, w, b)
  <1> DEFINE r == Append(q, p)
  <1> SUFFICES ASSUME PlaysIn(t, b), On(t)
               PROVE  Informed(t, g, r, m, w, b)
    BY DEF Informed
  <1>1. /\ PlaysIn(s, b) /\ On(s) /\ SameBoard(s, t) /\ t.game_state = "WAITING_EXTRA"
    BY DEF Blocks
  <1>2. p \in Packets /\ p \notin InfoPackets
    BY DEF Asks, InfoPackets
  <1>3. /\ \A G : LatestIn(r, InfoPackets, G) <=> LatestIn(q, InfoPackets, G)
        /\ None(r, InfoPackets) <=> None(q, InfoPackets)
        /\ AllBefore(r, InfoPackets, Asks) /\ ~None(r, Asks)
    BY <1>2, OneMore
  <1>4. \A row : RowOK(t, row) <=> RowOK(s, row)
    BY <1>1, RowOKAs
  <1>5. BoardShown(t) = BoardShown(s)
    BY <1>1 DEF BoardShown, SameBoard
  <1>6. ~Awaited(t, b)
    BY <1>1 DEF Awaited
  <1>7. /\ LatestIn(q, InfoPackets, BoardShown(s))
        /\ None(q, InfoPackets) => RowOK(s, w.index_row_to_take)
    BY <1>1 DEF Informed
  <1> HIDE DEF r
  <1> QED BY <1>3, <1>4, <1>5, <1>6, <1>7 DEF Informed

\* A message that the session takes.
LEMMA TakenInformed ==
  ASSUME NEW s, NEW h, NEW q, NEW M, NEW m \in Seq(M), m # << >>, NEW w, NEW b,
         Informed(s, h, q, m, w, b)
  PROVE  Informed(s, h, q, Tail(m), w, b)
  <1>1. \A S, G : LatestIn(m, S, G) => LatestIn(Tail(m), S, G)
    BY LessIn
  <1> DEFINE n == Tail(m)
  <1> HIDE DEF n
  <1>2. \A S, G : LatestIn(m, S, G) => LatestIn(n, S, G)
    BY <1>1 DEF n
  <1>3. Informed(s, h, q, n, w, b)
    BY <1>2 DEF Informed
  <1> QED BY <1>3 DEF n

\* A message that another sends.
LEMMA SentInformed ==
  ASSUME NEW s, NEW h, NEW q, NEW M, NEW m \in Seq(M), NEW w, NEW b,
         Informed(s, h, q, m, w, b), NEW x, x.user # b
  PROVE  Informed(s, h, q, Append(m, x), w, b)
  <1> DEFINE n == Append(m, x)
  <1>1. \A type : x \notin Answers(b, type)
    BY DEF Answers
  <1>2. \A type, G : LatestIn(n, Answers(b, type), G) <=> LatestIn(m, Answers(b, type), G)
    BY <1>1, MoreIn
  <1> HIDE DEF n
  <1>3. Informed(s, h, q, n, w, b)
    BY <1>2 DEF Informed
  <1> QED BY <1>3 DEF n

\* What b was told, and has answered, is right after the session's step.
LEMMA FollowsInformed ==
  ASSUME NEW s, NEW h, NEW q \in Seq(Packets), NEW t, NEW g, NEW r, NEW b,
         Follows(s, h, q, t, g, r, b), NEW m, NEW w, Informed(s, h, q, m, w, b)
  PROVE  Informed(t, g, r, m, w, b)
  <1>1. CASE r = q /\ Retains(s, h, t, g, b)
    BY <1>1, RetainsInformed
  <1>2. CASE \E p \in Packets \ (InfoPackets \cup Asks) :
               r = Append(q, p) /\ Retains(s, h, t, g, b)
    <2>1. PICK p \in Packets \ (InfoPackets \cup Asks) : r = Append(q, p)
      BY <1>2
    <2>2. Informed(t, g, q, m, w, b)
      BY <1>2, RetainsInformed
    <2>3. Informed(t, g, Append(q, p), m, w, b)
      BY <2>2, OtherInformed
    <2> QED BY <2>1, <2>3
  <1>3. CASE \E p \in Packets : r = Append(q, p) /\ Renews(t, g, b, p)
    <2>1. PICK p \in Packets : r = Append(q, p) /\ Renews(t, g, b, p)
      BY <1>3
    <2>2. Informed(t, g, Append(q, p), m, w, b)
      BY <2>1, RenewsInformed
    <2> QED BY <2>1, <2>2
  <1>4. CASE \E p \in Asks : r = Append(q, p) /\ Blocks(s, t, b)
    <2>1. PICK p \in Asks : r = Append(q, p) /\ Blocks(s, t, b)
      BY <1>4
    <2>2. Informed(t, g, Append(q, p), m, w, b)
      BY <2>1, BlocksInformed
    <2> QED BY <2>1, <2>2
  <1> QED BY <1>1, <1>2, <1>3, <1>4 DEF Follows

-----------------------------------------------------------------------------
(* Steps that a bot follows, put together *)

\* What happens before the bots are told, while nothing changes for b.
LEMMA RetainsFollows ==
  ASSUME NEW s, NEW h, NEW u, NEW k, NEW q, NEW t, NEW g, NEW r, NEW b,
         Retains(s, h, u, k, b), Follows(u, k, q, t, g, r, b)
  PROVE  Follows(s, h, q, t, g, r, b)
  <1>1. Retains(u, k, t, g, b) => Retains(s, h, t, g, b)
    BY DEF Retains, SameBoard
  <1>2. Blocks(u, t, b) => Blocks(s, t, b)
    BY DEF Retains, Blocks, SameBoard
  <1> HIDE DEF Retains, Blocks, Renews, Packets, InfoPackets, Asks
  <1> QED BY <1>1, <1>2 DEF Follows

\* t is u to b, who has the same slot, the same card and the same hand in both.
AlikeFor(u, t, b) ==
  /\ SameBoard(u, t)
  /\ t.game_state = u.game_state /\ t.extra_wait_from = u.extra_wait_from
  /\ PlaysIn(t, b) => /\ PlaysIn(u, b) /\ Index(t, b) = Index(u, b)
                      /\ t.ready[Index(t, b)] = u.ready[Index(u, b)]
                      /\ t.hand[Index(t, b)] = u.hand[Index(u, b)]

\* And what happens afterwards.
LEMMA FollowsAlike ==
  ASSUME NEW s, NEW h, NEW q, NEW u, NEW t, NEW r, NEW b, NEW d,
         Follows(s, h, q, u, HandIn(u, d, b), r, b), AlikeFor(u, t, b)
  PROVE  Follows(s, h, q, t, HandIn(t, d, b), r, b)
  <1> DEFINE k == HandIn(u, d, b)
             g == HandIn(t, d, b)
  <1>1. PlaysIn(t, b) => g = k
    BY DEF AlikeFor, HandIn, HandOf
  <1> HIDE DEF k, g
  <1>2. On(t) <=> On(u)
    BY DEF AlikeFor, On
  <1>3. PlaysIn(t, b) => PlaysIn(u, b) /\ (Awaited(t, b) <=> Awaited(u, b))
                         /\ (Chooses(t, b) <=> Chooses(u, b))
    BY DEF AlikeFor, Awaited, Chooses
  <1>4. Retains(s, h, u, k, b) => Retains(s, h, t, g, b)
    BY <1>1, <1>2, <1>3 DEF Retains, SameBoard, AlikeFor
  <1>5. Blocks(s, u, b) => Blocks(s, t, b)
    BY <1>2, <1>3 DEF Blocks, SameBoard, AlikeFor
  <1>6. \A p : Renews(u, k, b, p) => Renews(t, g, b, p)
    BY <1>1, <1>2, <1>3 DEF Renews, SameBoard, AlikeFor
  <1>7. Follows(s, h, q, u, k, r, b)
    BY DEF k
  <1> HIDE DEF Retains, Blocks, Renews, Packets, InfoPackets, Asks
  <1>8. Follows(s, h, q, t, g, r, b)
    BY <1>4, <1>5, <1>6, <1>7 DEF Follows
  <1> QED BY <1>8 DEF g

-----------------------------------------------------------------------------
(* The hand that is shown *)

\* Cards of the hand, no more than were dealt; and those as they were dealt if none
\* has been given.
LEMMA ShownIs ==
  ASSUME NEW D, NEW hand \in Seq(D), NEW H
  PROVE  /\ Shown(hand, H) \in Seq(H) /\ Len(Shown(hand, H)) <= Len(hand)
         /\ (\A k \in DOMAIN hand : hand[k] \in H) => Shown(hand, H) = hand
  <1> DEFINE f == CHOOSE f : Shows(f, hand, H)
  <1>1. Len(hand) \in Nat /\ DOMAIN hand = 1..Len(hand)
    OBVIOUS
  <1>2. Shows(f, hand, H)
    <2>1. \E g : Shows(g, hand, H)
      BY <1>1, ShowsExist
    <2> QED BY <2>1, Zenon
  <1>3. Shown(hand, H) = f[Len(hand)]
    BY DEF Shown
  <1> HIDE DEF f
  <1>4. \A k \in 0..Len(hand) : f[k] \in Seq(H)
    BY <1>1, <1>2, ShowsExist
  <1>5. ASSUME NEW k \in 0..Len(hand)
        PROVE  f[k] = IF k = 0 THEN << >>
                      ELSE IF hand[k] \in H THEN Append(f[k - 1], hand[k]) ELSE f[k - 1]
    BY <1>2 DEF Shows
  <1>6. \A k \in 0..Len(hand) : Len(f[k]) <= k
    <2> DEFINE T == {k \in 0..Len(hand) : ~(Len(f[k]) <= k)}
    <2>1. ASSUME NEW n \in T, \A j \in T : n <= j PROVE FALSE
      <3>1. n \in 0..Len(hand) /\ ~(Len(f[n]) <= n) BY <2>1
      <3>2. CASE n = 0
        <4>1. f[n] = << >> BY <1>5, <3>1, <3>2
        <4> QED BY <3>1, <3>2, <4>1
      <3>3. CASE n # 0
        <4>1. n - 1 \in 0..Len(hand) BY <1>1, <3>1, <3>3
        <4>2. Len(f[n - 1]) <= n - 1 BY <2>1, <4>1
        <4>3. f[n - 1] \in Seq(H) BY <1>4, <4>1
        <4>4. f[n] = IF hand[n] \in H THEN Append(f[n - 1], hand[n]) ELSE f[n - 1]
          BY <1>5, <3>1, <3>3
        <4> DEFINE v == f[n - 1]
        <4> HIDE DEF v
        <4>5. v \in Seq(H) /\ Len(v) <= n - 1 /\ Len(v) \in Nat BY <4>2, <4>3 DEF v
        <4>6. Len(Append(v, hand[n])) = Len(v) + 1 BY <4>5
        <4>7. f[n] = Append(v, hand[n]) \/ f[n] = v BY <4>4 DEF v
        <4>8. Len(f[n]) = Len(v) + 1 \/ Len(f[n]) = Len(v) BY <4>6, <4>7
        <4> QED BY <3>1, <4>5, <4>8
      <3> QED BY <3>2, <3>3
    <2>2. T \in SUBSET Nat OBVIOUS
    <2>3. T = {}
      <3> HIDE DEF T
      <3> QED BY <2>1, <2>2, LeastNat
    <2> QED BY <2>3
  <1>7. ASSUME \A k \in DOMAIN hand : hand[k] \in H
        PROVE  f[Len(hand)] = hand
    <2> DEFINE Prefix(k) == [j \in 1..k |-> hand[j]]
               T == {k \in 0..Len(hand) : f[k] # Prefix(k)}
    <2>1. ASSUME NEW n \in T, \A j \in T : n <= j PROVE FALSE
      <3>1. n \in 0..Len(hand) /\ f[n] # Prefix(n) BY <2>1
      <3>2. CASE n = 0
        <4>1. f[n] = << >> BY <1>5, <3>1, <3>2
        <4>2. Prefix(0) = << >> OBVIOUS
        <4> QED BY <3>1, <3>2, <4>1, <4>2
      <3>3. CASE n # 0
        <4>1. n - 1 \in 0..Len(hand) /\ n \in 1..Len(hand) BY <1>1, <3>1, <3>3
        <4>2. f[n - 1] = Prefix(n - 1) BY <2>1, <4>1
        <4>3. hand[n] \in H BY <1>1, <1>7, <4>1
        <4>4. f[n] = Append(f[n - 1], hand[n]) BY <1>5, <3>1, <3>3, <4>3
        <4>5. f[n - 1] \in Seq(H) BY <1>4, <4>1
        <4>6. Append(Prefix(n - 1), hand[n]) = Prefix(n)
          <5> DEFINE v == Prefix(n - 1)
          <5>1. v \in Seq(H) /\ Len(v) = n - 1 /\ DOMAIN v = 1..(n - 1)
            <6>1. v = f[n - 1] BY <4>2
            <6>2. v \in Seq(H) BY <4>5, <6>1
            <6>3. DOMAIN v = 1..(n - 1) /\ n - 1 \in Nat BY <4>1
            <6>4. \A u \in Seq(H) : Len(u) \in Nat /\ DOMAIN u = 1..Len(u) OBVIOUS
            <6> HIDE DEF v
            <6>5. Len(v) \in Nat /\ DOMAIN v = 1..Len(v) BY <6>2, <6>4
            <6> QED BY <4>1, <6>2, <6>3, <6>5
          <5>2. \A j \in 1..(n - 1) : v[j] = hand[j] OBVIOUS
          <5> HIDE DEF v
          <5>3. /\ Append(v, hand[n]) \in Seq(H) /\ Len(Append(v, hand[n])) = n
                /\ Append(v, hand[n])[n] = hand[n]
                /\ \A j \in 1..(n - 1) : Append(v, hand[n])[j] = v[j]
            <6>1. (n - 1) + 1 = n BY <4>1
            <6> QED BY <4>3, <5>1, <6>1, AppendProperties
          <5> DEFINE a == Append(v, hand[n])
          <5>4. a \in Seq(H) /\ Len(a) = n /\ a[n] = hand[n]
                /\ \A j \in 1..(n - 1) : a[j] = hand[j]
            BY <5>2, <5>3
          <5> HIDE DEF a
          <5>5. DOMAIN a = 1..n /\ a = [j \in DOMAIN a |-> a[j]] BY <5>4
          <5>6. \A j \in 1..n : a[j] = hand[j]
            <6> TAKE j \in 1..n
            <6>1. j = n \/ j \in 1..(n - 1) BY <4>1
            <6> QED BY <5>4, <6>1
          <5>7. a = Prefix(n) BY <5>5, <5>6
          <5> QED BY <5>7 DEF a, v
        <4> QED BY <3>1, <4>2, <4>4, <4>6
      <3> QED BY <3>2, <3>3
    <2>2. T \in SUBSET Nat OBVIOUS
    <2>3. T = {}
      <3> HIDE DEF T
      <3> QED BY <2>1, <2>2, LeastNat
    <2>4. f[Len(hand)] = Prefix(Len(hand)) BY <1>1, <2>3
    <2>5. Prefix(Len(hand)) = hand BY <1>1
    <2> QED BY <2>4, <2>5
  <1>8. Len(hand) \in 0..Len(hand) BY <1>1
  <1> QED BY <1>3, <1>4, <1>6, <1>7, <1>8

\* What session_send_info shows to a player.
LEMMA PlayerSees ==
  ASSUME NEW s, NEW b, PlaysIn(s, b)
  PROVE  VisibleHand(s, Index(s, b)) = HandIn(s, dealt, b)
  <1> DEFINE i == Index(s, b)
             f == CHOOSE f : Shows(f, dealt[i], HandOf(s, i))
  <1>1. VisibleHand(s, i) = IF s.role[i] = "PLAYER" THEN f[Len(dealt[i])] ELSE << >>
    BY DEF VisibleHand, Shows
  <1>2. HandIn(s, dealt, b) = f[Len(dealt[i])]
    BY DEF HandIn, Shown
  <1> HIDE DEF f
  <1> QED BY <1>1, <1>2 DEF PlaysIn

-----------------------------------------------------------------------------
(* A round, as the bots are told of it *)

\* A packet of Telling.
LEMMA TellingAs ==
  ASSUME NEW x, Sound(x), x.rules = DefaultRules, Hands, NEW b, Told(x, b)
  PROVE  /\ Telling(x, b) \in Packets
         /\ x.game_state = "WAITING" => Renews(x, HandIn(x, dealt, b), b, Telling(x, b))
         /\ x.game_state = "INACTIVE" => Telling(x, b) \notin InfoPackets \cup Asks
         /\ x.game_state = "WAITING_EXTRA" => Telling(x, b) \in Asks
  <1>1. Telling(x, b) \in Packets
    BY TellingIs
  <1>2. CASE x.game_state = "WAITING"
    <2>1. Member(x, b) /\ On(x) /\ Telling(x, b) = Info(x, b)
      BY <1>2 DEF Told, On, Telling
    <2>2. /\ Info(x, b) \in InfoPackets
          /\ Info(x, b).board = x.board /\ Info(x, b).heads = x.heads
          /\ Info(x, b).hand = VisibleHand(x, Index(x, b))
      BY <2>1, InfoIs
    <2>3. PlaysIn(x, b) => Info(x, b).hand = HandIn(x, dealt, b)
      BY <2>2, PlayerSees
    <2>4. Renews(x, HandIn(x, dealt, b), b, Info(x, b))
      BY <1>2, <2>2, <2>3 DEF Renews
    <2> QED BY <1>1, <1>2, <2>1, <2>4
  <1>3. CASE x.game_state = "INACTIVE"
    <2>1. Telling(x, b) = Packet("PHASE_RESULT")
      BY <1>3 DEF Telling
    <2>2. /\ Packet("PHASE_RESULT").type = "PHASE_RESULT"
          /\ Packet("PHASE_RESULT") \notin InfoPackets
      BY PacketIs
    <2> QED BY <1>1, <1>3, <2>1, <2>2 DEF Asks
  <1>4. CASE x.game_state = "WAITING_EXTRA"
    <2>1. Telling(x, b) = Packet("REQUEST_EXTRA")
      BY <1>4 DEF Telling
    <2>2. Packet("REQUEST_EXTRA").type = "REQUEST_EXTRA"
      BY PacketIs
    <2> QED BY <1>1, <1>4, <2>1, <2>2 DEF Asks
  <1>5. x.game_state \in States
    BY DEF Sound, Formed
  <1> QED BY <1>2, <1>3, <1>4, <1>5 DEF States

\* What b has to read once the session has come to x.
Reading(q, x, due, b) == IF due /\ Told(x, b) THEN Append(q, Telling(x, b)) ELSE q

\* A session that does not ask for a row has all its players told.
LEMMA UnaskedFollows ==
  ASSUME NEW x, Sound(x), x.rules = DefaultRules, Hands,
         x.game_state # "WAITING_EXTRA", NEW b, NEW q, NEW s, NEW h
  PROVE  Follows(s, h, q, x, HandIn(x, dealt, b), Reading(q, x, TRUE, b), b)
  <1> DEFINE g == HandIn(x, dealt, b)
             p == Telling(x, b)
             r == Reading(q, x, TRUE, b)
  <1>1. r = IF Member(x, b) THEN Append(q, p) ELSE q
    BY DEF Reading, Told
  <1>2. CASE x.game_state = "INACTIVE"
    <2>1. Retains(s, h, x, g, b)
      BY <1>2 DEF Retains, On
    <2>2. CASE ~Member(x, b)
      BY <1>1, <2>1, <2>2 DEF Follows
    <2>3. CASE Member(x, b)
      <3>1. p \in Packets \ (InfoPackets \cup Asks)
        BY <1>2, <2>3, TellingAs DEF Told
      <3>2. r = Append(q, p)
        BY <1>1, <2>3
      <3> HIDE DEF p, r, g
      <3>3. Follows(s, h, q, x, g, r, b)
        BY <2>1, <3>1, <3>2 DEF Follows
      <3> QED BY <3>3 DEF r, g
    <2> QED BY <2>2, <2>3
  <1>3. CASE x.game_state = "WAITING"
    <2>1. CASE ~Member(x, b)
      <3>1. Retains(s, h, x, g, b)
        BY <2>1 DEF Retains, PlaysIn
      <3> QED BY <1>1, <2>1, <3>1 DEF Follows
    <2>2. CASE Member(x, b)
      <3>1. p \in Packets /\ Renews(x, g, b, p)
        BY <1>3, <2>2, TellingAs DEF Told
      <3>2. r = Append(q, p)
        BY <1>1, <2>2
      <3> HIDE DEF p, r, g
      <3>3. Follows(s, h, q, x, g, r, b)
        BY <3>1, <3>2 DEF Follows
      <3> QED BY <3>3 DEF r, g
    <2> QED BY <2>1, <2>2
  <1>4. x.game_state \in States
    BY DEF Sound, Formed
  <1> QED BY <1>2, <1>3, <1>4 DEF States

\* start_move
LEMMA RoundFollows ==
  ASSUME NEW s, Sound(s), s.rules = DefaultRules,
         On(s) => Waiting(s) \subseteq Seated(s),
         NEW x, x = StartMove(s, TRUE), Sound(x), Hands, NEW b, NEW q
  PROVE  Follows(s, HandIn(s, dealt, b), q, x, HandIn(x, dealt, b),
                 Reading(q, x, Due(s), b), b)
  <1> DEFINE h == HandIn(s, dealt, b)
             g == HandIn(x, dealt, b)
             p == Telling(x, b)
             r == Reading(q, x, Due(s), b)
  <1>0. Frame(s, x, GameFields)
    BY StartMoveFrame
  <1>f. DOMAIN s = AllFields
    BY DEF Sound, Formed
  <1>1. x.role = s.role /\ x.player_id = s.player_id /\ x.hand = s.hand
        /\ x.rules = s.rules /\ x.heads = s.heads
    BY <1>0, <1>f DEF Frame, GameFields, AllFields, MemberFields
  <1>2. CASE ~Due(s)
    <2>1. x = s
      BY <1>2 DEF StartMove
    <2>2. Retains(s, h, x, g, b)
      BY <2>1 DEF Retains, SameBoard
    <2>3. r = q
      BY <1>2 DEF Reading
    <2> QED BY <2>2, <2>3 DEF Follows
  <1>3. CASE Due(s) /\ x.game_state # "WAITING_EXTRA"
    <2>1. r = Reading(q, x, TRUE, b)
      BY <1>3 DEF Reading
    <2>2. x.rules = DefaultRules
      BY <1>1
    <2>3. Follows(s, h, q, x, g, Reading(q, x, TRUE, b), b)
      BY <1>3, <2>2, UnaskedFollows
    <2> QED BY <2>1, <2>3
  <1>4. CASE Due(s) /\ x.game_state = "WAITING_EXTRA"
    <2>1. On(s)
      BY <1>4 DEF Due, On
    <2> DEFINE y == Resolve(s, TRUE)
    <2>2. SameGame(IF Due(s) THEN y ELSE s, x)
      BY <2>1, StartMoveIs
    <2>3. SameGame(y, x)
      BY <1>4, <2>2
    <2>4. y.game_state = x.game_state /\ x.board = y.board
      BY <2>3, SameGameIs
    <2>5. y.board = s.board
      BY <1>4, <2>1, <2>4, ResolveAsks
    <2>6. SameBoard(s, x)
      BY <1>1, <2>4, <2>5 DEF SameBoard
    <2>7. Member(x, b) = Member(s, b) /\ Index(x, b) = Index(s, b)
      BY <1>1 DEF Member, Index
    <2>8. PlaysIn(x, b) => PlaysIn(s, b)
      BY <1>1, <2>7 DEF PlaysIn
    <2> HIDE DEF y
    <2>9. CASE b = x.extra_wait_from
      <3>1. Told(x, b)
        BY <1>4, <2>9 DEF Told
      <3>2. p \in Asks
        BY <1>1, <1>4, <3>1, TellingAs
      <3>3. r = Append(q, p)
        BY <1>4, <3>1 DEF Reading
      <3>4. Blocks(s, x, b)
        BY <1>4, <2>1, <2>6, <2>8 DEF Blocks
      <3> HIDE DEF p, r, g, h
      <3>5. Follows(s, h, q, x, g, r, b)
        BY <3>2, <3>3, <3>4 DEF Follows
      <3> QED BY <3>5 DEF r, g, h
    <2>10. CASE b # x.extra_wait_from
      <3>1. ~Told(x, b)
        BY <1>4, <2>10 DEF Told
      <3>2. r = q
        BY <3>1 DEF Reading
      <3>3. ~Awaited(x, b) /\ ~Chooses(x, b)
        BY <1>4, <2>10 DEF Awaited, Chooses
      <3>4. Retains(s, h, x, g, b)
        BY <2>1, <2>6, <2>8, <3>3 DEF Retains
      <3> QED BY <3>2, <3>4 DEF Follows
    <2> QED BY <2>9, <2>10
  <1> QED BY <1>2, <1>3, <1>4

-----------------------------------------------------------------------------
(* What the session's thread does, as a bot sees it *)

\* Two sessions that differ in a slot which b has in neither.
LEMMA SameSlot ==
  ASSUME NEW u, NEW t, NEW j, NEW b, u.player_id[j] # b, t.player_id[j] # b,
         \A k \in Slots \ {j} : t.role[k] = u.role[k] /\ t.player_id[k] = u.player_id[k]
  PROVE  (Member(t, b) <=> Member(u, b)) /\ Index(t, b) = Index(u, b)
  <1> DEFINE At(s) == {k \in Slots : s.role[k] # "NONE" /\ s.player_id[k] = b}
  <1>1. At(t) = At(u)
    OBVIOUS
  <1>2. /\ Member(t, b) <=> At(t) # {}
        /\ Member(u, b) <=> At(u) # {}
    BY DEF Member
  <1>3. Index(t, b) = Min(At(t)) /\ Index(u, b) = Min(At(u))
    BY DEF Index
  <1> HIDE DEF At
  <1> QED BY <1>1, <1>2, <1>3

\* They are the same to b.
LEMMA SlotAlike ==
  ASSUME NEW u, NEW t, NEW j, NEW b, u.player_id[j] # b, t.player_id[j] # b,
         \A k \in Slots \ {j} : /\ t.role[k] = u.role[k] /\ t.player_id[k] = u.player_id[k]
                                /\ t.ready[k] = u.ready[k] /\ t.hand[k] = u.hand[k],
         SameBoard(u, t), t.game_state = u.game_state,
         t.extra_wait_from = u.extra_wait_from
  PROVE  AlikeFor(u, t, b)
  <1>1. (Member(t, b) <=> Member(u, b)) /\ Index(t, b) = Index(u, b)
    BY SameSlot
  <1>2. Member(t, b) => Index(t, b) \in Slots /\ t.player_id[Index(t, b)] = b
    BY MemberSlot
  <1>3. PlaysIn(t, b) => Index(t, b) \in Slots \ {j}
    BY <1>2 DEF PlaysIn
  <1> QED BY <1>1, <1>3 DEF AlikeFor, PlaysIn

\* Then the game goes on for b.
LEMMA AlikeRetains ==
  ASSUME NEW u, NEW t, NEW b, AlikeFor(u, t, b), NEW d
  PROVE  Retains(u, HandIn(u, d, b), t, HandIn(t, d, b), b)
  <1>1. PlaysIn(t, b) => HandIn(t, d, b) = HandIn(u, d, b)
    BY DEF AlikeFor, HandIn, HandOf
  <1>2. On(t) <=> On(u)
    BY DEF AlikeFor, On
  <1>3. PlaysIn(t, b) => PlaysIn(u, b) /\ (Awaited(t, b) <=> Awaited(u, b))
                         /\ (Chooses(t, b) <=> Chooses(u, b))
    BY DEF AlikeFor, Awaited, Chooses
  <1> QED BY <1>1, <1>2, <1>3 DEF Retains, AlikeFor

\* The bots that run follow a round.
LEMMA SpreadFollows ==
  ASSUME NEW s, Sound(s), s.rules = DefaultRules,
         On(s) => Waiting(s) \subseteq Seated(s),
         NEW x, x = StartMove(s, TRUE), Sound(x), Hands,
         NEW in, NEW out, Spread(in, out, Due(s), x), NEW b \in Bots, bot[b].pc = "running"
  PROVE  Follows(s, HandIn(s, dealt, b), in[b], x, HandIn(x, dealt, b), out[b], b)
  <1>1. out[b] = Reading(in[b], x, Due(s), b)
    BY DEF Spread, Reading
  <1>2. Follows(s, HandIn(s, dealt, b), in[b], x, HandIn(x, dealt, b),
                Reading(in[b], x, Due(s), b), b)
    BY RoundFollows
  <1> QED BY <1>1, <1>2

\* A session between two messages, with the cards that wait in it.
LEMMA PlayedWaits ==
  ASSUME Played
  PROVE  On(session) => Waiting(session) \subseteq Seated(session)
  <1>1. Whole(session)
    BY SessionFound
  <1>2. On(session) => Waiting(session) \subseteq Playing(session)
    BY <1>1 DEF Whole, InPlay, Counted
  <1> QED BY <1>1, <1>2, PlayersSeated DEF Whole

\* b follows the step, if it plays afterwards in a game that is on.
FollowsOn(b) ==
  PlaysIn(session', b) /\ On(session') =>
    Follows(session, HandIn(session, dealt, b), inbox[b],
            session', HandIn(session', dealt', b), inbox'[b], b)

\* A step that changes nothing for b.
LEMMA StaysFollowed ==
  ASSUME NEW b, AlikeFor(session, session', b), dealt' = dealt, inbox'[b] = inbox[b]
  PROVE  FollowsOn(b)
  <1> DEFINE t == session'
  <1>1. AlikeFor(session, t, b)
    OBVIOUS
  <1> HIDE DEF t
  <1>2. Retains(session, HandIn(session, dealt, b), t, HandIn(t, dealt, b), b)
    BY <1>1, AlikeRetains
  <1>3. Follows(session, HandIn(session, dealt, b), inbox[b], t, HandIn(t, dealt, b),
                inbox'[b], b)
    BY <1>2 DEF Follows
  <1> QED BY <1>3 DEF FollowsOn, t

\* The session stays, and b is told something else at most.
LEMMA UnchangedFollowed ==
  ASSUME NEW b, session' = session, dealt' = dealt,
         \/ inbox'[b] = inbox[b]
         \/ \E p \in Packets \ (InfoPackets \cup Asks) : inbox'[b] = Append(inbox[b], p)
  PROVE  FollowsOn(b)
  <1> DEFINE h == HandIn(session, dealt, b)
  <1>1. Retains(session, h, session, h, b)
    BY DEF Retains, SameBoard
  <1> HIDE DEF h
  <1>2. Follows(session, h, inbox[b], session, h, inbox'[b], b)
    BY <1>1 DEF Follows
  <1> QED BY <1>2 DEF FollowsOn, h

\* A packet of another kind.
LEMMA OtherPacketIs ==
  ASSUME NEW type \in {"PHASE_RESULT", "SESSION_END", "ERROR"}
  PROVE  Packet(type) \in Packets \ (InfoPackets \cup Asks)
  <1>1. Packet(type) \in Packets /\ Packet(type).type = type /\ Packet(type) \notin InfoPackets
    BY PacketIs
  <1> QED BY <1>1 DEF Asks

\* PKT_SESSION_INFO_RETURN
LEMMA InfoReturnFollowed ==
  ASSUME Played, Typed, Played', NEW c \in Clients, HandleInfoReturn(c),
         NEW b \in Bots, bot[b].pc = "running"
  PROVE  FollowsOn(b)
  <1> DEFINE i == Index(session, c)
             card == CardAt(session, i, Head(toSession).arg)
             s == GivenCard(session, i, card)
             h == HandIn(session, dealt, b)
  <1>1. dealt' = dealt
    BY DEF HandleInfoReturn, Faults, Becomes
  <1>h. Hands
    BY DEF Typed
  <1>s. Sound(session')
    BY DEF Played, GameInv, Whole
  <1>2. \/ Faults
        \/ /\ session.game_state = "WAITING" /\ Member(session, c)
           /\ session.ready[i] = NoCard /\ session.hand[i] # NoHand
           /\ card # NoCard
           /\ session' = StartMove(s, TRUE)
           /\ Spread(inbox, inbox', Due(s), session')
        \/ /\ session' = StartMove(session, TRUE)
           /\ Spread(inbox, inbox', Due(session), session')
    BY InfoReturnTells
  <1>3. CASE Faults
    <2>1. session' = session /\ inbox' = inbox
      BY <1>3 DEF Faults
    <2> QED BY <1>1, <2>1, UnchangedFollowed
  <1>4. CASE /\ session' = StartMove(session, TRUE)
             /\ Spread(inbox, inbox', Due(session), session')
    <2> DEFINE x == StartMove(session, TRUE)
               out == inbox'
    <2>1. /\ x = StartMove(session, TRUE) /\ Sound(x) /\ Spread(inbox, out, Due(session), x)
          /\ session' = x
      BY <1>4, <1>s
    <2> HIDE DEF x, out
    <2>2. /\ Sound(session) /\ session.rules = DefaultRules
          /\ (On(session) => Waiting(session) \subseteq Seated(session))
      BY SessionFound, PlayedWaits
    <2>3. Follows(session, HandIn(session, dealt, b), inbox[b], x, HandIn(x, dealt, b),
                  out[b], b)
      BY <1>h, <2>1, <2>2, SpreadFollows
    <2> QED BY <1>1, <2>1, <2>3 DEF FollowsOn, out
  <1>5. CASE /\ session.game_state = "WAITING" /\ Member(session, c)
             /\ session.ready[i] = NoCard /\ session.hand[i] # NoHand
             /\ card # NoCard
             /\ session' = StartMove(s, TRUE)
             /\ Spread(inbox, inbox', Due(s), session')
    <2> DEFINE x == StartMove(s, TRUE)
               out == inbox'
    <2>1. /\ x = StartMove(s, TRUE) /\ Sound(x) /\ Spread(inbox, out, Due(s), x)
          /\ session' = x
      BY <1>5, <1>s
    <2>2. /\ i \in Slots /\ session.player_id[i] = c
      BY <1>5, MemberSlot
    <2>3. Whole(session) /\ Equipped(session) /\ session.rules = DefaultRules
      BY SessionFound
    <2>4. i \in Playing(session)
      BY <1>5, <2>2, <2>3 DEF Equipped
    <2>5. card \in HandOf(session, i)
      BY <1>5, <1>h, <2>2, CardAtIs DEF Hands
    <2> HIDE DEF card, i
    <2>6. Members(s) /\ MayMove(s, Playing(s))
      BY <1>5, <2>3, <2>4, <2>5, GivenCardSound
    <2>7. Sound(s) /\ (On(s) => Waiting(s) \subseteq Seated(s))
      BY <2>6, PlayersSeated DEF MayMove, Counted
    <2>8. session.role[i] = "PLAYER"
      BY <2>4 DEF Playing
    <2>9. /\ Frame(session, s, {"hand", "ready", "ready_count"})
          /\ s.hand = [session.hand EXCEPT ![i] = @ \ {card}]
          /\ s.ready = [session.ready EXCEPT ![i] = card]
      BY <2>2, <2>3, <2>5, <2>8, GivenCardIs
    <2> HIDE DEF s
    <2>10. DOMAIN session = AllFields
      BY SessionFound
    <2>11. /\ s.role = session.role /\ s.player_id = session.player_id
           /\ s.game_state = session.game_state /\ s.rules = session.rules
           /\ s.extra_wait_from = session.extra_wait_from
      BY <2>9, <2>10 DEF Frame, AllFields, MemberFields, GameFields
    <2>12. SameBoard(session, s)
      <3>1. s.board = session.board /\ s.heads = session.heads
        BY <2>9, <2>10 DEF Frame, AllFields, GameFields
      <3> QED BY <2>11, <3>1 DEF SameBoard
    <2>13. session.hand = [k \in Slots |-> session.hand[k]]
           /\ session.ready = [k \in Slots |-> session.ready[k]]
      BY <2>3 DEF Whole, Sound, Formed, ReadyCards
    <2>14. Retains(session, h, s, HandIn(s, dealt, b), b)
      <3>1. CASE b = c
        <4>1. (Member(s, b) <=> Member(session, b)) /\ Index(s, b) = i
          BY <2>11, <3>1 DEF Member, Index, i
        <4>2. s.ready[i] = card
          BY <2>2, <2>9, <2>13
        <4>3. ~Awaited(s, b)
          BY <1>5, <4>1, <4>2 DEF Awaited
        <4>4. PlaysIn(s, b) => PlaysIn(session, b)
          BY <2>11, <3>1, <4>1 DEF PlaysIn, i
        <4>5. On(s) => On(session)
          BY <2>11 DEF On
        <4>6. Chooses(s, b) => Chooses(session, b)
          BY <2>11 DEF Chooses
        <4> QED BY <2>12, <4>3, <4>4, <4>5, <4>6 DEF Retains
      <3>2. CASE b # c
        <4>1. \A k \in Slots \ {i} : s.ready[k] = session.ready[k] /\ s.hand[k] = session.hand[k]
          BY <2>9, <2>13
        <4>2. AlikeFor(session, s, b)
          BY <2>2, <2>11, <2>12, <3>2, <4>1, SlotAlike
        <4> QED BY <4>2, AlikeRetains
      <3> QED BY <3>1, <3>2
    <2> HIDE DEF out, x
    <2>15. Follows(s, HandIn(s, dealt, b), inbox[b], x, HandIn(x, dealt, b), out[b], b)
      <3>1. s.rules = DefaultRules
        BY <2>3, <2>11
      <3> QED BY <1>h, <2>1, <2>7, <3>1, SpreadFollows
    <2> HIDE DEF h
    <2>16. Follows(session, h, inbox[b], x, HandIn(x, dealt, b), out[b], b)
      BY <2>14, <2>15, RetainsFollows
    <2> QED BY <1>1, <2>1, <2>16 DEF FollowsOn, out, h
  <1> HIDE DEF card, i, s
  <1> QED BY <1>2, <1>3, <1>4, <1>5

\* The card of the one who chose a row is the lowest, so that all others can be placed
\* after it on that row: nobody else is asked.
LEMMA RowTakenLeads ==
  ASSUME NEW s, Whole(s), s.game_state = "WAITING_EXTRA",
         NEW row \in Rows(s), NEW i \in Waiting(s), i = LowestSlot(s)
  PROVE  LET y == TakeLine(s, row, i) IN Sound(y) /\ On(y) /\ Led(y, y)
  <1> DEFINE y == TakeLine(s, row, i)
             c == s.ready[i]
  <1>1. i \in Slots /\ c # NoCard
    BY DEF Waiting
  <1>2. MayResolve(y, Playing(y))
    BY <1>1, RowTakenSound
  <1>3. Sound(s) /\ s.board \in Boards(s) /\ s.ready \in ReadyCards(s) /\ DOMAIN s = AllFields
        /\ s.rules \in Rules
    BY DEF Whole, Sound, Formed
  <1>4. /\ y.board = [s.board EXCEPT ![row] = <<c>>]
        /\ y.ready = [s.ready EXCEPT ![i] = NoCard]
        /\ y.rules = s.rules
    BY <1>1, <1>3 DEF TakeLine, AllFields, GameFields
  <1> HIDE DEF y
  <1>5. Rows(y) = Rows(s)
    BY <1>4 DEF Rows
  <1>6. y.board[row] = <<c>>
    BY <1>3, <1>4 DEF Boards
  <1>7. \A j \in Waiting(y) : j \in Waiting(s) /\ j # i /\ y.ready[j] = s.ready[j]
    BY <1>1, <1>3, <1>4 DEF Waiting, ReadyCards
  <1>8. \A j \in Waiting(s) : s.ready[j] \in Deck(s) /\ s.ready[j] \in Nat
    <2>1. Deck(s) \subseteq Nat
      BY <1>3, SlotsAndRows
    <2> QED BY <1>3, <2>1 DEF Waiting, ReadyCards
  <1>9. \A j \in Waiting(s) : c <= s.ready[j]
    <2>1. Waiting(s) # {}
      OBVIOUS
    <2> QED BY <1>8, <2>1, LowestSlotIs
  <1>10. \A j \in Waiting(s) : j # i => s.ready[j] # c
    BY <1>3 DEF Sound, Apart, Neat
  <1>11. \A j \in Waiting(y) : c < y.ready[j]
    <2> TAKE j \in Waiting(y)
    <2>1. j \in Waiting(s) /\ j # i /\ y.ready[j] = s.ready[j]
      BY <1>7
    <2>2. c <= s.ready[j] /\ s.ready[j] # c /\ s.ready[j] \in Nat /\ c \in Nat
      BY <1>8, <1>9, <1>10, <2>1
    <2> QED BY <2>1, <2>2
  <1>12. Last(<<c>>) = c /\ <<c>> # << >>
    BY DEF Last
  <1>13. Led(y, y)
    BY <1>5, <1>6, <1>11, <1>12 DEF Led
  <1> QED BY <1>2, <1>13 DEF y, MayResolve

\* PKT_RESPONSE_EXTRA
LEMMA ResponseExtraFollowed ==
  ASSUME Played, Typed, Played', NEW c \in Clients, HandleResponseExtra(c),
         NEW b \in Bots, bot[b].pc = "running"
  PROVE  FollowsOn(b)
  <1> DEFINE row == Head(toSession).arg
             i == Index(session, c)
             y == TakeLine(session, row, i)
             out == inbox'
  <1>1. dealt' = dealt
    BY DEF HandleResponseExtra, Faults, Becomes
  <1>h. Hands
    BY DEF Typed
  <1>s. Sound(session') /\ session'.rules = DefaultRules
    BY DEF Played, GameInv, Whole
  <1>2. \/ session' = session /\ inbox' = inbox
        \/ /\ session' = session
           /\ \A d \in Bots : inbox'[d] =
                IF d = c /\ bot[d].pc = "running"
                THEN Append(inbox[d], Packet("ERROR")) ELSE inbox[d]
        \/ /\ session.game_state = "WAITING_EXTRA" /\ c = session.extra_wait_from
           /\ row \in Rows(session) /\ Member(session, c)
           /\ session' = Resolve(y, TRUE)
           /\ Spread(inbox, inbox', TRUE, session')
    BY ResponseExtraTells
  <1>3. CASE session' = session /\ inbox' = inbox
    BY <1>1, <1>3, UnchangedFollowed
  <1>4. CASE /\ session' = session
             /\ \A d \in Bots : inbox'[d] =
                  IF d = c /\ bot[d].pc = "running"
                  THEN Append(inbox[d], Packet("ERROR")) ELSE inbox[d]
    <2> DEFINE p == Packet("ERROR")
    <2>1. p \in Packets \ (InfoPackets \cup Asks)
      BY OtherPacketIs
    <2>2. inbox'[b] = Append(inbox[b], p) \/ inbox'[b] = inbox[b]
      BY <1>4
    <2> HIDE DEF p
    <2> QED BY <1>1, <1>4, <2>1, <2>2, UnchangedFollowed
  <1>5. CASE /\ session.game_state = "WAITING_EXTRA" /\ c = session.extra_wait_from
             /\ row \in Rows(session) /\ Member(session, c)
             /\ session' = Resolve(y, TRUE)
             /\ Spread(inbox, inbox', TRUE, session')
    <2>1. Whole(session)
      BY SessionFound
    <2>2. i \in Waiting(session) /\ i = LowestSlot(session)
      BY <1>5, <2>1, ChooserIs, TableAssumption
    <2> HIDE DEF row, i
    <2>3. Sound(y) /\ On(y) /\ Led(y, y)
      BY <1>5, <2>1, <2>2, RowTakenLeads
    <2> DEFINE x == Resolve(y, TRUE)
    <2>4. x.game_state # "WAITING_EXTRA"
      <3> HIDE DEF y
      <3> QED BY <2>3, ResolveAsks
    <2>5. session' = x /\ Sound(x) /\ x.rules = DefaultRules
          /\ Spread(inbox, out, TRUE, x)
      BY <1>5, <1>s
    <2> HIDE DEF x, out
    <2>6. out[b] = Reading(inbox[b], x, TRUE, b)
      BY <2>5 DEF Spread, Reading
    <2>7. Follows(session, HandIn(session, dealt, b), inbox[b], x, HandIn(x, dealt, b),
                  Reading(inbox[b], x, TRUE, b), b)
      BY <1>h, <2>4, <2>5, UnaskedFollows
    <2> QED BY <1>1, <2>5, <2>6, <2>7 DEF FollowsOn, out
  <1> QED BY <1>2, <1>3, <1>4, <1>5

\* A session that b is not in after the step, or that plays no game then.
LEMMA VacuousFollowed ==
  ASSUME NEW b, ~PlaysIn(session', b) \/ ~On(session')
  PROVE  FollowsOn(b)
  BY DEF FollowsOn

\* PKT_SESSION_JOIN: who joins a game is an observer.
LEMMA JoinFollowed ==
  ASSUME Played, Typed, Played', NEW c \in Clients, HandleJoin(c),
         NEW b \in Bots, bot[b].pc = "running"
  PROVE  FollowsOn(b)
  <1>1. dealt' = dealt
    BY DEF HandleJoin, Becomes
  <1>2. inbox'[b] = IF b = c
                    THEN IF Admissible(session, c)
                         THEN IF session'.role[Index(session', c)] = "OBSERVER" /\ On(session')
                              THEN Append(Append(inbox[b], State(session')), Info(session', c))
                              ELSE Append(inbox[b], State(session'))
                         ELSE Append(inbox[b], Packet("ERROR"))
                    ELSE inbox[b]
    BY JoinTells
  <1>3. CASE ~Admissible(session, c)
    <2> DEFINE p == Packet("ERROR")
    <2>1. session' = session
      BY <1>3 DEF HandleJoin, Becomes
    <2>2. p \in Packets \ (InfoPackets \cup Asks)
      BY OtherPacketIs
    <2>3. inbox'[b] = Append(inbox[b], p) \/ inbox'[b] = inbox[b]
      BY <1>2, <1>3
    <2> HIDE DEF p
    <2> QED BY <1>1, <2>1, <2>2, <2>3, UnchangedFollowed
  <1>4. CASE Admissible(session, c)
    <2> DEFINE j == Min(Free(session))
               newRole == IF session.game_state = "INACTIVE"
                             /\ session.active_players < GameCapacity
                          THEN "PLAYER" ELSE "OBSERVER"
               a == IF session.number_clients = 0
                    THEN [session EXCEPT !.id_creator = c, !.unregister_send = 0] ELSE session
               t == AddPlayer(a, c, newRole)
    <2>1. session' = AfterJoin(session, c) /\ AfterJoin(session, c) = t
      BY <1>4 DEF HandleJoin, Becomes, AfterJoin
    <2>2. Whole(session) /\ Sound(session) /\ DOMAIN session = AllFields
          /\ Members(session) /\ Equipped(session)
      BY SessionFound
    <2>3. j \in Slots /\ session.player_id[j] = NoClient
      <3>1. Free(session) # {}
        BY <1>4, <2>2, MembersCounts DEF Admissible
      <3>2. Free(session) \in SUBSET Nat
        BY SlotsFinite DEF Free
      <3>3. j \in Free(session)
        BY <3>1, <3>2, MinIs
      <3> HIDE DEF j
      <3> QED BY <3>3 DEF Free
    <2>4. /\ session.player_id \in [Slots -> Clients \cup {NoClient}]
          /\ session.role \in [Slots -> Roles]
          /\ session.hand \in [Slots -> (SUBSET Cards) \cup {NoHand}]
      BY <2>2 DEF Members, Equipped
    <2>5. /\ DOMAIN a = AllFields /\ a.player_id = session.player_id /\ a.role = session.role
          /\ a.hand = session.hand /\ a.ready = session.ready
          /\ a.board = session.board /\ a.heads = session.heads /\ a.rules = session.rules
          /\ a.game_state = session.game_state
          /\ a.extra_wait_from = session.extra_wait_from
      BY <2>2 DEF AllFields, GameFields, MemberFields
    <2>6. Min(Free(a)) = j
      BY <2>5 DEF Free
    <2> HIDE DEF a, j, newRole
    <2>7. /\ t.player_id = [session.player_id EXCEPT ![j] = c]
          /\ t.role = [session.role EXCEPT ![j] = newRole]
          /\ \A k \in Slots \ {j} : t.hand[k] = session.hand[k]
          /\ t.ready = session.ready
          /\ t.board = session.board /\ t.heads = session.heads /\ t.rules = session.rules
          /\ t.game_state = session.game_state
          /\ t.extra_wait_from = session.extra_wait_from
      BY <2>4, <2>5, <2>6 DEF AddPlayer, AllFields, GameFields, MemberFields
    <2> HIDE DEF t
    <2>8. CASE b # c
      <3>1. session.player_id[j] # b
        BY <2>3, SessionAssumption, OneRuleBook
      <3>2. t.player_id[j] # b
        BY <2>3, <2>4, <2>7, <2>8
      <3>3. AlikeFor(session, t, b)
        <4>1. \A k \in Slots \ {j} :
                 /\ t.role[k] = session.role[k] /\ t.player_id[k] = session.player_id[k]
                 /\ t.ready[k] = session.ready[k] /\ t.hand[k] = session.hand[k]
          BY <2>3, <2>4, <2>7
        <4>2. SameBoard(session, t)
          BY <2>7 DEF SameBoard
        <4> QED BY <2>7, <3>1, <3>2, <4>1, <4>2, SlotAlike
      <3>4. inbox'[b] = inbox[b]
        BY <1>2, <2>8
      <3>5. AlikeFor(session, session', b)
        BY <2>1, <3>3
      <3> QED BY <1>1, <3>4, <3>5, StaysFollowed
    <2>9. CASE b = c
      <3>1. CASE session.game_state = "INACTIVE"
        <4>1. ~On(session')
          BY <2>1, <2>7, <3>1 DEF On
        <4> QED BY <4>1, VacuousFollowed
      <3>2. CASE session.game_state # "INACTIVE"
        <4>1. newRole = "OBSERVER"
          BY <3>2 DEF newRole
        <4>2. ~Member(session, c)
          BY <1>4 DEF Admissible
        <4>3. \A k \in Slots : t.role[k] # "NONE" /\ t.player_id[k] = c => k = j
          BY <2>3, <2>4, <2>7, <4>2 DEF Member
        <4>4. Member(t, b) => Index(t, b) = j
          BY <2>9, <4>3, MemberSlot
        <4>5. t.role[j] = "OBSERVER"
          BY <2>3, <2>4, <2>7, <4>1
        <4>6. ~PlaysIn(t, b)
          BY <4>4, <4>5 DEF PlaysIn
        <4>7. ~PlaysIn(session', b)
          BY <2>1, <4>6
        <4> QED BY <4>7, VacuousFollowed
      <3> QED BY <3>1, <3>2
    <2> QED BY <2>8, <2>9
  <1> QED BY <1>3, <1>4

\* PKT_SESSION_CLOSE: nobody stays.
LEMMA CloseFollowed ==
  ASSUME Played, Typed, HandleClose, NEW b \in Bots, bot[b].pc = "running"
  PROVE  FollowsOn(b)
  <1>1. dealt' = dealt
    BY DEF HandleClose, Becomes
  <1>2. CASE Human = session.id_creator
    <2>1. session' = AfterClose(session, TRUE)
      BY <1>2, CloseTells
    <2>2. Empty(AfterClose(session, TRUE))
      BY SessionFound, AfterCloseWho
    <2>3. ~Member(session', b)
      BY <2>1, <2>2, OneRuleBook DEF Empty
    <2> QED BY <2>3, VacuousFollowed DEF PlaysIn
  <1>3. CASE Human # session.id_creator
    <2>1. session' = session /\ inbox' = inbox
      BY <1>3, CloseTells
    <2> QED BY <1>1, <2>1, UnchangedFollowed
  <1> QED BY <1>2, <1>3

\* PKT_ADD_BOT, and the end of a batch.
LEMMA RestFollowed ==
  ASSUME Played, HandleAddBot \/ SessionEmpties, NEW b
  PROVE  FollowsOn(b)
  <1>1. CASE HandleAddBot
    <2>1. session' = session /\ inbox' = inbox /\ dealt' = dealt
      BY <1>1 DEF HandleAddBot, vars
    <2> QED BY <2>1, UnchangedFollowed
  <1>2. CASE SessionEmpties
    <2> DEFINE t == [session EXCEPT !.unregister_send = 1]
    <2>1. session' = t /\ inbox' = inbox /\ dealt' = dealt
      BY <1>2 DEF SessionEmpties, EndOfBatch
    <2>2. DOMAIN session = AllFields
      BY SessionFound
    <2>3. /\ t.role = session.role /\ t.player_id = session.player_id
          /\ t.ready = session.ready /\ t.hand = session.hand
          /\ t.board = session.board /\ t.heads = session.heads /\ t.rules = session.rules
          /\ t.game_state = session.game_state
          /\ t.extra_wait_from = session.extra_wait_from
      BY <2>2 DEF AllFields, GameFields, MemberFields
    <2> HIDE DEF t
    <2>4. Member(t, b) = Member(session, b) /\ Index(t, b) = Index(session, b)
      BY <2>3 DEF Member, Index
    <2>5. AlikeFor(session, t, b)
      BY <2>3, <2>4 DEF AlikeFor, SameBoard, PlaysIn
    <2>6. AlikeFor(session, session', b)
      BY <2>1, <2>5
    <2> QED BY <2>1, <2>6, StaysFollowed
  <1> QED BY <1>1, <1>2

\* The hands that are dealt to the players are shown to them.
LEMMA DealtHandsShown ==
  ASSUME Played, Typed, Played', HandleStart, Human = session.id_creator,
         NEW b, PlaysIn(session', b)
  PROVE  HandIn(session', dealt', b) = dealt'[Index(session', b)]
  <1> DEFINE x == session'
             d == dealt'
             j == Index(x, b)
  <1>1. PICK shuffle \in Shuffles :
          /\ session' = Deal(session, shuffle)
          /\ dealt' = [i \in Slots |-> IF i \in Served(session)
                         THEN HandDealt(session,
                                        Shuffled(shuffle.cards, session.rules.nbrCards), i)
                         ELSE << >>]
    BY DEF HandleStart
  <1> DEFINE ids == Shuffled(shuffle.cards, session.rules.nbrCards)
             t == Deal(session, shuffle)
  <1>2. /\ DOMAIN session = AllFields /\ Members(session) /\ session.rules \in Rules
        /\ session.rules = DefaultRules
    BY SessionFound DEF Equipped
  <1>3. /\ t.role = session.role
        /\ t.hand = [i \in Slots |-> IF i \in Served(session) /\ session.hand[i] # NoHand
                                     THEN ToSet(HandDealt(session, ids, i))
                                     ELSE session.hand[i]]
    BY <1>2 DEF Deal, AllFields, MemberFields, GameFields
  <1>4. x = t /\ PlaysIn(x, b)
    BY <1>1
  <1> HIDE DEF t
  <1>5. /\ d \in [Slots -> Seq(Cards)]
        /\ d = [i \in Slots |-> IF i \in Served(session)
                                THEN HandDealt(session, ids, i) ELSE << >>]
    BY <1>1 DEF Played
  <1> HIDE DEF x, d, ids
  <1>6. j \in Slots /\ x.role[j] = "PLAYER"
    BY <1>4, MemberSlot DEF PlaysIn
  <1> HIDE DEF j
  <1>7. j \in Playing(session) /\ j \in Served(session)
    <2>1. j \in Playing(session)
      BY <1>3, <1>4, <1>6 DEF Playing
    <2>2. Served(session) = Seated(session) /\ Seated(session) = Playing(session)
      BY <1>2, OneRuleBook, AllServed, PlayersSeated
    <2> QED BY <2>1, <2>2
  <1>8. session.hand[j] # NoHand
    BY <1>7 DEF Played, Handed
  <1>9. d[j] = HandDealt(session, ids, j) /\ d[j] \in Seq(Cards)
    BY <1>5, <1>6, <1>7
  <1>10. x.hand[j] = ToSet(d[j])
    BY <1>3, <1>4, <1>6, <1>7, <1>8, <1>9
  <1>11. ToSet(d[j]) = {d[j][k] : k \in DOMAIN d[j]}
    BY DEF ToSet
  <1>12. ToSet(d[j]) \subseteq Cards
    BY <1>9, <1>11
  <1>13. HandOf(x, j) = ToSet(d[j])
    <2>1. NoCard \notin ToSet(d[j])
      BY <1>12, CardsAre
    <2> QED BY <1>10, <2>1 DEF HandOf, NoHand
  <1>14. Shown(d[j], HandOf(x, j)) = d[j]
    <2> DEFINE hand == d[j]
               H == HandOf(x, j)
    <2>1. hand \in Seq(Cards) /\ \A k \in DOMAIN hand : hand[k] \in H
      BY <1>9, <1>11, <1>13
    <2> HIDE DEF hand, H
    <2>2. Shown(hand, H) = hand
      BY <2>1, ShownIs
    <2> QED BY <2>2 DEF hand, H
  <1> QED BY <1>14 DEF HandIn, x, d, j

\* PKT_START_SESSION: everybody who plays is shown the board and his hand.
LEMMA StartFollowed ==
  ASSUME Played, Typed, Played', HandleStart, NEW b \in Bots, bot[b].pc = "running"
  PROVE  FollowsOn(b)
  <1>1. CASE Human # session.id_creator
    <2>1. session' = session /\ inbox' = inbox
      BY <1>1, StartTells
    <2>2. dealt' = dealt
      BY <1>1 DEF HandleStart, Becomes
    <2> QED BY <2>1, <2>2, UnchangedFollowed
  <1>2. CASE Human = session.id_creator
    <2> DEFINE x == session'
               d == dealt'
               r == inbox'[b]
    <2>1. CASE ~PlaysIn(session', b)
      BY <2>1, VacuousFollowed
    <2>2. CASE PlaysIn(session', b)
      <3> DEFINE hand == d[Index(x, b)]
                 shown == Info(x, b)
                 p == [shown EXCEPT !.hand = hand]
      <3>1. HandIn(x, d, b) = hand
        BY <1>2, <2>2, DealtHandsShown
      <3>2. r = Append(inbox[b], p)
        BY <1>2, <2>2, StartTells DEF PlaysIn
      <3>3. Sound(x) /\ x.rules = DefaultRules /\ d \in [Slots -> Seq(Cards)]
        BY DEF Played, GameInv, Whole
      <3>4. x.game_state = "WAITING"
        <4>1. PICK shuffle \in Shuffles : session' = Deal(session, shuffle)
          BY <1>2 DEF HandleStart
        <4>2. DOMAIN session = AllFields
          BY SessionFound
        <4> QED BY <4>1, <4>2 DEF Deal, AllFields, GameFields
      <3>5. Member(x, b)
        BY <2>2 DEF PlaysIn
      <3> HIDE DEF x, d, r
      <3>6. Hands /\ On(x)
        BY <3>4 DEF Typed, On
      <3>7. shown \in InfoPackets /\ shown.board = x.board /\ shown.heads = x.heads
        BY <3>3, <3>5, <3>6, InfoIs
      <3>8. hand \in Seq(Cards)
        <4>1. Index(x, b) \in Slots
          BY <3>5, MemberSlot
        <4> QED BY <3>3, <4>1
      <3> HIDE DEF hand, shown
      <3>9. /\ p \in InfoPackets /\ p.board = x.board /\ p.heads = x.heads /\ p.hand = hand
        BY <3>7, <3>8 DEF InfoPackets
      <3> HIDE DEF p
      <3>10. Renews(x, hand, b, p)
        BY <3>4, <3>9 DEF Renews
      <3>11. p \in Packets
        BY <3>9 DEF Packets
      <3>12. Follows(session, HandIn(session, dealt, b), inbox[b], x, hand, r, b)
        BY <3>2, <3>10, <3>11 DEF Follows
      <3>13. Follows(session, HandIn(session, dealt, b), inbox[b], x, HandIn(x, d, b), r, b)
        BY <3>1, <3>12
      <3> QED BY <3>13 DEF FollowsOn, x, d, r
    <2> QED BY <2>1, <2>2
  <1> QED BY <1>1, <1>2

\* Who plays on follows the round that is due without the player in slot i.
LEMMA PartFollows ==
  ASSUME NEW h, NEW i, NEW P, MayPart(h, i, P), On(h), h.rules = DefaultRules,
         h.role[i] = "PLAYER", Hands, NEW b \in Bots, bot[b].pc = "running",
         NEW s, AlikeFor(s, Left(h, i), b),
         NEW t, AlikeFor(Withdraw(h, i, TRUE), t, b),
         NEW in, NEW out, Spread(in, out, DueWithout(h, i), Withdraw(h, i, TRUE))
  PROVE  Follows(s, HandIn(s, dealt, b), in[b], t, HandIn(t, dealt, b), out[b], b)
  <1> DEFINE u == Left(h, i)
             x == Withdraw(h, i, TRUE)
  <1>1. DOMAIN h = AllFields
    BY DEF MayPart, Sound, Formed
  <1>2. u.rules = DefaultRules
    BY <1>1 DEF Left, AllFields, GameFields, MemberFields
  <1>3. x = StartMove(u, TRUE)
    BY <1>1 DEF Withdraw, Left, On
  <1>4. MayMove(u, P)
    BY LeftMayMove
  <1>5. Sound(u) /\ (On(u) => Waiting(u) \subseteq Seated(u))
    BY <1>4 DEF MayMove, Counted
  <1>6. Sound(x)
    BY OneRuleBook, WithdrawSound
  <1>7. Spread(in, out, Due(u), x)
    <2>1. DueWithout(h, i) <=> Due(u)
      BY DEF DueWithout
    <2> HIDE DEF u, x
    <2>2. Spread(in, out, DueWithout(h, i), x)
      BY DEF x
    <2> QED BY <2>1, <2>2 DEF Spread
  <1> HIDE DEF u, x
  <1>8. Follows(u, HandIn(u, dealt, b), in[b], x, HandIn(x, dealt, b), out[b], b)
    BY <1>2, <1>3, <1>5, <1>6, <1>7, SpreadFollows
  <1>9. Retains(s, HandIn(s, dealt, b), u, HandIn(u, dealt, b), b)
    BY AlikeRetains DEF u
  <1>10. Follows(s, HandIn(s, dealt, b), in[b], x, HandIn(x, dealt, b), out[b], b)
    BY <1>8, <1>9, RetainsFollows
  <1> QED BY <1>10, FollowsAlike DEF x

\* The round without him is the same to the others, but for his slot.
LEMMA LeftAlike ==
  ASSUME NEW s, DOMAIN s = AllFields, NEW i \in Slots, NEW b, s.player_id[i] # b,
         s.ready = [k \in Slots |-> s.ready[k]], s.hand = [k \in Slots |-> s.hand[k]],
         NEW h, h \in {s, [s EXCEPT !.hand[i] = NoHand]}
  PROVE  AlikeFor(s, Left(h, i), b)
  <1> DEFINE u == Left(h, i)
  <1>1. /\ DOMAIN h = AllFields /\ h.ready = s.ready /\ h.role = s.role
        /\ h.player_id = s.player_id /\ h.board = s.board /\ h.heads = s.heads
        /\ h.rules = s.rules /\ h.game_state = s.game_state
        /\ h.extra_wait_from = s.extra_wait_from
        /\ h.hand \in {s.hand, [s.hand EXCEPT ![i] = NoHand]}
    BY DEF AllFields, GameFields, MemberFields
  <1>2. /\ u.ready = [s.ready EXCEPT ![i] = NoCard] /\ u.role = s.role
        /\ u.player_id = s.player_id /\ u.board = s.board /\ u.heads = s.heads
        /\ u.rules = s.rules /\ u.game_state = s.game_state
        /\ u.extra_wait_from = s.extra_wait_from /\ u.hand = h.hand
    BY <1>1 DEF Left, AllFields, GameFields, MemberFields
  <1> HIDE DEF u
  <1>3. \A k \in Slots \ {i} : /\ u.role[k] = s.role[k] /\ u.player_id[k] = s.player_id[k]
                               /\ u.ready[k] = s.ready[k] /\ u.hand[k] = s.hand[k]
    BY <1>1, <1>2
  <1>4. SameBoard(s, u)
    BY <1>2 DEF SameBoard
  <1>5. u.player_id[i] # b /\ u.game_state = s.game_state
        /\ u.extra_wait_from = s.extra_wait_from
    BY <1>2
  <1>6. AlikeFor(s, u, b)
    BY <1>3, <1>4, <1>5, SlotAlike
  <1> QED BY <1>6 DEF u

\* What a withdrawal depends on.
LEMMA WithdrawAs ==
  ASSUME NEW s, NEW t, SameGame(s, t), NEW i, NEW sent
  PROVE  SameGame(Withdraw(s, i, sent), Withdraw(t, i, sent))
  <1> DEFINE n == s.active_players - 1
             r == [s.ready EXCEPT ![i] = NoCard]
             u == [s EXCEPT !.active_players = n, !.ready = r]
             w == [t EXCEPT !.active_players = n, !.ready = r]
             u0 == [s EXCEPT !.active_players = n, !.ready = s.ready]
             w0 == [t EXCEPT !.active_players = n, !.ready = s.ready]
  <1>1. /\ t.ready = s.ready /\ t.active_players = s.active_players
        /\ t.game_state = s.game_state
        /\ DOMAIN s = AllFields /\ DOMAIN t = AllFields
    BY SameGameIs DEF SameGame
  <1>2. SameGame(u, w) /\ SameGame(u0, w0)
    BY SameGameWith
  <1>3. CASE s.game_state = "INACTIVE"
    <2>1. Withdraw(s, i, sent) = u0 /\ Withdraw(t, i, sent) = w0
      BY <1>1, <1>3 DEF Withdraw, AllFields, GameFields
    <2> QED BY <1>2, <2>1
  <1>4. CASE s.game_state # "INACTIVE"
    <2>1. Withdraw(s, i, sent) = StartMove(u, sent) /\ Withdraw(t, i, sent) = StartMove(w, sent)
      <3>1. /\ [[s EXCEPT !.active_players = @ - 1] EXCEPT !.ready[i] = NoCard] = u
            /\ [[t EXCEPT !.active_players = @ - 1] EXCEPT !.ready[i] = NoCard] = w
        BY <1>1 DEF AllFields, GameFields, MemberFields
      <3> QED BY <1>1, <1>4, <3>1 DEF Withdraw
    <2> HIDE DEF u, w
    <2> QED BY <1>2, <2>1, StartMoveAs
  <1> QED BY <1>3, <1>4

\* remove_player frees the slot of the one who goes.
LEMMA RemovedAlike ==
  ASSUME NEW s, Whole(s), NEW c, Member(s, c), NEW b \in Clients, b # c
  PROVE  LET i == Index(s, c)
             x == IF s.role[i] = "PLAYER" THEN Withdraw(s, i, TRUE) ELSE s
         IN  AlikeFor(x, RemovePlayer(s, c, TRUE), b)
  <1> DEFINE i == Index(s, c)
             x == IF s.role[i] = "PLAYER" THEN Withdraw(s, i, TRUE) ELSE s
             t == IF c = s.id_creator /\ s.number_clients > 1
                  THEN [s EXCEPT !.id_creator = Heir(s, i)] ELSE s
             u == IF s.role[i] = "PLAYER" THEN Withdraw(t, i, TRUE) ELSE t
             z == RemovePlayer(s, c, TRUE)
  <1>1. /\ DOMAIN s = AllFields /\ i \in Slots /\ s.player_id[i] = c
        /\ s.player_id \in [Slots -> Clients \cup {NoClient}]
        /\ s.role \in [Slots -> Roles]
        /\ s.hand \in [Slots -> (SUBSET Cards) \cup {NoHand}]
    BY IndexIs DEF Whole, Equipped, Members
  <1>2. z = [u EXCEPT !.number_clients = @ - 1,
                      !.player_id[i] = NoClient, !.role[i] = "NONE",
                      !.is_connected[i] = FALSE,
                      !.hand[i] = NoHand, !.room[i] = 0]
    BY DEF RemovePlayer
  <1>3. s.role[i] = t.role[i]
    BY <1>1 DEF AllFields, MemberFields
  <1>4. SameGame(s, t)
    <2>1. DOMAIN t = AllFields
      BY <1>1
    <2>2. \A f \in OwnFields : t[f] = s[f]
      <3>1. "id_creator" \notin OwnFields
        BY DEF OwnFields, CardFields, GameFields
      <3>2. OwnFields \subseteq AllFields
        BY DEF OwnFields, CardFields, GameFields, AllFields, MemberFields
      <3>3. \A f \in DOMAIN s : f # "id_creator" => t[f] = s[f]
        <4> HIDE DEF i
        <4> QED OBVIOUS
      <3> HIDE DEF t
      <3> QED BY <1>1, <3>1, <3>2, <3>3
    <2> QED BY <1>1, <2>1, <2>2 DEF SameGame
  <1> HIDE DEF t
  <1>5. SameGame(x, u)
    BY <1>4, WithdrawAs
  <1>6. x.player_id = s.player_id /\ x.role = s.role /\ x.hand = s.hand
    <2>1. CASE s.role[i] = "PLAYER"
      <3>1. Frame(s, Withdraw(s, i, TRUE), GameFields \cup {"active_players"})
        BY <1>1, WithdrawFrame DEF AllFields, MemberFields
      <3>2. {"player_id", "role", "hand"} \subseteq AllFields
            /\ {"player_id", "role", "hand"} \cap (GameFields \cup {"active_players"}) = {}
        BY DEF AllFields, MemberFields, GameFields
      <3> QED BY <1>1, <2>1, <3>1, <3>2 DEF Frame
    <2>2. CASE s.role[i] # "PLAYER"
      BY <2>2
    <2> QED BY <2>1, <2>2
  <1> HIDE DEF x, u
  <1>7. /\ u.board = x.board /\ u.ready = x.ready
        /\ u.heads = x.heads /\ u.rules = x.rules /\ u.hand = x.hand
        /\ u.player_id = x.player_id /\ u.role = x.role
        /\ u.game_state = x.game_state /\ u.extra_wait_from = x.extra_wait_from
        /\ DOMAIN u = AllFields
    BY <1>5, SameGameIs DEF SameGame
  <1> HIDE DEF i
  <1>8. /\ z.board = u.board /\ z.ready = u.ready /\ z.heads = u.heads /\ z.rules = u.rules
        /\ z.game_state = u.game_state /\ z.extra_wait_from = u.extra_wait_from
        /\ z.player_id = [u.player_id EXCEPT ![i] = NoClient]
        /\ z.role = [u.role EXCEPT ![i] = "NONE"]
        /\ z.hand = [u.hand EXCEPT ![i] = NoHand]
    BY <1>2, <1>7 DEF AllFields, GameFields, MemberFields
  <1> HIDE DEF z
  <1>9. \A k \in Slots \ {i} : /\ z.role[k] = x.role[k] /\ z.player_id[k] = x.player_id[k]
                               /\ z.ready[k] = x.ready[k] /\ z.hand[k] = x.hand[k]
    BY <1>1, <1>6, <1>7, <1>8
  <1>10. x.player_id[i] # b /\ z.player_id[i] # b
    BY <1>1, <1>6, <1>7, <1>8, SessionAssumption
  <1>11. SameBoard(x, z)
    BY <1>7, <1>8 DEF SameBoard
  <1>12. AlikeFor(x, z, b)
    BY <1>7, <1>8, <1>9, <1>10, <1>11, SlotAlike
  <1> QED BY <1>12 DEF x, z, i

\* change_player_role keeps the slot of the one who stops playing, whose hand has been
\* freed before.
LEMMA ObserverAlike ==
  ASSUME NEW s, Whole(s), NEW c, Member(s, c), s.role[Index(s, c)] = "PLAYER",
         NEW b \in Clients, b # c,
         NEW z, DOMAIN z = AllFields, Frame(MakeObserver(s, c, TRUE), z, {"is_connected"})
  PROVE  AlikeFor(Withdraw([s EXCEPT !.hand[Index(s, c)] = NoHand], Index(s, c), TRUE), z, b)
  <1> DEFINE i == Index(s, c)
             h == [s EXCEPT !.hand[i] = NoHand]
             g == [s EXCEPT !.hand[i] = NoHand, !.room[i] = 0]
             x == Withdraw(h, i, TRUE)
             u == Withdraw(g, i, TRUE)
             t == MakeObserver(s, c, TRUE)
  <1>1. /\ DOMAIN s = AllFields /\ i \in Slots /\ s.player_id[i] = c
        /\ s.player_id \in [Slots -> Clients \cup {NoClient}]
        /\ s.role \in [Slots -> Roles]
        /\ s.hand \in [Slots -> (SUBSET Cards) \cup {NoHand}]
    BY IndexIs DEF Whole, Equipped, Members
  <1>2. t = [u EXCEPT !.role[i] = "OBSERVER"]
    BY DEF MakeObserver
  <1>3. SameGame(h, g)
    <2>1. /\ DOMAIN h = AllFields /\ DOMAIN g = AllFields
          /\ \A f \in DOMAIN s : f # "room" => g[f] = h[f]
      BY <1>1
    <2>2. "room" \notin OwnFields /\ OwnFields \subseteq AllFields
      BY DEF OwnFields, CardFields, GameFields, AllFields, MemberFields
    <2> HIDE DEF h, g
    <2>3. \A f \in OwnFields : g[f] = h[f]
      BY <1>1, <2>1, <2>2
    <2> QED BY <2>1, <2>3 DEF SameGame
  <1>4. h.player_id = s.player_id /\ h.role = s.role /\ DOMAIN h = AllFields
    BY <1>1 DEF AllFields, GameFields, MemberFields
  <1> HIDE DEF h, g
  <1>5. SameGame(x, u)
    BY <1>3, WithdrawAs
  <1>6. x.player_id = s.player_id /\ x.role = s.role
    <2>1. Frame(h, x, GameFields \cup {"active_players"})
      BY <1>4, WithdrawFrame DEF AllFields, MemberFields
    <2>2. {"player_id", "role"} \subseteq AllFields
          /\ {"player_id", "role"} \cap (GameFields \cup {"active_players"}) = {}
      BY DEF AllFields, MemberFields, GameFields
    <2> HIDE DEF x
    <2> QED BY <1>4, <2>1, <2>2 DEF Frame
  <1> HIDE DEF x, u
  <1>7. /\ u.board = x.board /\ u.ready = x.ready
        /\ u.heads = x.heads /\ u.rules = x.rules /\ u.hand = x.hand
        /\ u.player_id = x.player_id /\ u.role = x.role
        /\ u.game_state = x.game_state /\ u.extra_wait_from = x.extra_wait_from
        /\ DOMAIN u = AllFields
    BY <1>5, SameGameIs DEF SameGame
  <1> HIDE DEF i
  <1>8. /\ t.board = u.board /\ t.ready = u.ready /\ t.heads = u.heads /\ t.rules = u.rules
        /\ t.game_state = u.game_state /\ t.extra_wait_from = u.extra_wait_from
        /\ t.player_id = u.player_id /\ t.role = [u.role EXCEPT ![i] = "OBSERVER"]
        /\ t.hand = u.hand /\ DOMAIN t = AllFields
    BY <1>2, <1>7 DEF AllFields, GameFields, MemberFields
  <1> HIDE DEF t
  <1>9. Frame(t, z, {"is_connected"})
    BY DEF t
  <1>10. /\ z.board = t.board /\ z.ready = t.ready /\ z.heads = t.heads /\ z.rules = t.rules
         /\ z.game_state = t.game_state /\ z.extra_wait_from = t.extra_wait_from
         /\ z.player_id = t.player_id /\ z.role = t.role /\ z.hand = t.hand
    BY <1>8, <1>9 DEF Frame, AllFields, GameFields, MemberFields
  <1>11. \A k \in Slots \ {i} : /\ z.role[k] = x.role[k] /\ z.player_id[k] = x.player_id[k]
                                /\ z.ready[k] = x.ready[k] /\ z.hand[k] = x.hand[k]
    BY <1>1, <1>6, <1>7, <1>8, <1>10
  <1>12. /\ x.player_id[i] # b /\ z.player_id[i] # b
         /\ z.game_state = x.game_state /\ z.extra_wait_from = x.extra_wait_from
    BY <1>1, <1>6, <1>7, <1>8, <1>10
  <1>13. SameBoard(x, z)
    BY <1>7, <1>8, <1>10 DEF SameBoard
  <1>14. AlikeFor(x, z, b)
    BY <1>11, <1>12, <1>13, SlotAlike
  <1> QED BY <1>14 DEF x, h, i

\* A player whose hand has been freed may go.
LEMMA FreedMayPart ==
  ASSUME NEW s, Whole(s), DOMAIN s = AllFields, NEW i \in Slots, s.role[i] = "PLAYER"
  PROVE  LET h == [s EXCEPT !.hand[i] = NoHand]
         IN  MayPart(h, i, Playing(s) \ {i})
  <1> DEFINE h == [s EXCEPT !.hand[i] = NoHand]
  <1>1. /\ h.board = s.board /\ h.ready = s.ready /\ h.heads = s.heads /\ h.rules = s.rules
        /\ h.nb_head = s.nb_head /\ h.ready_count = s.ready_count
        /\ h.game_state = s.game_state /\ h.extra_wait_from = s.extra_wait_from
        /\ h.active_players = s.active_players
        /\ h.hand = [s.hand EXCEPT ![i] = NoHand]
        /\ h.player_id = s.player_id /\ h.role = s.role /\ DOMAIN h = AllFields
    BY DEF AllFields, GameFields, MemberFields
  <1>2. SameCards(s, h)
    BY <1>1 DEF SameCards
  <1> HIDE DEF h
  <1>3. MayPart(h, i, Playing(s) \ {i})
    BY <1>1, <1>2, HandFreedMayPart
  <1> QED BY <1>3 DEF h

\* PKT_SESSION_LEAVE
LEMMA LeaveFollowed ==
  ASSUME Played, Typed, Played', NEW c \in Clients, HandleLeave(c),
         NEW b \in Bots, bot[b].pc = "running"
  PROVE  FollowsOn(b)
  <1> DEFINE i == Index(session, c)
             mid == AfterWithdraw(inbox, session, c)
             x == Withdraw(session, i, TRUE)
             t == RemovePlayer(session, c, TRUE)
  <1>1. dealt' = dealt /\ session' = t
    BY DEF HandleLeave, Becomes
  <1>2. /\ inbox'[b] = IF b = c THEN Append(mid[b], Packet("SESSION_END")) ELSE mid[b]
        /\ Member(session, c) => Spread(inbox, mid, DueWithout(session, i), x)
        /\ ~Member(session, c) => mid = inbox
    BY LeaveTells
  <1>3. /\ Whole(session) /\ Sound(session) /\ DOMAIN session = AllFields
        /\ Members(session) /\ Equipped(session) /\ session.rules = DefaultRules
    BY SessionFound
  <1>4. CASE ~Member(session, c)
    <2> DEFINE p == Packet("SESSION_END")
    <2>1. session' = session
      BY <1>1, <1>4 DEF RemovePlayer
    <2>2. p \in Packets \ (InfoPackets \cup Asks)
      BY OtherPacketIs
    <2>3. inbox'[b] = Append(inbox[b], p) \/ inbox'[b] = inbox[b]
      BY <1>2, <1>4
    <2> HIDE DEF p
    <2> QED BY <1>1, <2>1, <2>2, <2>3, UnchangedFollowed
  <1>5. CASE Member(session, c) /\ b = c
    <2>1. Without(session, t, {c})
      BY <1>3, RemovePlayerWho
    <2>2. ~Member(t, b)
      BY <1>5, <2>1 DEF Without
    <2>3. ~PlaysIn(session', b)
      BY <1>1, <2>2 DEF PlaysIn
    <2> QED BY <2>3, VacuousFollowed
  <1>6. CASE Member(session, c) /\ b # c
    <2> DEFINE y == IF session.role[i] = "PLAYER" THEN x ELSE session
               r == inbox'[b]
    <2>1. AlikeFor(y, t, b)
      BY <1>3, <1>6, OneRuleBook, RemovedAlike
    <2>2. i \in Slots /\ session.player_id[i] = c
      BY <1>6, MemberSlot
    <2>3. r = mid[b] /\ Spread(inbox, mid, DueWithout(session, i), x)
      BY <1>2, <1>6
    <2>4. CASE ~On(session)
      <3>1. Continues(session, t)
        BY <1>3, RemovePlayerContinues
      <3>2. ~On(session')
        BY <1>1, <2>4, <3>1 DEF Continues
      <3> QED BY <3>2, VacuousFollowed
    <2>5. CASE session.role[i] # "PLAYER"
      <3>1. AlikeFor(session, session', b)
        BY <1>1, <2>1, <2>5
      <3>2. ~DueWithout(session, i)
        BY <2>5 DEF DueWithout
      <3> HIDE DEF mid, x
      <3>3. mid[b] = inbox[b]
        BY <2>3, <3>2 DEF Spread
      <3> QED BY <1>1, <2>3, <3>1, <3>3, StaysFollowed
    <2>6. CASE session.role[i] = "PLAYER" /\ On(session)
      <3>1. MayPart(session, i, Playing(session) \ {i})
        BY <1>3, <2>2, <2>6, PlayerMayPart
      <3>2. AlikeFor(session, Left(session, i), b)
        <4>1. session.ready = [k \in Slots |-> session.ready[k]]
              /\ session.hand = [k \in Slots |-> session.hand[k]]
          BY <1>3 DEF Sound, Formed, ReadyCards
        <4> QED BY <1>3, <1>6, <2>2, <4>1, LeftAlike
      <3>3. AlikeFor(Withdraw(session, i, TRUE), t, b)
        BY <2>1, <2>6
      <3>4. Spread(inbox, mid, DueWithout(session, i), Withdraw(session, i, TRUE))
        BY <2>3
      <3>5. Hands
        BY DEF Typed
      <3> HIDE DEF i, mid, t
      <3>6. Follows(session, HandIn(session, dealt, b), inbox[b], t, HandIn(t, dealt, b),
                    mid[b], b)
        BY <1>3, <2>6, <3>1, <3>2, <3>3, <3>4, <3>5, PartFollows
      <3>7. session' = t /\ r = mid[b]
        BY <1>1, <2>3
      <3> QED BY <1>1, <3>6, <3>7 DEF FollowsOn
    <2> QED BY <2>4, <2>5, <2>6
  <1> QED BY <1>4, <1>5, <1>6

\* USER_LEFT
LEMMA UserLeftFollowed ==
  ASSUME Played, Typed, Played', NEW c \in Clients, HandleUserLeft(c),
         NEW b \in Bots, bot[b].pc = "running"
  PROVE  FollowsOn(b)
  <1> DEFINE i == Index(session, c)
             h == [session EXCEPT !.hand[i] = NoHand]
             x == Withdraw(h, i, TRUE)
             m == MakeObserver(session, c, TRUE)
             t == [m EXCEPT !.is_connected[i] = FALSE]
             out == inbox'
  <1>1. dealt' = dealt
    BY DEF HandleUserLeft, Becomes
  <1>2. /\ Member(session, c) =>
             /\ session' = AfterUserLeft(session, c, TRUE)
             /\ Spread(inbox, inbox', DueWithout(h, i), x)
        /\ ~Member(session, c) => inbox' = inbox /\ session' = session
    BY UserLeftTells
  <1>3. /\ Whole(session) /\ Sound(session) /\ DOMAIN session = AllFields
        /\ Members(session) /\ Equipped(session) /\ session.rules = DefaultRules
    BY SessionFound
  <1>4. CASE ~Member(session, c)
    BY <1>1, <1>2, <1>4, UnchangedFollowed
  <1>5. CASE Member(session, c) /\ \A k \in Slots : ~t.is_connected[k]
    <2> DEFINE z == [RemoveAll(t, TRUE) EXCEPT !.unregister_send = 1]
    <2>1. session' = z
      BY <1>2, <1>5 DEF AfterUserLeft
    <2>2. Members(m) /\ DOMAIN m = AllFields /\ Equipped(m)
      <3>1. Members(m) /\ Equipped(m)
        BY <1>3, <1>5, MakeObserverMembers, MakeObserverEquipped
      <3> HIDE DEF m
      <3> QED BY <3>1 DEF Equipped
    <2> HIDE DEF m, i
    <2>3. Frame(m, t, {"is_connected"}) /\ t.is_connected \in [Slots -> BOOLEAN]
          /\ t.unregister_send = m.unregister_send /\ t.id_creator = m.id_creator
      BY <2>2 DEF Frame, Equipped, AllFields, MemberFields
    <2>4. Members(t)
      <3> HIDE DEF t
      <3> QED BY <2>2, <2>3, MembersFrame DEF MemberFields
    <2>5. Equipped(t)
      <3> HIDE DEF t
      <3>1. t.unregister_send \in {0, 1} /\ t.id_creator \in Clients \cup {NoClient}
        BY <2>2, <2>3 DEF Equipped
      <3> QED BY <2>2, <2>3, <3>1, EquippedFlags
    <2> HIDE DEF t
    <2> DEFINE e == RemoveAll(t, TRUE)
    <2>6. Empty(e) /\ DOMAIN e = DOMAIN t
      BY <2>4, <2>5, RemoveAllWho, RemoveAllMembers
    <2> HIDE DEF e
    <2>7. z = [e EXCEPT !.unregister_send = 1]
      BY DEF e
    <2>8. z.role = e.role /\ z.player_id = e.player_id
      <3>1. DOMAIN e = AllFields
        BY <2>5, <2>6 DEF Equipped
      <3> HIDE DEF z
      <3> QED BY <2>7, <3>1 DEF AllFields, MemberFields
    <2>9. ~Member(z, b)
      BY <2>6, <2>8, OneRuleBook DEF Empty, Member
    <2>10. ~PlaysIn(session', b)
      BY <2>1, <2>9 DEF PlaysIn
    <2> QED BY <2>10, VacuousFollowed
  <1>6. CASE Member(session, c) /\ \E k \in Slots : t.is_connected[k]
    <2>1. session' = t /\ Spread(inbox, out, DueWithout(h, i), x)
      BY <1>2, <1>6 DEF AfterUserLeft
    <2>2. i \in Slots /\ session.player_id[i] = c
      BY <1>6, MemberSlot
    <2>3. Members(m) /\ DOMAIN m = AllFields
      BY <1>3, <1>6, MakeObserverMembers, MakeObserverEquipped DEF Equipped
    <2>4. Frame(m, t, {"is_connected"}) /\ DOMAIN t = AllFields
      <3> HIDE DEF m, i
      <3> QED BY <2>3 DEF Frame
    <2>5. h.role = session.role /\ h.rules = session.rules /\ h.game_state = session.game_state
          /\ DOMAIN h = AllFields
      BY <1>3 DEF AllFields, GameFields, MemberFields
    <2>6. CASE session.role[i] = "OBSERVER"
      <3>1. m = session
        BY <2>6 DEF MakeObserver
      <3>2. ~DueWithout(h, i)
        BY <2>5, <2>6 DEF DueWithout
      <3> HIDE DEF h, x, i
      <3>3. out[b] = inbox[b]
        BY <2>1, <3>2 DEF Spread
      <3> HIDE DEF m, t
      <3>4. /\ t.role = session.role /\ t.player_id = session.player_id
            /\ t.ready = session.ready /\ t.hand = session.hand
            /\ t.board = session.board /\ t.heads = session.heads /\ t.rules = session.rules
            /\ t.game_state = session.game_state
            /\ t.extra_wait_from = session.extra_wait_from
        BY <2>3, <2>4, <3>1 DEF Frame, AllFields, GameFields, MemberFields
      <3>5. Member(t, b) = Member(session, b) /\ Index(t, b) = Index(session, b)
        BY <3>4 DEF Member, Index
      <3>6. AlikeFor(session, t, b)
        BY <3>4, <3>5 DEF AlikeFor, SameBoard, PlaysIn
      <3>7. AlikeFor(session, session', b) /\ inbox'[b] = inbox[b]
        BY <2>1, <3>3, <3>6
      <3> QED BY <1>1, <3>7, StaysFollowed
    <2>7. CASE ~On(session)
      <3>1. Continues(session, AfterUserLeft(session, c, TRUE))
        BY <1>3, <1>6, AfterUserLeftContinues
      <3>2. ~On(session')
        BY <1>2, <1>6, <2>7, <3>1 DEF Continues
      <3> QED BY <3>2, VacuousFollowed
    <2>8. CASE session.role[i] = "PLAYER" /\ On(session) /\ b = c
      <3>1. m = [Withdraw([session EXCEPT !.hand[i] = NoHand, !.room[i] = 0], i, TRUE)
                   EXCEPT !.role[i] = "OBSERVER"]
        BY <2>8 DEF MakeObserver
      <3> DEFINE g == [session EXCEPT !.hand[i] = NoHand, !.room[i] = 0]
                 u == Withdraw(g, i, TRUE)
      <3>2. DOMAIN g = AllFields /\ g.role = session.role /\ g.player_id = session.player_id
        BY <1>3 DEF AllFields, GameFields, MemberFields
      <3> HIDE DEF g
      <3>3. Frame(g, u, GameFields \cup {"active_players"})
        BY <3>2, WithdrawFrame DEF AllFields, MemberFields
      <3> HIDE DEF u
      <3>4. DOMAIN u = AllFields /\ u.role = session.role /\ u.player_id = session.player_id
        BY <3>2, <3>3 DEF Frame, AllFields, MemberFields, GameFields
      <3>5. m = [u EXCEPT !.role[i] = "OBSERVER"]
        BY <3>1 DEF u, g
      <3> HIDE DEF m
      <3>6. m.role = [session.role EXCEPT ![i] = "OBSERVER"] /\ m.player_id = session.player_id
        BY <3>4, <3>5 DEF AllFields, MemberFields
      <3> HIDE DEF t
      <3>7. t.role = m.role /\ t.player_id = m.player_id
        BY <2>3, <2>4 DEF Frame, AllFields, MemberFields
      <3>8. session.role \in [Slots -> Roles]
        BY <1>3 DEF Members
      <3>9. \A k \in Slots : session.role[k] # "NONE" <=> t.role[k] # "NONE"
        <4>1. session.role[i] # "NONE"
          BY <2>8
        <4> QED BY <2>2, <3>6, <3>7, <3>8, <4>1
      <3>10. Index(t, b) = i
        BY <2>8, <3>6, <3>7, <3>9 DEF Index, i
      <3>11. t.role[i] = "OBSERVER"
        <4> HIDE DEF i
        <4> QED BY <2>2, <3>6, <3>7, <3>8
      <3>12. ~PlaysIn(t, b)
        BY <3>10, <3>11 DEF PlaysIn
      <3>13. ~PlaysIn(session', b)
        BY <2>1, <3>12
      <3> QED BY <3>13, VacuousFollowed
    <2>9. CASE session.role[i] = "PLAYER" /\ On(session) /\ b # c
      <3>1. AlikeFor(x, t, b)
        BY <1>3, <1>6, <2>4, <2>9, OneRuleBook, ObserverAlike
      <3>2. MayPart(h, i, Playing(session) \ {i})
        <4> HIDE DEF i
        <4> QED BY <1>3, <2>2, <2>9, FreedMayPart
      <3>3. AlikeFor(session, Left(h, i), b)
        <4>1. session.ready = [k \in Slots |-> session.ready[k]]
              /\ session.hand = [k \in Slots |-> session.hand[k]]
          BY <1>3 DEF Sound, Formed, ReadyCards
        <4>2. h \in {session, [session EXCEPT !.hand[i] = NoHand]}
          OBVIOUS
        <4> HIDE DEF h, i
        <4>3. session.player_id[i] # b
          BY <2>2, <2>9
        <4>4. h \in {session, [session EXCEPT !.hand[i] = NoHand]}
          BY <4>2
        <4> QED BY <1>3, <2>2, <4>1, <4>3, <4>4, LeftAlike
      <3>4. Hands /\ On(h) /\ h.rules = DefaultRules /\ h.role[i] = "PLAYER"
        BY <1>3, <2>5, <2>9 DEF Typed, On
      <3>5. Spread(inbox, out, DueWithout(h, i), Withdraw(h, i, TRUE))
            /\ AlikeFor(Withdraw(h, i, TRUE), t, b)
        BY <2>1, <3>1
      <3> HIDE DEF h, i, t, out, x
      <3>6. Follows(session, HandIn(session, dealt, b), inbox[b], t, HandIn(t, dealt, b),
                    out[b], b)
        BY <3>2, <3>3, <3>4, <3>5, PartFollows
      <3> QED BY <1>1, <2>1, <3>6 DEF FollowsOn, out
    <2>10. session.role[i] \in {"PLAYER", "OBSERVER"}
      BY <1>3, <1>6, IndexIs
    <2> QED BY <2>6, <2>7, <2>8, <2>9, <2>10
  <1> QED BY <1>4, <1>5, <1>6

\* Every message is followed by the bots that run.
LEMMA SessionFollowed ==
  ASSUME Played, Typed, Played', SessionThread, NEW b \in Bots, bot[b].pc = "running"
  PROVE  FollowsOn(b)
  <1>1. \/ \E c \in Clients : HandleJoin(c)
        \/ \E c \in Clients : HandleInfoReturn(c)
        \/ \E c \in Clients : HandleResponseExtra(c)
        \/ \E c \in Clients : HandleLeave(c)
        \/ \E c \in Clients : HandleUserLeft(c)
        \/ HandleAddBot \/ HandleStart \/ HandleClose \/ SessionEmpties
    BY DEF SessionThread
  <1> QED BY <1>1, JoinFollowed, InfoReturnFollowed, ResponseExtraFollowed, LeaveFollowed,
             UserLeftFollowed, StartFollowed, CloseFollowed, RestFollowed

-----------------------------------------------------------------------------
(* Strangers *)

\* What waits for a bot waits on, and one that is not in the session is told
\* nothing.
Longer(q, r) ==
  r = q \/ (\E p : r = Append(q, p)) \/ (\E p, x : r = Append(Append(q, p), x))
PassesBy(b) ==
  ~Member(session, b) => ~Member(session', b) /\ inbox'[b] = inbox[b]

\* Who is told of a round is in the session.
LEMMA ToldAreMembers ==
  ASSUME NEW x, Sound(x), NEW P, P \subseteq Seated(x), InPlay(x, P), NEW b, Told(x, b)
  PROVE  Member(x, b)
  <1>1. CASE x.game_state # "WAITING_EXTRA"
    BY <1>1 DEF Told
  <1>2. CASE x.game_state = "WAITING_EXTRA"
    <2>1. Blocked(x) /\ x.player_id[LowestSlot(x)] = x.extra_wait_from /\ Waiting(x) \subseteq P
      BY <1>2, TableAssumption DEF InPlay, On, Counted, Asked
    <2>2. LowestSlot(x) \in Waiting(x)
      <3>1. Waiting(x) # {}
        BY <2>1 DEF Blocked
      <3>2. x.ready \in ReadyCards(x) /\ Deck(x) \subseteq Nat
        BY SlotsAndRows DEF Sound, Formed
      <3>3. \A i \in Waiting(x) : x.ready[i] \in Nat
        BY <3>2 DEF Waiting, ReadyCards
      <3> QED BY <3>1, <3>3, LowestSlotIs
    <2>3. b = x.extra_wait_from
      BY <1>2 DEF Told
    <2> DEFINE i == LowestSlot(x)
    <2>4. i \in Slots /\ x.role[i] = "PLAYER" /\ x.player_id[i] = b
      BY <2>1, <2>2, <2>3 DEF Seated, Playing, Waiting
    <2> HIDE DEF i
    <2> QED BY <2>4 DEF Member
  <1> QED BY <1>1, <1>2

\* A round of a session that has the members of this one.
LEMMA SpreadPasses ==
  ASSUME NEW x, Sound(x), NEW P, P \subseteq Seated(x), InPlay(x, P),
         x.role = session.role, x.player_id = session.player_id,
         NEW due, NEW in, NEW out, Spread(in, out, due, x), NEW b \in Bots
  PROVE  /\ Longer(in[b], out[b])
         /\ ~Member(session, b) => ~Member(x, b) /\ out[b] = in[b]
  <1>1. out[b] = IF due /\ bot[b].pc = "running" /\ Told(x, b)
                 THEN Append(in[b], Telling(x, b)) ELSE in[b]
    BY DEF Spread
  <1>2. Member(x, b) <=> Member(session, b)
    BY DEF Member
  <1>3. Longer(in[b], out[b])
    <2> DEFINE p == Telling(x, b)
    <2>1. out[b] = in[b] \/ out[b] = Append(in[b], p)
      BY <1>1
    <2> HIDE DEF p
    <2> QED BY <2>1 DEF Longer
  <1>4. ~Member(session, b) => ~Told(x, b)
    BY <1>2, ToldAreMembers
  <1> QED BY <1>1, <1>2, <1>3, <1>4

\* PKT_SESSION_JOIN
LEMMA JoinPasses ==
  ASSUME Played, Typed, Played', NEW c \in Clients, HandleJoin(c), NEW b \in Bots
  PROVE  Longer(inbox[b], inbox'[b]) /\ (c # b => PassesBy(b))
  <1>1. \/ inbox'[b] = inbox[b]
        \/ inbox'[b] = Append(Append(inbox[b], State(session')), Info(session', c))
        \/ inbox'[b] = Append(inbox[b], State(session'))
        \/ inbox'[b] = Append(inbox[b], Packet("ERROR"))
    BY JoinTells
  <1>2. Longer(inbox[b], inbox'[b])
    <2> DEFINE p == State(session')
               r == Info(session', c)
               e == Packet("ERROR")
               q == inbox'[b]
    <2>1. \/ q = inbox[b] \/ q = Append(Append(inbox[b], p), r)
          \/ q = Append(inbox[b], p) \/ q = Append(inbox[b], e)
      BY <1>1
    <2> HIDE DEF p, r, e, q
    <2>2. Longer(inbox[b], q)
      BY <2>1 DEF Longer
    <2> QED BY <2>2 DEF q
  <1>3. ASSUME c # b PROVE PassesBy(b)
    <2>1. inbox'[b] = inbox[b]
      BY <1>3, JoinTells
    <2>2. CASE ~Admissible(session, c)
      <3>1. session' = session
        BY <2>2 DEF HandleJoin, Becomes
      <3> QED BY <2>1, <3>1 DEF PassesBy
    <2>3. CASE Admissible(session, c)
      <3>1. session' = AfterJoin(session, c)
        BY <2>3 DEF HandleJoin, Becomes
      <3> DEFINE t == AfterJoin(session, c)
      <3>2. Member(t, b) <=> Member(session, b) \/ b = c
        BY <2>3, SessionFound, OneRuleBook, AfterJoinWho
      <3> HIDE DEF t
      <3>3. ~Member(session, b) => ~Member(t, b)
        BY <1>3, <3>2
      <3> QED BY <2>1, <3>1, <3>3 DEF PassesBy, t
    <2> QED BY <2>2, <2>3
  <1> QED BY <1>2, <1>3

\* PKT_SESSION_INFO_RETURN
LEMMA InfoReturnPasses ==
  ASSUME Played, Typed, Played', NEW c \in Clients, HandleInfoReturn(c), NEW b \in Bots
  PROVE  Longer(inbox[b], inbox'[b]) /\ PassesBy(b)
  <1> DEFINE i == Index(session, c)
             card == CardAt(session, i, Head(toSession).arg)
             s == GivenCard(session, i, card)
  <1>1. \/ Faults
        \/ session' = StartMove(s, TRUE) /\ Spread(inbox, inbox', Due(s), session')
        \/ session' = StartMove(session, TRUE)
           /\ Spread(inbox, inbox', Due(session), session')
    BY InfoReturnTells
  <1>2. DOMAIN session = AllFields
    BY SessionFound
  <1>3. Whole(session') /\ Seated(session') = Playing(session') /\ Sound(session')
        /\ InPlay(session', Playing(session'))
    <2> DEFINE x == session'
    <2>1. Whole(x)
      BY DEF Played, GameInv
    <2> HIDE DEF x
    <2>2. Whole(x) /\ Seated(x) = Playing(x) /\ Sound(x) /\ InPlay(x, Playing(x))
      BY <2>1, PlayersSeated DEF Whole
    <2> QED BY <2>2 DEF x
  <1>4. CASE Faults
    BY <1>4 DEF Faults, PassesBy, Longer
  <1>5. ASSUME NEW g, g.role = session.role, g.player_id = session.player_id,
               DOMAIN g = AllFields,
               session' = StartMove(g, TRUE), Spread(inbox, inbox', Due(g), session')
        PROVE  Longer(inbox[b], inbox'[b]) /\ PassesBy(b)
    <2> DEFINE x == session'
               out == inbox'
               due == Due(g)
    <2>1. Frame(g, x, GameFields)
      BY <1>5, StartMoveFrame
    <2>2. Sound(x) /\ Playing(x) \subseteq Seated(x) /\ InPlay(x, Playing(x))
          /\ Spread(inbox, out, due, x)
      BY <1>3, <1>5
    <2> HIDE DEF x, out, due
    <2>3. x.role = session.role /\ x.player_id = session.player_id
      BY <1>5, <2>1 DEF Frame, AllFields, MemberFields, GameFields
    <2>4. /\ Longer(inbox[b], out[b])
          /\ ~Member(session, b) => ~Member(x, b) /\ out[b] = inbox[b]
      BY <2>2, <2>3, SpreadPasses
    <2> QED BY <2>4 DEF PassesBy, x, out
  <1>6. CASE session' = StartMove(s, TRUE) /\ Spread(inbox, inbox', Due(s), session')
    <2>1. s.role = session.role /\ s.player_id = session.player_id /\ DOMAIN s = AllFields
      <3> HIDE DEF i, card
      <3> QED BY <1>2 DEF GivenCard, AllFields, MemberFields, GameFields
    <2> HIDE DEF s
    <2> QED BY <1>5, <1>6, <2>1
  <1>7. CASE session' = StartMove(session, TRUE)
             /\ Spread(inbox, inbox', Due(session), session')
    BY <1>2, <1>5, <1>7
  <1> HIDE DEF s
  <1> QED BY <1>1, <1>4, <1>6, <1>7

\* PKT_RESPONSE_EXTRA
LEMMA ResponseExtraPasses ==
  ASSUME Played, Typed, Played', NEW c \in Clients, HandleResponseExtra(c), NEW b \in Bots
  PROVE  Longer(inbox[b], inbox'[b]) /\ (c # b => PassesBy(b))
  <1> DEFINE row == Head(toSession).arg
             y == TakeLine(session, row, Index(session, c))
  <1>1. \/ session' = session /\ inbox' = inbox
        \/ /\ session' = session
           /\ inbox'[b] = IF b = c /\ bot[b].pc = "running"
                          THEN Append(inbox[b], Packet("ERROR")) ELSE inbox[b]
        \/ session' = Resolve(y, TRUE) /\ Spread(inbox, inbox', TRUE, session')
    BY ResponseExtraTells
  <1>2. CASE session' = session /\ inbox' = inbox
    BY <1>2 DEF PassesBy, Longer
  <1>3. CASE /\ session' = session
             /\ inbox'[b] = IF b = c /\ bot[b].pc = "running"
                            THEN Append(inbox[b], Packet("ERROR")) ELSE inbox[b]
    <2> DEFINE p == Packet("ERROR")
    <2>1. inbox'[b] = inbox[b] \/ inbox'[b] = Append(inbox[b], p)
      BY <1>3
    <2> HIDE DEF p
    <2>2. Longer(inbox[b], inbox'[b])
      BY <2>1 DEF Longer
    <2> QED BY <1>3, <2>2 DEF PassesBy
  <1>4. CASE session' = Resolve(y, TRUE) /\ Spread(inbox, inbox', TRUE, session')
    <2> DEFINE x == session'
               out == inbox'
    <2>1. Whole(x) /\ x = Resolve(y, TRUE) /\ Spread(inbox, out, TRUE, x)
      BY <1>4 DEF Played, GameInv
    <2>2. DOMAIN session = AllFields
      BY SessionFound
    <2>3. Frame(session, y, {"board", "ready", "nb_head"})
      BY TakeLineFrame
    <2> HIDE DEF x, out, y
    <2>4. Frame(y, x, GameFields)
      BY <2>1, ResolveFrame
    <2>5. x.role = session.role /\ x.player_id = session.player_id
      BY <2>2, <2>3, <2>4 DEF Frame, AllFields, MemberFields, GameFields
    <2>6. Sound(x) /\ Playing(x) \subseteq Seated(x) /\ InPlay(x, Playing(x))
      BY <2>1, PlayersSeated DEF Whole
    <2> DEFINE P == Playing(x)
               due == TRUE
    <2>7. Spread(inbox, out, due, x) /\ P \subseteq Seated(x) /\ InPlay(x, P)
      BY <2>1, <2>6
    <2> HIDE DEF P, due
    <2>8. /\ Longer(inbox[b], out[b])
          /\ ~Member(session, b) => ~Member(x, b) /\ out[b] = inbox[b]
      BY <2>5, <2>6, <2>7, SpreadPasses
    <2> QED BY <2>8 DEF PassesBy, x, out
  <1> QED BY <1>1, <1>2, <1>3, <1>4

\* The session that a player leaves to the others.
LEMMA WithdrawnIs ==
  ASSUME NEW h, DOMAIN h = AllFields, NEW i, NEW P, MayPart(h, i, P)
  PROVE  LET x == Withdraw(h, i, TRUE)
         IN  /\ Sound(x) /\ InPlay(x, P) /\ P \subseteq Seated(x)
             /\ x.role = h.role /\ x.player_id = h.player_id
  <1> DEFINE x == Withdraw(h, i, TRUE)
  <1>1. Sound(x) /\ InPlay(x, P)
    BY OneRuleBook, WithdrawSound
  <1>2. Frame(h, x, GameFields \cup {"active_players"})
    BY WithdrawFrame DEF AllFields, MemberFields
  <1> HIDE DEF x
  <1>3. x.role = h.role /\ x.player_id = h.player_id
    BY <1>2 DEF Frame, AllFields, MemberFields, GameFields
  <1>4. P \subseteq Seated(x)
    BY <1>3 DEF MayPart, Seated, Playing, Occupied, Free
  <1> QED BY <1>1, <1>3, <1>4 DEF x

\* PKT_SESSION_LEAVE
LEMMA LeavePasses ==
  ASSUME Played, Typed, NEW c \in Clients, HandleLeave(c), NEW b \in Bots
  PROVE  Longer(inbox[b], inbox'[b]) /\ (c # b => PassesBy(b))
  <1> DEFINE i == Index(session, c)
             mid == AfterWithdraw(inbox, session, c)
             t == RemovePlayer(session, c, TRUE)
  <1>1. session' = t
    BY DEF HandleLeave, Becomes
  <1>2. /\ inbox'[b] = IF b = c /\ bot[b].pc = "running"
                       THEN Append(mid[b], Packet("SESSION_END")) ELSE mid[b]
        /\ Member(session, c) =>
             Spread(inbox, mid, DueWithout(session, i), Withdraw(session, i, TRUE))
        /\ ~Member(session, c) => mid = inbox
    BY LeaveTells
  <1>3. /\ Whole(session) /\ DOMAIN session = AllFields /\ Members(session)
        /\ Equipped(session)
    BY SessionFound
  <1>4. /\ \/ mid[b] = inbox[b]
           \/ \E p : mid[b] = Append(inbox[b], p)
        /\ ~Member(session, b) => mid[b] = inbox[b]
    <2>1. CASE ~Member(session, c)
      BY <1>2, <2>1
    <2>2. CASE Member(session, c)
      <3> DEFINE P == Playing(session) \ {i}
      <3>1. session.role[i] = "PLAYER" => MayPart(session, i, P)
        BY <1>3, <2>2, MemberSlot, PlayerMayPart
      <3>2. Spread(inbox, mid, DueWithout(session, i), Withdraw(session, i, TRUE))
        BY <1>2, <2>2
      <3> HIDE DEF P, i, mid
      <3>3. ~Member(session, b) => mid[b] = inbox[b]
        <4>1. CASE session.role[i] = "PLAYER"
          <5>1. MayPart(session, i, P)
            BY <3>1, <4>1
          <5> DEFINE x == Withdraw(session, i, TRUE)
                     due == DueWithout(session, i)
          <5>2. /\ Sound(x) /\ InPlay(x, P) /\ P \subseteq Seated(x)
                /\ x.role = session.role /\ x.player_id = session.player_id
            BY <1>3, <5>1, WithdrawnIs
          <5>3. Spread(inbox, mid, due, x)
            BY <3>2
          <5> HIDE DEF x, due
          <5> QED BY <5>2, <5>3, SpreadPasses
        <4>2. CASE session.role[i] # "PLAYER"
          <5>1. ~DueWithout(session, i)
            BY <4>2 DEF DueWithout
          <5> QED BY <3>2, <5>1 DEF Spread
        <4> QED BY <4>1, <4>2
      <3>4. mid[b] = inbox[b] \/ mid[b] = Append(inbox[b], Telling(Withdraw(session, i, TRUE), b))
        BY <3>2 DEF Spread
      <3> QED BY <3>3, <3>4
    <2> QED BY <2>1, <2>2
  <1>5. Longer(inbox[b], inbox'[b])
    <2> DEFINE e == Packet("SESSION_END")
               out == inbox'[b]
    <2>1. out = Append(mid[b], e) \/ out = mid[b]
      BY <1>2
    <2> HIDE DEF e, mid, out
    <2>2. Longer(inbox[b], out)
      BY <1>4, <2>1 DEF Longer
    <2> QED BY <2>2 DEF out
  <1>6. ASSUME c # b PROVE PassesBy(b)
    <2>1. inbox'[b] = mid[b]
      BY <1>2, <1>6
    <2>2. Without(session, t, {c})
      BY <1>3, RemovePlayerWho
    <2>3. ~Member(session, b) => ~Member(t, b)
      BY <2>2, OneRuleBook DEF Without
    <2> HIDE DEF mid, t
    <2> QED BY <1>1, <1>4, <2>1, <2>3 DEF PassesBy
  <1> QED BY <1>5, <1>6

\* USER_LEFT
LEMMA UserLeftPasses ==
  ASSUME Played, Typed, NEW c \in Clients, HandleUserLeft(c), NEW b \in Bots
  PROVE  Longer(inbox[b], inbox'[b]) /\ PassesBy(b)
  <1> DEFINE i == Index(session, c)
             h == [session EXCEPT !.hand[i] = NoHand]
             out == inbox'
  <1>1. /\ Whole(session) /\ DOMAIN session = AllFields /\ Members(session)
        /\ Equipped(session)
    BY SessionFound
  <1>2. CASE ~Member(session, c)
    <2>1. inbox' = inbox /\ session' = session
      BY <1>2, UserLeftTells
    <2> QED BY <2>1 DEF PassesBy, Longer
  <1>3. CASE Member(session, c)
    <2> DEFINE t == AfterUserLeft(session, c, TRUE)
               P == Playing(session) \ {i}
    <2>1. session' = t /\ Spread(inbox, out, DueWithout(h, i), Withdraw(h, i, TRUE))
      BY <1>3, UserLeftTells
    <2>2. i \in Slots
      BY <1>3, MemberSlot
    <2>3. h.role = session.role /\ h.player_id = session.player_id /\ DOMAIN h = AllFields
      BY <1>1 DEF AllFields, MemberFields, GameFields
    <2>4. session.role[i] = "PLAYER" => MayPart(h, i, P)
      <3> HIDE DEF i
      <3> QED BY <1>1, <2>2, FreedMayPart
    <2>5. h.role[i] = "PLAYER" => MayPart(h, i, P)
      BY <2>3, <2>4
    <2>6. Without(session, t, {}) \/ Empty(t)
      BY <1>1, <1>3, AfterUserLeftWho
    <2>7. ~Member(session, b) => ~Member(t, b)
      <3> HIDE DEF t
      <3> QED BY <2>6, OneRuleBook DEF Without, Empty
    <2> HIDE DEF h, i, P, out, t
    <2>8. Longer(inbox[b], out[b]) /\ (~Member(session, b) => out[b] = inbox[b])
      <3>1. CASE h.role[i] = "PLAYER"
        <4>1. MayPart(h, i, P)
          BY <2>5, <3>1
        <4> DEFINE x == Withdraw(h, i, TRUE)
                   due == DueWithout(h, i)
        <4>2. /\ Sound(x) /\ InPlay(x, P) /\ P \subseteq Seated(x)
              /\ x.role = session.role /\ x.player_id = session.player_id
          BY <2>3, <4>1, WithdrawnIs
        <4>3. Spread(inbox, out, due, x)
          BY <2>1
        <4> HIDE DEF x, due
        <4> QED BY <4>2, <4>3, SpreadPasses
      <3>2. CASE h.role[i] # "PLAYER"
        <4>1. ~DueWithout(h, i)
          BY <3>2 DEF DueWithout
        <4>2. out[b] = inbox[b]
          BY <2>1, <4>1 DEF Spread
        <4> QED BY <4>2 DEF Longer
      <3> QED BY <3>1, <3>2
    <2> QED BY <2>1, <2>7, <2>8 DEF PassesBy, out
  <1> QED BY <1>2, <1>3

\* PKT_START_SESSION
LEMMA StartPasses ==
  ASSUME Played, Typed, Played', HandleStart, NEW b \in Bots
  PROVE  Longer(inbox[b], inbox'[b]) /\ PassesBy(b)
  <1>1. CASE Human # session.id_creator
    <2>1. inbox' = inbox /\ session' = session
      BY <1>1, StartTells
    <2> QED BY <2>1 DEF PassesBy, Longer
  <1>2. CASE Human = session.id_creator
    <2> DEFINE p == [Info(session', b) EXCEPT !.hand = dealt'[Index(session', b)]]
               q == inbox'[b]
    <2>1. q = IF bot[b].pc = "running" /\ Member(session', b)
              THEN Append(inbox[b], p) ELSE inbox[b]
      BY <1>2, StartTells
    <2> HIDE DEF p, q
    <2>2. Longer(inbox[b], q)
      BY <2>1 DEF Longer
    <2>3. Member(session', b) <=> Member(session, b)
      <3>1. PICK shuffle \in Shuffles : session' = Deal(session, shuffle)
        BY <1>2 DEF HandleStart
      <3> DEFINE t == Deal(session, shuffle)
      <3>2. t.role = session.role /\ t.player_id = session.player_id
        BY SessionFound DEF Deal, AllFields, MemberFields, GameFields
      <3> HIDE DEF t
      <3>3. Member(t, b) <=> Member(session, b)
        BY <3>2 DEF Member
      <3> QED BY <3>1, <3>3 DEF t
    <2>4. ~Member(session, b) => q = inbox[b]
      BY <2>1, <2>3
    <2> QED BY <2>2, <2>3, <2>4 DEF PassesBy, q
  <1> QED BY <1>1, <1>2

\* PKT_SESSION_CLOSE, PKT_ADD_BOT, and the end of a batch.
LEMMA RestPasses ==
  ASSUME Played, Typed, HandleClose \/ HandleAddBot \/ SessionEmpties, NEW b \in Bots
  PROVE  Longer(inbox[b], inbox'[b]) /\ PassesBy(b)
  <1>1. CASE HandleClose
    <2> DEFINE p == Packet("SESSION_END")
    <2>1. CASE Human = session.id_creator
      <3>1. /\ session' = AfterClose(session, TRUE)
            /\ inbox'[b] = IF bot[b].pc = "running" /\ Member(session, b)
                           THEN Append(inbox[b], p) ELSE inbox[b]
        BY <1>1, <2>1, CloseTells
      <3>2. Empty(AfterClose(session, TRUE))
        BY SessionFound, AfterCloseWho
      <3>3. ~Member(session', b)
        BY <3>1, <3>2, OneRuleBook DEF Empty
      <3> HIDE DEF p
      <3> QED BY <3>1, <3>3 DEF PassesBy, Longer
    <2>2. CASE Human # session.id_creator
      <3>1. session' = session /\ inbox' = inbox
        BY <1>1, <2>2, CloseTells
      <3> QED BY <3>1 DEF PassesBy, Longer
    <2> QED BY <2>1, <2>2
  <1>2. CASE HandleAddBot
    <2>1. session' = session /\ inbox' = inbox
      BY <1>2 DEF HandleAddBot, vars
    <2> QED BY <2>1 DEF PassesBy, Longer
  <1>3. CASE SessionEmpties
    <2> DEFINE t == [session EXCEPT !.unregister_send = 1]
    <2>1. session' = t /\ inbox' = inbox
      BY <1>3 DEF SessionEmpties, EndOfBatch
    <2>2. t.role = session.role /\ t.player_id = session.player_id
      BY SessionFound DEF AllFields, MemberFields, GameFields
    <2> HIDE DEF t
    <2>3. Member(t, b) <=> Member(session, b)
      BY <2>2 DEF Member
    <2> QED BY <2>1, <2>3 DEF PassesBy, Longer
  <1> QED BY <1>1, <1>2, <1>3

\* The session's thread takes the first message, or none; and passes by a bot that is
\* not in the session, unless the message is its own.
LEMMA SessionPasses ==
  ASSUME Played, Typed, Played', SessionThread, NEW b \in Bots
  PROVE  /\ Longer(inbox[b], inbox'[b])
         /\ \/ toSession' = toSession /\ PassesBy(b)
            \/ /\ toSession # << >> /\ toSession' = Tail(toSession)
               /\ Head(toSession).user # b => PassesBy(b)
  <1>1. ASSUME NEW c \in Clients,
               HandleJoin(c) \/ HandleInfoReturn(c) \/ HandleResponseExtra(c)
                 \/ HandleLeave(c) \/ HandleUserLeft(c)
        PROVE  /\ Longer(inbox[b], inbox'[b])
               /\ toSession # << >> /\ toSession' = Tail(toSession)
               /\ Head(toSession).user # b => PassesBy(b)
    <2>1. toSession # << >> /\ toSession' = Tail(toSession) /\ Head(toSession).user = c
      BY <1>1 DEF HandleJoin, HandleInfoReturn, HandleResponseExtra, HandleLeave,
                  HandleUserLeft, Take
    <2>2. Longer(inbox[b], inbox'[b]) /\ (c # b => PassesBy(b))
      BY <1>1, JoinPasses, InfoReturnPasses, ResponseExtraPasses, LeavePasses,
         UserLeftPasses
    <2> QED BY <2>1, <2>2
  <1>2. ASSUME HandleAddBot \/ HandleStart \/ HandleClose
        PROVE  /\ Longer(inbox[b], inbox'[b]) /\ PassesBy(b)
               /\ toSession # << >> /\ toSession' = Tail(toSession)
    <2>1. toSession # << >> /\ toSession' = Tail(toSession)
      BY <1>2 DEF HandleAddBot, HandleStart, HandleClose, Take
    <2>2. Longer(inbox[b], inbox'[b]) /\ PassesBy(b)
      BY <1>2, StartPasses, RestPasses
    <2> QED BY <2>1, <2>2
  <1>3. ASSUME SessionEmpties
        PROVE  Longer(inbox[b], inbox'[b]) /\ PassesBy(b) /\ toSession' = toSession
    <2>1. toSession' = toSession
      BY <1>3 DEF SessionEmpties
    <2> QED BY <1>3, <2>1, RestPasses
  <1>4. \/ \E c \in Clients : HandleJoin(c) \/ HandleInfoReturn(c) \/ HandleResponseExtra(c)
                                \/ HandleLeave(c) \/ HandleUserLeft(c)
        \/ HandleAddBot \/ HandleStart \/ HandleClose \/ SessionEmpties
    BY DEF SessionThread
  <1> QED BY <1>1, <1>2, <1>3, <1>4

-----------------------------------------------------------------------------
(* What holds of a bot at any time *)

\* The only message under way from b is the one by which it joins.
OnlyJoins(m, b) ==
  \A j, k \in DOMAIN m : m[j].user = b /\ m[k].user = b => j = k /\ m[j].type = "JOIN"

\* A bot that has not been started is unknown to the session; one that runs asks to
\* join, and has nothing to read before the answer, which it reads before all else;
\* and it is told what it must know to answer.
Joining(s, q, m, b) ==
  \/ q = << >> /\ ~Member(s, b) /\ OnlyJoins(m, b)
  \/ q # << >> /\ Head(q).type \in {"STATE", "ERROR"} /\ None(m, From(b))
Aware(s, d, q, m, w, b) ==
  /\ w.pc \in {"none", "forked"} => ~Member(s, b) /\ None(m, From(b))
  /\ w.pc = "running" /\ w.rules = NoRules => Joining(s, q, m, b)
  /\ w.pc = "running" => Informed(s, HandIn(s, d, b), q, m, w, b)
WellTold == \A b \in Bots : Aware(session, dealt, inbox[b], toSession, bot[b], b)

\* A message of another, taken or sent.
LEMMA OnlyJoinsOn ==
  ASSUME NEW M, NEW m \in Seq(M), NEW b, OnlyJoins(m, b)
  PROVE  /\ m # << >> => OnlyJoins(Tail(m), b)
         /\ m # << >> /\ Head(m).user = b =>
              Head(m).type = "JOIN" /\ \A k \in DOMAIN Tail(m) : Tail(m)[k].user # b
         /\ \A x : x.user # b => OnlyJoins(Append(m, x), b)
  <1>1. ASSUME m # << >> PROVE OnlyJoins(Tail(m), b)
    <2> DEFINE r == Tail(m)
    <2>1. \A k \in DOMAIN r : k \in Nat /\ k + 1 \in DOMAIN m /\ r[k] = m[k + 1]
      BY <1>1, QueueTail
    <2> HIDE DEF r
    <2>2. ASSUME NEW j \in DOMAIN r, NEW k \in DOMAIN r, r[j].user = b, r[k].user = b
          PROVE  j = k /\ r[j].type = "JOIN"
      <3>1. j + 1 = k + 1 /\ m[j + 1].type = "JOIN"
        BY <2>1, <2>2 DEF OnlyJoins
      <3> QED BY <2>1, <3>1
    <2>3. OnlyJoins(r, b)
      BY <2>2 DEF OnlyJoins
    <2> QED BY <2>3 DEF r
  <1>2. ASSUME m # << >>, Head(m).user = b
        PROVE  Head(m).type = "JOIN" /\ \A k \in DOMAIN Tail(m) : Tail(m)[k].user # b
    <2> DEFINE r == Tail(m)
               h == Head(m)
    <2>1. /\ 1 \in DOMAIN m /\ h = m[1]
          /\ \A k \in DOMAIN r : k \in Nat /\ k + 1 \in DOMAIN m /\ k + 1 # 1 /\ r[k] = m[k + 1]
      BY <1>2, QueueTail
    <2>2. h.user = b
      BY <1>2
    <2> HIDE DEF r, h
    <2>3. h.type = "JOIN" /\ \A k \in DOMAIN r : r[k].user # b
      BY <2>1, <2>2 DEF OnlyJoins
    <2> QED BY <2>3 DEF r, h
  <1>3. ASSUME NEW x, x.user # b PROVE OnlyJoins(Append(m, x), b)
    <2> DEFINE r == Append(m, x)
    <2>1. \A k \in DOMAIN r : \/ k \in DOMAIN m /\ r[k] = m[k]
                              \/ k = Len(m) + 1 /\ r[k] = x
      BY QueueAppend
    <2> HIDE DEF r
    <2>2. \A k \in DOMAIN r : r[k].user = b => k \in DOMAIN m /\ r[k] = m[k]
      BY <1>3, <2>1
    <2>3. OnlyJoins(r, b)
      BY <2>2 DEF OnlyJoins
    <2> QED BY <2>3 DEF r
  <1> QED BY <1>1, <1>2, <1>3

\* A longer queue has the same head.
LEMMA LongerHead ==
  ASSUME NEW M, NEW q \in Seq(M), NEW r, Longer(q, r), q # << >>
  PROVE  r # << >> /\ Head(r) = Head(q)
  <1>1. \A p : Append(q, p) # << >> /\ Head(Append(q, p)) = Head(q)
    <2> TAKE p
    <2> DEFINE t == Append(q, p)
    <2>1. t \in Seq(M \cup {p}) /\ Len(t) = Len(q) + 1 /\ t[1] = q[1]
      BY AppendProperties
    <2>2. Len(q) > 0
      BY EmptySeq
    <2> HIDE DEF t
    <2>3. t # << >>
      BY <2>1, <2>2
    <2> QED BY <2>1, <2>3 DEF t
  <1>2. \A p, x : Append(Append(q, p), x) # << >> /\ Head(Append(Append(q, p), x)) = Head(q)
    <2> TAKE p, x
    <2> DEFINE t == Append(q, p)
               u == Append(t, x)
    <2>1. t \in Seq(M \cup {p}) /\ t # << >> /\ Head(t) = Head(q)
      BY <1>1, AppendProperties
    <2> HIDE DEF t
    <2>2. u \in Seq(M \cup {p} \cup {x}) /\ Len(u) = Len(t) + 1 /\ u[1] = t[1]
      BY <2>1, AppendProperties
    <2>3. Len(t) > 0
      BY <2>1, EmptySeq
    <2> HIDE DEF u
    <2>4. u # << >> /\ Head(u) = Head(t)
      BY <2>1, <2>2, <2>3
    <2> QED BY <2>1, <2>4 DEF t, u
  <1> QED BY <1>1, <1>2 DEF Longer

\* The session's thread changes no bot's program but by starting it.
LEMMA SessionStarts ==
  ASSUME SessionThread, NEW b \in Bots, bot \in [Bots -> BotStates]
  PROVE  bot'[b] = bot[b] \/ (bot[b].pc = "none" /\ bot'[b].pc = "forked")
  <1>1. CASE HandleAddBot
    <2> DEFINE unused == {d \in Bots : bot[d].pc = "none"}
               new == CHOOSE new \in SUBSET unused : Cardinality(new) = Head(toSession).arg
               forked == [NewBot EXCEPT !.pc = "forked", !.level = Head(toSession).level]
    <2>1. bot' = bot \/ bot' = [d \in Bots |-> IF d \in new \cap unused THEN forked ELSE bot[d]]
      BY <1>1 DEF HandleAddBot
    <2>2. forked.pc = "forked"
      BY DEF NewBot
    <2> HIDE DEF new, forked
    <2> QED BY <2>1, <2>2
  <1>2. CASE ~HandleAddBot
    <2>1. bot' = bot
      BY <1>2 DEF SessionThread, HandleJoin, HandleInfoReturn, HandleResponseExtra, HandleLeave,
                  HandleUserLeft, HandleStart, HandleClose, SessionEmpties, Becomes, Faults,
                  clientVars
    <2> QED BY <2>1
  <1> QED BY <1>1, <1>2

\* What a JOIN is answered with comes first in an empty queue.
LEMMA JoinAnswered ==
  ASSUME Played, Typed, Played', NEW b \in Bots, HandleJoin(b), bot[b].pc = "running",
         inbox[b] = << >>
  PROVE  inbox'[b] # << >> /\ Head(inbox'[b]).type \in {"STATE", "ERROR"}
  <1> DEFINE p == State(session')
             r == Info(session', b)
             e == Packet("ERROR")
             q == inbox'[b]
  <1>1. b \in Clients
    BY OneRuleBook
  <1>2. \/ q = Append(Append(<< >>, p), r)
        \/ q = Append(<< >>, p)
        \/ q = Append(<< >>, e)
    BY <1>1, JoinTells
  <1>3. p.type = "STATE" /\ e.type = "ERROR"
    BY DEF State, Packet
  <1> HIDE DEF p, r, e, q
  <1>4. ASSUME NEW x
        PROVE  /\ Append(<< >>, x) \in Seq({x}) /\ Append(<< >>, x) # << >>
               /\ Head(Append(<< >>, x)) = x
    <2>1. Append(<< >>, x) = <<x>>
      OBVIOUS
    <2> QED BY <2>1
  <1> DEFINE t == Append(<< >>, p)
  <1>5. t \in Seq({p}) /\ t # << >> /\ Head(t) = p
    BY <1>4
  <1> HIDE DEF t
  <1>6. Append(t, r) # << >> /\ Head(Append(t, r)) = p
    BY <1>5, LongerHead DEF Longer
  <1>7. CASE q = Append(<< >>, e)
    BY <1>3, <1>4, <1>7 DEF q
  <1>8. CASE q = t \/ q = Append(t, r)
    BY <1>3, <1>5, <1>6, <1>8 DEF q
  <1> QED BY <1>2, <1>7, <1>8 DEF t

\* A session step of which the bot is told nothing, or its own JOIN.
LEMMA SessionJoining ==
  ASSUME Played, Typed, Played', SessionThread, NEW b \in Bots, bot[b].pc = "running",
         Joining(session, inbox[b], toSession, b)
  PROVE  Joining(session', inbox'[b], toSession', b)
  <1> DEFINE r == inbox'[b]
             n == toSession'
  <1>1. /\ Longer(inbox[b], r)
        /\ \/ n = toSession /\ PassesBy(b)
           \/ /\ toSession # << >> /\ n = Tail(toSession)
              /\ Head(toSession).user # b => PassesBy(b)
    BY SessionPasses
  <1>2. toSession \in Seq(ToSessionMessages) /\ inbox[b] \in Seq(Packets)
    BY DEF Typed, Boxed
  <1>3. CASE inbox[b] = << >> /\ ~Member(session, b) /\ OnlyJoins(toSession, b)
    <2>1. CASE PassesBy(b)
      <3>1. OnlyJoins(n, b)
        <4> HIDE DEF n
        <4> QED BY <1>1, <1>2, <1>3, OnlyJoinsOn
      <3> QED BY <1>3, <2>1, <3>1 DEF PassesBy, Joining
    <2>2. CASE toSession # << >> /\ n = Tail(toSession) /\ Head(toSession).user = b
      <3>1. Head(toSession).type = "JOIN" /\ \A k \in DOMAIN n : n[k].user # b
        <4> HIDE DEF n
        <4> QED BY <1>2, <1>3, <2>2, OnlyJoinsOn
      <3>2. None(n, From(b))
        BY <3>1 DEF None, From
      <3>3. CASE HandleJoin(b)
        <4>1. r # << >> /\ Head(r).type \in {"STATE", "ERROR"}
          BY <1>3, <3>3, JoinAnswered
        <4> QED BY <3>2, <4>1 DEF Joining
      <3>4. CASE ~HandleJoin(b)
        <4>1. SessionEmpties
          BY <2>2, <3>1, <3>4
             DEF SessionThread, HandleJoin, HandleInfoReturn, HandleResponseExtra, HandleLeave,
                 HandleUserLeft, HandleStart, HandleClose, HandleAddBot, Take
        <4>2. PassesBy(b)
          BY <4>1, RestPasses
        <4> QED BY <2>1, <4>2
      <3> QED BY <3>3, <3>4
    <2> QED BY <1>1, <2>1, <2>2
  <1>4. CASE /\ inbox[b] # << >> /\ Head(inbox[b]).type \in {"STATE", "ERROR"}
             /\ None(toSession, From(b))
    <2>1. r # << >> /\ Head(r) = Head(inbox[b])
      <3> HIDE DEF r
      <3> QED BY <1>1, <1>2, <1>4, LongerHead
    <2>2. None(n, From(b))
      <3> HIDE DEF n
      <3> QED BY <1>1, <1>2, <1>4, LessIn
    <2> QED BY <1>4, <2>1, <2>2 DEF Joining
  <1> QED BY <1>3, <1>4 DEF Joining

\* A message of the session's thread leaves every bot told of what it must know.
LEMMA SessionAware ==
  ASSUME Played, Typed, Played', Typed', SessionThread, NEW b \in Bots,
         Aware(session, dealt, inbox[b], toSession, bot[b], b)
  PROVE  Aware(session', dealt', inbox'[b], toSession', bot'[b], b)
  <1> DEFINE q == inbox[b]
             r == inbox'[b]
             m == toSession
             n == toSession'
             w == bot[b]
             x == bot'[b]
             h == HandIn(session, dealt, b)
             g == HandIn(session', dealt', b)
  <1>1. bot \in [Bots -> BotStates] /\ m \in Seq(ToSessionMessages) /\ q \in Seq(Packets)
    BY DEF Typed, Boxed
  <1>2. x = w \/ (w.pc = "none" /\ x.pc = "forked")
    BY <1>1, SessionStarts
  <1>3. /\ Longer(q, r)
        /\ \/ n = m /\ PassesBy(b)
           \/ m # << >> /\ n = Tail(m) /\ (Head(m).user # b => PassesBy(b))
    BY SessionPasses
  <1>4. /\ w.pc \in {"none", "forked"} => ~Member(session, b) /\ None(m, From(b))
        /\ w.pc = "running" /\ w.rules = NoRules => Joining(session, q, m, b)
        /\ w.pc = "running" => Informed(session, h, q, m, w, b)
    BY DEF Aware
  <1>5. ASSUME x.pc \in {"none", "forked"}
        PROVE  ~Member(session', b) /\ None(n, From(b))
    <2>1. ~Member(session, b) /\ None(m, From(b))
      BY <1>2, <1>4, <1>5
    <2>2. m # << >> => None(Tail(m), From(b)) /\ Head(m) \notin From(b)
      <3> HIDE DEF m
      <3> QED BY <1>1, <2>1, LessIn
    <2>3. m # << >> => Head(m) \in ToSessionMessages
      <3> HIDE DEF m
      <3> HIDE DEF ToSessionMessages
      <3> QED BY <1>1
    <2>4. PassesBy(b) /\ (n = m \/ (m # << >> /\ n = Tail(m)))
      BY <1>3, <2>2, <2>3 DEF From
    <2> HIDE DEF m, n
    <2> QED BY <2>1, <2>2, <2>4 DEF PassesBy
  <1>6. ASSUME x.pc = "running", x.rules = NoRules
        PROVE  Joining(session', r, n, b)
    <2>1. x = w
      BY <1>2, <1>6
    <2>2. bot[b].pc = "running" /\ Joining(session, inbox[b], toSession, b)
      BY <1>4, <1>6, <2>1
    <2> QED BY <2>2, SessionJoining
  <1>7. ASSUME x.pc = "running"
        PROVE  Informed(session', g, r, n, x, b)
    <2>1. x = w
      BY <1>2, <1>7
    <2>2. Informed(session, h, q, m, w, b) /\ bot[b].pc = "running"
      BY <1>4, <1>7, <2>1
    <2>3. CASE ~(PlaysIn(session', b) /\ On(session'))
      BY <2>3 DEF Informed
    <2>4. CASE PlaysIn(session', b) /\ On(session')
      <3>1. Follows(session, h, q, session', g, r, b)
        BY <2>2, <2>4, SessionFollowed DEF FollowsOn
      <3> DEFINE t == session'
      <3>2. Informed(t, g, r, m, w, b)
        <4> HIDE DEF t, g, r, q, m, w, h
        <4>1. Follows(session, h, q, t, g, r, b)
          BY <3>1 DEF t
        <4> QED BY <1>1, <2>2, <4>1, FollowsInformed
      <3>3. Informed(t, g, r, n, w, b)
        <4> HIDE DEF t, g, r, q, m, w, h, n
        <4> HIDE DEF ToSessionMessages
        <4>1. n = m \/ (m # << >> /\ n = Tail(m))
          BY <1>3
        <4>2. m # << >> => Informed(t, g, r, Tail(m), w, b)
          BY <1>1, <3>2, TakenInformed
        <4> QED BY <3>2, <4>1, <4>2
      <3> QED BY <2>1, <3>3
    <2> QED BY <2>3, <2>4
  <1> QED BY <1>5, <1>6, <1>7 DEF Aware

-----------------------------------------------------------------------------
(* The bots' own steps, and those of the others *)

\* What others send, and what happens between others, does not matter.
LEMMA ApartAware ==
  ASSUME NEW b, NEW s, NEW d, NEW q, NEW M, NEW m \in Seq(M), NEW w,
         Aware(s, d, q, m, w, b), NEW y, y.user # b
  PROVE  Aware(s, d, q, Append(m, y), w, b)
  <1> DEFINE n == Append(m, y)
             h == HandIn(s, d, b)
  <1>1. y \notin From(b)
    BY DEF From
  <1>2. None(m, From(b)) => None(n, From(b))
    BY <1>1, MoreIn
  <1>3. Joining(s, q, m, b) => Joining(s, q, n, b)
    <2>1. OnlyJoins(m, b) => OnlyJoins(n, b)
      BY OnlyJoinsOn
    <2> HIDE DEF n
    <2> QED BY <1>2, <2>1 DEF Joining
  <1>4. Informed(s, h, q, m, w, b) => Informed(s, h, q, n, w, b)
    BY SentInformed
  <1> HIDE DEF n
  <1>5. Aware(s, d, q, n, w, b)
    BY <1>2, <1>3, <1>4 DEF Aware
  <1> QED BY <1>5 DEF n

\* Who runs, and is not in the session, has nothing to know.
LEMMA StrangerInformed ==
  ASSUME NEW s, NEW b, ~Member(s, b), NEW h, NEW q, NEW m, NEW w
  PROVE  Informed(s, h, q, m, w, b)
  BY DEF Informed, PlaysIn

\* bot_start
LEMMA JoinsAware ==
  ASSUME Typed, NEW b \in Bots, BotJoins(b),
         Aware(session, dealt, inbox[b], toSession, bot[b], b)
  PROVE  Aware(session', dealt', inbox'[b], toSession', bot'[b], b)
  <1> DEFINE m == toSession
             y == Msg("JOIN", b, 0)
             n == Append(m, y)
             w == bot'[b]
  <1>1. session' = session /\ dealt' = dealt /\ inbox'[b] = << >> /\ toSession' = n
    BY DEF BotJoins, Sends, vars, Typed, Boxed
  <1>2. w.pc = "running"
    <2>1. bot[b] \in BotStates /\ w = [bot[b] EXCEPT !.pc = "running"]
      <3> HIDE DEF BotStates
      <3> QED BY DEF BotJoins, Typed
    <2> QED BY <2>1 DEF BotStates
  <1>3. ~Member(session, b) /\ None(m, From(b))
    BY DEF Aware, BotJoins
  <1>4. y.user = b /\ y.type = "JOIN"
    BY DEF Msg
  <1> HIDE DEF y
  <1>5. m \in Seq(ToSessionMessages)
    BY DEF Typed
  <1>6. OnlyJoins(n, b)
    <2> HIDE DEF m
    <2>1. \A k \in DOMAIN m : m[k].user # b
      <3> HIDE DEF ToSessionMessages
      <3>1. \A k \in DOMAIN m : m[k] \in ToSessionMessages /\ m[k] \notin From(b)
        BY <1>3, <1>5 DEF None
      <3> QED BY <3>1 DEF From
    <2>2. \A k \in DOMAIN n : \/ k \in DOMAIN m /\ n[k] = m[k]
                              \/ k = Len(m) + 1 /\ n[k] = y
      <3> HIDE DEF ToSessionMessages
      <3> QED BY <1>5, QueueAppend
    <2> HIDE DEF n
    <2>3. ASSUME NEW k \in DOMAIN n, n[k].user = b
          PROVE  k = Len(m) + 1 /\ n[k].type = "JOIN"
      BY <1>4, <2>1, <2>2, <2>3
    <2> QED BY <2>3 DEF OnlyJoins
  <1>7. Joining(session, << >>, n, b)
    BY <1>3, <1>6 DEF Joining
  <1>8. Informed(session, HandIn(session, dealt, b), << >>, n, w, b)
    BY <1>3, StrangerInformed
  <1> HIDE DEF n, w
  <1>9. Aware(session, dealt, << >>, n, w, b)
    BY <1>2, <1>7, <1>8 DEF Aware
  <1> QED BY <1>1, <1>9 DEF w

\* What the first packet of a queue leaves to read.
LEMMA OneLess ==
  ASSUME NEW q \in Seq(Packets), q # << >>, NEW G
  PROVE  /\ LatestIn(q, InfoPackets, G) => LatestIn(Tail(q), InfoPackets, G)
         /\ AllBefore(q, InfoPackets, G) => AllBefore(Tail(q), InfoPackets, G)
         /\ \A S : Head(q) \notin S => (None(q, S) <=> None(Tail(q), S))
         /\ Head(q) \in InfoPackets /\ LatestIn(q, InfoPackets, G)
              /\ None(Tail(q), InfoPackets) => Head(q) \in G
  BY LessIn

\* A packet of a type that is neither the game nor a question.
LEMMA OtherRead ==
  ASSUME NEW q \in Seq(Packets), q # << >>, Head(q) \notin InfoPackets \cup Asks,
         NEW s, NEW h, NEW m, NEW w, NEW b, Informed(s, h, q, m, w, b),
         NEW x, x.index_row_to_take = w.index_row_to_take, x.chosen = w.chosen
  PROVE  Informed(s, h, Tail(q), m, x, b)
  <1> DEFINE r == Tail(q)
  <1>1. /\ \A G : /\ LatestIn(q, InfoPackets, G) => LatestIn(r, InfoPackets, G)
                  /\ AllBefore(q, InfoPackets, G) => AllBefore(r, InfoPackets, G)
        /\ None(q, InfoPackets) <=> None(r, InfoPackets)
        /\ None(q, Asks) <=> None(r, Asks)
    <2>1. Head(q) \notin InfoPackets /\ Head(q) \notin Asks
      OBVIOUS
    <2> QED BY <2>1, OneLess
  <1> HIDE DEF r
  <1>2. Informed(s, h, r, m, x, b)
    <2>1. ASSUME PlaysIn(s, b), On(s)
          PROVE  /\ LatestIn(r, InfoPackets, BoardShown(s))
                 /\ None(r, InfoPackets) => RowOK(s, x.index_row_to_take)
                 /\ Awaited(s, b) =>
                      /\ LatestIn(r, InfoPackets, HandShown(h))
                      /\ None(r, InfoPackets) =>
                           LatestIn(m, Answers(b, "INFO_RETURN"), CardMeant(h, x.chosen))
                 /\ Chooses(s, b) =>
                      /\ AllBefore(r, InfoPackets, Asks)
                      /\ None(r, Asks) =>
                           LatestIn(m, Answers(b, "RESPONSE_EXTRA"), RowMeant(s))
      <3>1. /\ LatestIn(q, InfoPackets, BoardShown(s))
            /\ None(q, InfoPackets) => RowOK(s, w.index_row_to_take)
            /\ Awaited(s, b) =>
                 /\ LatestIn(q, InfoPackets, HandShown(h))
                 /\ None(q, InfoPackets) =>
                      LatestIn(m, Answers(b, "INFO_RETURN"), CardMeant(h, w.chosen))
            /\ Chooses(s, b) =>
                 /\ AllBefore(q, InfoPackets, Asks)
                 /\ None(q, Asks) => LatestIn(m, Answers(b, "RESPONSE_EXTRA"), RowMeant(s))
        BY <2>1 DEF Informed
      <3> QED BY <1>1, <3>1
    <2> QED BY <2>1 DEF Informed
  <1> QED BY <1>2 DEF r

\* bot_handle_session_state
LEMMA StateAware ==
  ASSUME Typed, NEW b \in Bots, BotGetsState(b),
         Aware(session, dealt, inbox[b], toSession, bot[b], b)
  PROVE  Aware(session', dealt', inbox'[b], toSession', bot'[b], b)
  <1> DEFINE q == inbox[b]
             w == bot[b]
             x == bot'[b]
             h == HandIn(session, dealt, b)
  <1>1. q # << >> /\ Head(q).type = "STATE"
    BY DEF BotGetsState, BotGets, Gets
  <1>2. /\ Head(q) \in Packets /\ Tail(q) \in Seq(Packets) /\ q \in Seq(Packets)
        /\ w.pc = "running" /\ w \in BotStates
    BY <1>1, GotIs
  <1>3. Head(q) \notin InfoPackets \cup Asks /\ Head(q).rules = DefaultRules
    <2> DEFINE p == Head(q)
    <2>1. p \in Packets /\ p.type = "STATE"
      BY <1>1, <1>2
    <2> HIDE DEF p
    <2>2. p.type = "STATE" /\ p \in OtherPackets
      BY <2>1 DEF Packets, InfoPackets
    <2>3. p \notin InfoPackets /\ p \notin Asks
      BY <2>1 DEF InfoPackets, Asks
    <2>4. p.rules = DefaultRules
      BY <2>2 DEF OtherPackets
    <2> QED BY <2>3, <2>4 DEF p
  <1>4. /\ session' = session /\ dealt' = dealt /\ toSession' = toSession
        /\ inbox'[b] = Tail(q)
        /\ x = [w EXCEPT !.rules = DefaultRules, !.placed_cards = {}]
    <2>1. inbox \in [Bots -> Seq(Packets)] /\ bot \in [Bots -> BotStates]
      BY DEF Typed, Boxed
    <2> HIDE DEF BotStates, Packets
    <2> QED BY <1>3, <2>1 DEF BotGetsState, BotGets, Gets, vars
  <1>5. /\ x.pc = "running" /\ x.rules = DefaultRules
        /\ x.index_row_to_take = w.index_row_to_take /\ x.chosen = w.chosen
    <2> HIDE DEF x, w
    <2> QED BY <1>2, <1>4 DEF BotStates
  <1>6. DefaultRules # NoRules
    BY TheRules DEF NoRules
  <1>7. Informed(session, h, q, toSession, w, b)
    BY <1>2 DEF Aware
  <1>8. Informed(session, h, Tail(q), toSession, x, b)
    <2> HIDE DEF x, w, h, q
    <2> QED BY <1>1, <1>2, <1>3, <1>5, <1>7, OtherRead
  <1>9. Aware(session, dealt, Tail(q), toSession, x, b)
    <2> HIDE DEF x, w, q
    <2> QED BY <1>5, <1>6, <1>8 DEF Aware
  <1> QED BY <1>4, <1>9

\* Of rows that have room a bot would take the one that the session has as cheapest.
LEMMA CheapestTaken ==
  ASSUME NEW s, s.rules = DefaultRules, NEW v, Seen(v), v.board = s.board, v.heads = s.heads,
         v.nb_card_line = DefaultRules.nbrCardsLign, NEW row \in RowsToTake(v)
  PROVE  RowOK(s, row)
  <1>1. Rows(s) = TheRows /\ DOMAIN v.board = TheRows
    BY UnderTheRules DEF Seen
  <1> DEFINE sums == [r \in TheRows |-> BullsSum(v, r)]
  <1>2. sums = [r \in TheRows |-> RowHeads(s, r)]
    <2>1. \A r : BullsSum(v, r) = RowHeads(v, r)
      BY BullsSumIs
    <2> DEFINE Sum(heads, cards) == FoldSeq(LAMBDA c, sum : heads[c] + sum, 0, cards)
    <2>3. \A g, r : RowHeads(g, r) = Sum(g.heads, g.board[r])
      BY DEF RowHeads
    <2> HIDE DEF Sum
    <2>2. \A r : RowHeads(v, r) = RowHeads(s, r)
      BY <2>3
    <2> QED BY <2>1, <2>2
  <1>3. ASSUME \A r \in TheRows : Len(s.board[r]) < s.rules.nbrCardsLign
        PROVE  row = FirstCheapest(TheRows, sums)
    <2>1. DefaultRules.nbrCardsLign \in Nat
      <3>1. DefaultRules.nbrCardsLign \in 1..255
        BY GameAssumption, TheRules
      <3> QED BY <3>1
    <2>2. ASSUME NEW r \in TheRows PROVE Len(v.board[r]) \in Nat
      <3>1. v.board[r] \in Seq(TheDeck)
        BY DEF Seen
      <3> QED BY <3>1
    <2>3. FullRows(v) = {}
      BY <1>1, <1>3, <2>1, <2>2 DEF FullRows, Full
    <2>4. TheRows # {}
      <3>1. 0 \in 0..(DefaultRules.nbrLign - 1)
        BY TheRules
      <3> QED BY <3>1 DEF TheRows
    <2>5. DOMAIN v.board \ FullRows(v) = TheRows
      BY <1>1, <2>3
    <2>6. RowsToTake(v) = {FirstCheapest(TheRows, sums)}
      <3> HIDE DEF FirstCheapest, TheRows
      <3> QED BY <2>3, <2>4, <2>5 DEF RowsToTake
    <2> QED BY <2>6
  <1> HIDE DEF sums
  <1> QED BY <1>1, <1>2, <1>3 DEF RowOK

\* A hand fits a byte, so the index sent is that of the card meant.
LEMMA IndexMeant ==
  ASSUME NEW h \in Seq(Cards), Len(h) <= 255, NEW index \in (0..(Len(h) - 1)) \cup {-1, 0}
  PROVE  /\ index % 256 \in 0..255
         /\ CardIn(h, index % 256) = IF index + 1 \in DOMAIN h THEN h[index + 1] ELSE NoCard
  <1>1. Len(h) \in Nat /\ DOMAIN h = 1..Len(h)
    OBVIOUS
  <1>2. CASE index \in 0..255
    <2>1. index % 256 = index
      BY <1>2
    <2> QED BY <1>2, <2>1 DEF CardIn
  <1>3. CASE index = -1
    <2>1. index % 256 = 255
      <3>1. \A k \in Int : k + 1 = 0 => k % 256 = 255
        OBVIOUS
      <3>2. index \in Int /\ index + 1 = 0
        BY <1>3
      <3> HIDE <1>3
      <3> QED BY <3>1, <3>2
    <2>2. 255 + 1 \notin DOMAIN h /\ index + 1 \notin DOMAIN h
      BY <1>1, <1>3
    <2> QED BY <2>1, <2>2 DEF CardIn
  <1> QED BY <1>1, <1>2, <1>3

\* The game is read, and answered.
LEMMA InfoInformed ==
  ASSUME NEW s, NEW h, NEW q \in Seq(Packets), q # << >>, Head(q) \in InfoPackets,
         NEW m \in Seq(ToSessionMessages), NEW w, NEW b, Informed(s, h, q, m, w, b),
         NEW y \in Answers(b, "INFO_RETURN"), NEW x,
         Head(q) \in BoardShown(s) => RowOK(s, x.index_row_to_take),
         Head(q) \in HandShown(h) => y \in CardMeant(h, x.chosen)
  PROVE  Informed(s, h, Tail(q), Append(m, y), x, b)
  <1> DEFINE r == Tail(q)
             n == Append(m, y)
             A == Answers(b, "INFO_RETURN")
             B == Answers(b, "RESPONSE_EXTRA")
             I == InfoPackets
             C == CardMeant(h, x.chosen)
             S == HandShown(h)
             D == BoardShown(s)
             R == RowMeant(s)
  <1>1. Head(q) \notin Asks
    BY DEF InfoPackets, Asks
  <1>2. y \in A /\ y \notin B
    BY DEF Answers
  <1>3. /\ LatestIn(n, A, C) <=> y \in C
        /\ LatestIn(n, B, R) <=> LatestIn(m, B, R)
    <2> HIDE DEF A, B, C, R
    <2> HIDE DEF ToSessionMessages
    <2> QED BY <1>2, MoreIn
  <1>4. /\ LatestIn(q, I, D) => LatestIn(r, I, D)
        /\ LatestIn(q, I, D) /\ None(r, I) => Head(q) \in D
        /\ LatestIn(q, I, S) => LatestIn(r, I, S)
        /\ LatestIn(q, I, S) /\ None(r, I) => Head(q) \in S
        /\ AllBefore(q, I, Asks) => AllBefore(r, I, Asks)
        /\ None(q, Asks) <=> None(r, Asks)
    <2> HIDE DEF D, S
    <2> QED BY <1>1, OneLess
  <1>5. ASSUME PlaysIn(s, b), On(s)
        PROVE  /\ LatestIn(r, I, D)
               /\ None(r, I) => RowOK(s, x.index_row_to_take)
               /\ Awaited(s, b) => LatestIn(r, I, S) /\ (None(r, I) => LatestIn(n, A, C))
               /\ Chooses(s, b) => AllBefore(r, I, Asks) /\ (None(r, Asks) => LatestIn(n, B, R))
    <2>1. /\ LatestIn(q, I, D)
          /\ Awaited(s, b) => LatestIn(q, I, S)
          /\ Chooses(s, b) => AllBefore(q, I, Asks) /\ (None(q, Asks) => LatestIn(m, B, R))
      BY <1>5 DEF Informed
    <2> HIDE DEF r, n, A, B, I, C, S, D, R
    <2>2. Head(q) \in D => RowOK(s, x.index_row_to_take)
      BY DEF D
    <2>3. Head(q) \in S => y \in C
      BY DEF S, C
    <2> QED BY <1>3, <1>4, <2>1, <2>2, <2>3
  <1> HIDE DEF r, n
  <1>6. Informed(s, h, r, n, x, b)
    BY <1>5 DEF Informed
  <1> QED BY <1>6 DEF r, n

\* A question is read, and answered with the row chosen before.
LEMMA RequestInformed ==
  ASSUME NEW s, NEW h, NEW q \in Seq(Packets), q # << >>, Head(q) \in Asks,
         NEW m \in Seq(ToSessionMessages), NEW w, NEW b, Informed(s, h, q, m, w, b),
         NEW y \in Answers(b, "RESPONSE_EXTRA"), y.arg = w.index_row_to_take
  PROVE  Informed(s, h, Tail(q), Append(m, y), w, b)
  <1> DEFINE r == Tail(q)
             n == Append(m, y)
             A == Answers(b, "INFO_RETURN")
             B == Answers(b, "RESPONSE_EXTRA")
             I == InfoPackets
             C == CardMeant(h, w.chosen)
             S == HandShown(h)
             D == BoardShown(s)
             R == RowMeant(s)
  <1>1. Head(q) \notin I
    BY DEF InfoPackets, Asks
  <1>2. y \in B /\ y \notin A /\ (RowOK(s, w.index_row_to_take) => y \in R)
    BY DEF Answers, RowMeant
  <1>3. /\ LatestIn(n, A, C) <=> LatestIn(m, A, C)
        /\ LatestIn(n, B, R) <=> y \in R
    <2> HIDE DEF A, B, C, R
    <2> HIDE DEF ToSessionMessages
    <2> QED BY <1>2, MoreIn
  <1>4. /\ LatestIn(q, I, D) => LatestIn(r, I, D)
        /\ LatestIn(q, I, S) => LatestIn(r, I, S)
        /\ AllBefore(q, I, Asks) => AllBefore(r, I, Asks)
        /\ None(q, I) <=> None(r, I)
    <2> HIDE DEF D, S
    <2> QED BY <1>1, OneLess
  <1>5. AllBefore(r, I, Asks) /\ None(r, Asks) => None(r, I)
    <2> HIDE DEF r, I
    <2> QED BY NoneBefore
  <1>6. ASSUME PlaysIn(s, b), On(s)
        PROVE  /\ LatestIn(r, I, D)
               /\ None(r, I) => RowOK(s, w.index_row_to_take)
               /\ Awaited(s, b) => LatestIn(r, I, S) /\ (None(r, I) => LatestIn(n, A, C))
               /\ Chooses(s, b) => AllBefore(r, I, Asks) /\ (None(r, Asks) => LatestIn(n, B, R))
    <2>1. /\ LatestIn(q, I, D)
          /\ None(q, I) => RowOK(s, w.index_row_to_take)
          /\ Awaited(s, b) => LatestIn(q, I, S) /\ (None(q, I) => LatestIn(m, A, C))
          /\ Chooses(s, b) => AllBefore(q, I, Asks)
      BY <1>6 DEF Informed
    <2> HIDE DEF r, n, A, B, I, C, S, D, R
    <2> QED BY <1>2, <1>3, <1>4, <1>5, <2>1
  <1> HIDE DEF r, n
  <1>7. Informed(s, h, r, n, w, b)
    BY <1>6 DEF Informed
  <1> QED BY <1>7 DEF r, n

\* A hand that is shown has no more cards than a byte can count.
LEMMA HandFits ==
  ASSUME NEW s, Hands, NEW b, Member(s, b)
  PROVE  HandIn(s, dealt, b) \in Seq(HandOf(s, Index(s, b))) /\ Len(HandIn(s, dealt, b)) <= 255
  <1> DEFINE i == Index(s, b)
             hand == dealt[i]
             h == HandIn(s, dealt, b)
             H == HandOf(s, i)
  <1>1. i \in Slots
    BY MemberSlot
  <1> HIDE DEF i
  <1>2. hand \in Seq(Cards) /\ Len(hand) <= 255
    BY <1>1 DEF Hands
  <1>3. h = Shown(hand, H)
    BY DEF HandIn, i
  <1> HIDE DEF hand, h, H
  <1>4. h \in Seq(H) /\ Len(h) <= Len(hand)
    <2>1. Shown(hand, H) \in Seq(H) /\ Len(Shown(hand, H)) <= Len(hand)
      BY <1>2, ShownIs
    <2> QED BY <1>3, <2>1
  <1>5. Len(h) \in Nat /\ Len(hand) \in Nat
    BY <1>2, <1>4
  <1>6. h \in Seq(H) /\ Len(h) <= 255
    BY <1>2, <1>4, <1>5
  <1> QED BY <1>6 DEF h, H, i

\* What a bot that does not know the rules has to read first is no game.
LEMMA FirstRead ==
  ASSUME NEW b, NEW s, NEW d, NEW q, NEW m, NEW w, Aware(s, d, q, m, w, b),
         w.pc = "running", w.rules = NoRules, q # << >>
  PROVE  Head(q).type \in {"STATE", "ERROR"}
  BY DEF Aware, Joining

\* bot_handle_session_info
LEMMA InfoAware ==
  ASSUME Played, Typed, NEW b \in Bots, BotGetsInfo(b),
         Aware(session, dealt, inbox[b], toSession, bot[b], b)
  PROVE  Aware(session', dealt', inbox'[b], toSession', bot'[b], b)
  <1> DEFINE q == inbox[b]
             m == toSession
             w == bot[b]
             x == bot'[b]
             p == Head(q)
             v == ViewOf(b, p)
             h == HandIn(session, dealt, b)
  <1>1. q # << >> /\ p.type = "INFO"
    BY DEF BotGetsInfo, BotGets, Gets
  <1>2. /\ p \in Packets /\ Tail(q) \in Seq(Packets) /\ q \in Seq(Packets)
        /\ w.pc = "running" /\ w \in BotStates
    BY <1>1, GotIs
  <1>3. w.rules # NoRules
    <2> HIDE DEF q, w
    <2>1. Aware(session, dealt, q, toSession, w, b)
      BY DEF q, w
    <2> QED BY <1>1, <1>2, <2>1, FirstRead
  <1>4. /\ p \in InfoPackets /\ Seen(v) /\ w.rules = DefaultRules
        /\ \E placed \in SUBSET Cards, row \in RowsToTake(v),
              index \in (0..(Len(v.hand) - 1)) \cup {-1, 0}, card \in Cards \cup {NoCard} :
             /\ card = IF index + 1 \in DOMAIN v.hand THEN v.hand[index + 1] ELSE NoCard
             /\ bot' = [bot EXCEPT ![b].placed_cards = placed, ![b].index_row_to_take = row,
                                   ![b].chosen = card]
             /\ toSession' = Append(toSession, Msg("INFO_RETURN", b, index % 256))
    <2> HIDE DEF BotStates, Cards, RowsToTake
    <2> QED BY <1>3, GetsInfoIs, Zenon
  <1>5. PICK placed \in SUBSET Cards, row \in RowsToTake(v),
             index \in (0..(Len(v.hand) - 1)) \cup {-1, 0}, card \in Cards \cup {NoCard} :
             /\ card = IF index + 1 \in DOMAIN v.hand THEN v.hand[index + 1] ELSE NoCard
             /\ bot' = [bot EXCEPT ![b].placed_cards = placed, ![b].index_row_to_take = row,
                                   ![b].chosen = card]
             /\ toSession' = Append(toSession, Msg("INFO_RETURN", b, index % 256))
    BY <1>4
  <1> DEFINE y == Msg("INFO_RETURN", b, index % 256)
  <1>6. /\ session' = session /\ dealt' = dealt /\ inbox'[b] = Tail(q)
        /\ x = [w EXCEPT !.placed_cards = placed, !.index_row_to_take = row, !.chosen = card]
    <2>1. inbox \in [Bots -> Seq(Packets)] /\ bot \in [Bots -> BotStates]
      BY DEF Typed, Boxed
    <2> HIDE DEF BotStates, Packets, v
    <2>2. x = [w EXCEPT !.placed_cards = placed, !.index_row_to_take = row, !.chosen = card]
      BY <1>5, <2>1
    <2> QED BY <2>1, <2>2 DEF BotGetsInfo, BotGets, Gets, vars
  <1>7. /\ x.pc = "running" /\ x.rules = DefaultRules
        /\ x.index_row_to_take = row /\ x.chosen = card
    <2> HIDE DEF x, w, v
    <2> QED BY <1>2, <1>4, <1>6 DEF BotStates
  <1>8. /\ v.hand = p.hand /\ v.board = p.board /\ v.heads = p.heads
        /\ v.nb_card_line = DefaultRules.nbrCardsLign /\ v.hand \in Seq(Cards)
    <2>1. v.hand = p.hand /\ v.board = p.board /\ v.heads = p.heads
          /\ v.nb_card_line = w.rules.nbrCardsLign
      BY <1>4, ViewIs
    <2>2. v.hand \in Seq(Cards)
      BY <1>4 DEF Seen
    <2> QED BY <1>4, <2>1, <2>2
  <1>9. DefaultRules # NoRules
    BY TheRules DEF NoRules
  <1>10. Informed(session, h, q, m, w, b) /\ m \in Seq(ToSessionMessages)
    BY <1>2 DEF Aware, Typed
  <1>11. session.rules = DefaultRules
    BY DEF Played
  <1>12. b \in Clients
    BY OneRuleBook
  <1>13. Informed(session, h, Tail(q), Append(m, y), x, b)
    <2>1. CASE ~Member(session, b)
      BY <2>1, StrangerInformed
    <2>2. CASE Member(session, b)
      <3>1. index % 256 \in 0..255
        <4>1. index \in Int
          <5> HIDE DEF v
          <5> QED BY <1>8
        <4> QED BY <4>1
      <3>2. y \in Answers(b, "INFO_RETURN") /\ y \in ToSessionMessages /\ y.arg = index % 256
        <4>1. y \in ToSessionMessages
          BY <1>12, <3>1, MsgIs
        <4> HIDE DEF ToSessionMessages
        <4> QED BY <4>1 DEF Answers, Msg
      <3>3. p \in BoardShown(session) => RowOK(session, x.index_row_to_take)
        <4>1. ASSUME p \in BoardShown(session) PROVE RowOK(session, row)
          <5>1. v.board = session.board /\ v.heads = session.heads
            BY <1>8, <4>1 DEF BoardShown
          <5> HIDE DEF v
          <5> QED BY <1>4, <1>8, <1>11, <5>1, CheapestTaken
        <4> QED BY <1>7, <4>1
      <3>4. p \in HandShown(h) => y \in CardMeant(h, x.chosen)
        <4>1. ASSUME p \in HandShown(h) PROVE CardIn(h, index % 256) = card
          <5>1. v.hand = h
            BY <1>8, <4>1 DEF HandShown
          <5>2. Len(h) <= 255
            BY <2>2, HandFits DEF Typed
          <5> HIDE DEF v, h
          <5>3. h \in Seq(Cards) /\ index \in (0..(Len(h) - 1)) \cup {-1, 0}
            BY <1>8, <5>1
          <5>4. CardIn(h, index % 256)
                  = IF index + 1 \in DOMAIN h THEN h[index + 1] ELSE NoCard
            <6> HIDE DEF Cards
            <6> QED BY <5>2, <5>3, IndexMeant
          <5> QED BY <1>5, <5>1, <5>4
        <4>2. p \in HandShown(h) => CardIn(h, y.arg) = x.chosen
          BY <1>7, <3>2, <4>1
        <4> HIDE DEF y, x, h, p
        <4> QED BY <3>2, <4>2 DEF CardMeant
      <3> HIDE DEF y, x, h, m, w, q
      <3>5. Head(q) \in InfoPackets
        BY <1>4 DEF p
      <3>6. Head(q) \in BoardShown(session) => RowOK(session, x.index_row_to_take)
        BY <3>3 DEF p
      <3>7. Head(q) \in HandShown(h) => y \in CardMeant(h, x.chosen)
        BY <3>4 DEF p
      <3> QED BY <1>1, <1>2, <1>10, <3>2, <3>5, <3>6, <3>7, InfoInformed
    <2> QED BY <2>1, <2>2
  <1>14. Aware(session, dealt, Tail(q), Append(m, y), x, b)
    <2> HIDE DEF x, y, m, q
    <2> QED BY <1>7, <1>9, <1>13 DEF Aware
  <1> QED BY <1>5, <1>6, <1>14

\* A question is answered with the row that was chosen before.
LEMMA RequestAware ==
  ASSUME Typed, NEW b \in Bots, BotGetsRequest(b),
         Aware(session, dealt, inbox[b], toSession, bot[b], b)
  PROVE  Aware(session', dealt', inbox'[b], toSession', bot'[b], b)
  <1> DEFINE q == inbox[b]
             m == toSession
             w == bot[b]
             h == HandIn(session, dealt, b)
             y == Msg("RESPONSE_EXTRA", b, bot[b].index_row_to_take)
  <1>1. q # << >> /\ Head(q).type = "REQUEST_EXTRA"
    BY DEF BotGetsRequest, BotGets, Gets
  <1>2. /\ Head(q) \in Packets /\ Tail(q) \in Seq(Packets) /\ q \in Seq(Packets)
        /\ w.pc = "running" /\ w \in BotStates
    BY <1>1, GotIs
  <1>3. w.rules # NoRules
    <2> HIDE DEF q, w
    <2>1. Aware(session, dealt, q, toSession, w, b)
      BY DEF q, w
    <2> QED BY <1>1, <1>2, <2>1, FirstRead
  <1>4. Head(q) \in Asks
    <2> HIDE DEF q, Packets
    <2> QED BY <1>1, <1>2 DEF Asks
  <1>5. /\ session' = session /\ dealt' = dealt /\ inbox'[b] = Tail(q) /\ bot'[b] = w
        /\ toSession' = Append(m, y)
    <2>1. inbox \in [Bots -> Seq(Packets)]
      BY DEF Typed, Boxed
    <2> HIDE DEF Packets
    <2> QED BY <2>1 DEF BotGetsRequest, BotGets, Gets, Sends, vars
  <1>6. y \in Answers(b, "RESPONSE_EXTRA") /\ y.arg = w.index_row_to_take
    <2>1. w.index_row_to_take \in -1..3
      BY <1>2 DEF BotStates
    <2>2. y \in ToSessionMessages
      BY <2>1, MsgIs, OneRuleBook
    <2> HIDE DEF ToSessionMessages
    <2> QED BY <2>2 DEF Answers, Msg
  <1>7. Informed(session, h, q, m, w, b) /\ m \in Seq(ToSessionMessages)
    BY <1>2 DEF Aware, Typed
  <1>8. Informed(session, h, Tail(q), Append(m, y), w, b)
    <2> HIDE DEF y, h, m, w, q
    <2> QED BY <1>1, <1>2, <1>4, <1>6, <1>7, RequestInformed
  <1>9. Aware(session, dealt, Tail(q), Append(m, y), w, b)
    <2> HIDE DEF w, y, m, q
    <2> QED BY <1>2, <1>3, <1>8 DEF Aware
  <1> QED BY <1>5, <1>9

\* A program that has ended need not know anything.
LEMMA EndsAware ==
  ASSUME Typed, NEW b \in Bots, BotCrashes(b) \/ BotRetires(b)
  PROVE  Aware(session', dealt', inbox'[b], toSession', bot'[b], b)
  <1>1. bot'[b].pc \in {"crashed", "gone"}
    <2>1. bot \in [Bots -> BotStates]
      BY DEF Typed
    <2>2. PICK pc \in {"crashed", "gone"} : bot' = [bot EXCEPT ![b] = [NewBot EXCEPT !.pc = pc]]
      BY DEF BotCrashes, BotRetires
    <2>3. [NewBot EXCEPT !.pc = pc].pc = pc
      BY NewBotIs
    <2>4. bot'[b] = [NewBot EXCEPT !.pc = pc]
      <3> HIDE DEF BotStates, NewBot
      <3> QED BY <2>1, <2>2
    <2> QED BY <2>3, <2>4
  <1> QED BY <1>1 DEF Aware

\* A bot's own step.
LEMMA OwnAware ==
  ASSUME Played, Typed, NEW b \in Bots, BotProgram(b),
         Aware(session, dealt, inbox[b], toSession, bot[b], b)
  PROVE  Aware(session', dealt', inbox'[b], toSession', bot'[b], b)
  <1>1. CASE BotJoins(b)
    BY <1>1, JoinsAware
  <1>2. CASE BotGetsState(b)
    BY <1>2, StateAware
  <1>3. CASE BotGetsInfo(b)
    BY <1>3, InfoAware
  <1>4. CASE BotGetsRequest(b)
    BY <1>4, RequestAware
  <1>5. CASE BotCrashes(b) \/ BotRetires(b)
    BY <1>5, EndsAware
  <1> QED BY <1>1, <1>2, <1>3, <1>4, <1>5 DEF BotProgram

\* A step that is no bot's but others', and not the session's.
LEMMA SentAware ==
  ASSUME Typed, NEW b \in Bots, session' = session, dealt' = dealt,
         inbox'[b] = inbox[b], bot'[b] = bot[b],
         \/ toSession' = toSession
         \/ \E y : y.user # b /\ toSession' = Append(toSession, y),
         Aware(session, dealt, inbox[b], toSession, bot[b], b)
  PROVE  Aware(session', dealt', inbox'[b], toSession', bot'[b], b)
  <1>1. toSession \in Seq(ToSessionMessages)
    BY DEF Typed
  <1> DEFINE A(m) == Aware(session, dealt, inbox[b], m, bot[b], b)
  <1>2. \A y : y.user # b => A(Append(toSession, y))
    <2> HIDE DEF ToSessionMessages
    <2> QED BY <1>1, ApartAware
  <1>3. A(toSession')
    <2>1. A(toSession)
      OBVIOUS
    <2> HIDE DEF A
    <2> QED BY <1>2, <2>1
  <1> QED BY <1>3

\* The step of another bot.
LEMMA OtherBotAware ==
  ASSUME Typed, NEW c \in Bots, BotProgram(c), NEW b \in Bots, b # c,
         Aware(session, dealt, inbox[b], toSession, bot[b], b)
  PROVE  Aware(session', dealt', inbox'[b], toSession', bot'[b], b)
  <1>1. inbox \in [Bots -> Seq(Packets)] /\ bot \in [Bots -> BotStates]
    BY DEF Typed, Boxed
  <1>2. session' = session /\ dealt' = dealt
    BY DEF BotProgram, BotJoins, BotGetsState, BotCrashes, BotGetsInfo, BotGetsRequest,
           BotRetires, BotGets, Gets, vars
  <1>3. inbox'[b] = inbox[b]
    <2>1. inbox' = inbox \/ \E q : inbox' = [inbox EXCEPT ![c] = q]
      BY DEF BotProgram, BotJoins, BotGetsState, BotCrashes, BotGetsInfo, BotGetsRequest,
             BotRetires, BotGets
    <2> HIDE DEF Packets
    <2> QED BY <1>1, <2>1
  <1>4. bot'[b] = bot[b] /\ (\/ toSession' = toSession
                             \/ \E y : y.user # b /\ toSession' = Append(toSession, y))
    <2>1. \A type, arg : Msg(type, c, arg).user # b
      BY DEF Msg
    <2>2. ASSUME BotJoins(c) \/ BotCrashes(c) \/ BotRetires(c) \/ BotGetsRequest(c)
          PROVE  /\ \E w : bot' = [bot EXCEPT ![c] = w]
                 /\ \E y : y.user # b /\ toSession' = Append(toSession, y)
      <3>1. \/ bot' = bot \/ bot' = [bot EXCEPT ![c].pc = "running"]
            \/ \E w : bot' = [bot EXCEPT ![c] = w]
        BY <2>2 DEF BotJoins, BotCrashes, BotGetsRequest, BotRetires
      <3>2. bot = [bot EXCEPT ![c] = bot[c]]
        <4> HIDE DEF BotStates
        <4> QED BY <1>1
      <3>3. \E type, arg : toSession' = Append(toSession, Msg(type, c, arg))
        BY <2>2 DEF BotJoins, BotCrashes, BotGetsRequest, BotRetires, Sends
      <3>4. \E w : bot' = [bot EXCEPT ![c] = w]
        BY <3>1, <3>2
      <3> QED BY <2>1, <3>3, <3>4
    <2>3. ASSUME BotGetsState(c)
          PROVE  (\E w : bot' = [bot EXCEPT ![c] = w]) /\ toSession' = toSession
      BY <2>3 DEF BotGetsState
    <2>4. ASSUME BotGetsInfo(c)
          PROVE  /\ \E w : bot' = [bot EXCEPT ![c] = w]
                 /\ \/ toSession' = toSession
                    \/ \E y : y.user # b /\ toSession' = Append(toSession, y)
      <3>1. \/ UNCHANGED <<bot, toSession>>
            \/ /\ \E w : bot' = [bot EXCEPT ![c] = w]
               /\ \E arg : toSession' = Append(toSession, Msg("INFO_RETURN", c, arg))
        BY <2>4 DEF BotGetsInfo, Sends
      <3>2. bot = [bot EXCEPT ![c] = bot[c]]
        <4> HIDE DEF BotStates
        <4> QED BY <1>1
      <3> QED BY <2>1, <3>1, <3>2
    <2>5. \E w : bot' = [bot EXCEPT ![c] = w]
      BY <2>2, <2>3, <2>4 DEF BotProgram
    <2>6. bot'[b] = bot[b]
      <3> HIDE DEF BotStates
      <3> QED BY <1>1, <2>5
    <2> QED BY <2>2, <2>3, <2>4, <2>6 DEF BotProgram
  <1> QED BY <1>2, <1>3, <1>4, SentAware

\* A command of the user.
LEMMA UserAware ==
  ASSUME Typed, User, NEW b \in Bots,
         Aware(session, dealt, inbox[b], toSession, bot[b], b)
  PROVE  Aware(session', dealt', inbox'[b], toSession', bot'[b], b)
  <1>1. inbox' = inbox /\ bot' = bot /\ dealt' = dealt /\ session' = session
    BY DEF User, AddBot, Start, Play, Extr, CloseSession, Quit, JoinAgain, Disconnect,
           Reconnect, TypesInside, Types, vars
  <1>2. \/ toSession' = toSession
        \/ \E y : y.user = Human /\ toSession' = Append(toSession, y)
    <2>1. CASE AddBot
      <3>1. PICK r \in Requests :
              toSession' = Append(toSession, [type |-> "ADD_BOT", user |-> Human,
                                              arg |-> r[1], level |-> r[2]])
        BY <2>1 DEF AddBot, TypesInside, Types
      <3> DEFINE y == [type |-> "ADD_BOT", user |-> Human, arg |-> r[1], level |-> r[2]]
      <3>2. y.user = Human
        OBVIOUS
      <3> HIDE DEF y
      <3>3. toSession' = Append(toSession, y)
        BY <3>1 DEF y
      <3> QED BY <3>2, <3>3
    <2>2. CASE ~AddBot
      <3>1. \/ toSession' = toSession
            \/ \E type, arg : toSession' = Append(toSession, Msg(type, Human, arg))
        BY <2>2 DEF User, Start, Play, Extr, CloseSession, Quit, JoinAgain, Disconnect,
                    Reconnect, TypesInside, Types, Sends
      <3>2. \A type, arg : Msg(type, Human, arg).user = Human
        BY DEF Msg
      <3> QED BY <3>1, <3>2
    <2> QED BY <2>1, <2>2
  <1>3. Human # b
    BY TableAssumption
  <1> QED BY <1>1, <1>2, <1>3, SentAware

\* Every step leaves the bots told of what they must know.
LEMMA NextWellTold == Played /\ Typed /\ WellTold /\ [TableNext]_tableVars => WellTold'
  <1> SUFFICES ASSUME Played, Typed, WellTold, [TableNext]_tableVars, NEW b \in Bots
               PROVE  Aware(session', dealt', inbox'[b], toSession', bot'[b], b)
    BY DEF WellTold
  <1>1. Played' /\ Typed'
    BY NextPlayed, NextTyped
  <1>2. Aware(session, dealt, inbox[b], toSession, bot[b], b)
    BY DEF WellTold
  <1>3. CASE SessionThread
    BY <1>1, <1>2, <1>3, SessionAware
  <1>4. CASE User
    BY <1>2, <1>4, UserAware
  <1>5. ASSUME NEW c \in Bots, BotProgram(c)
        PROVE  Aware(session', dealt', inbox'[b], toSession', bot'[b], b)
    <2>1. CASE b = c
      BY <1>2, <1>5, <2>1, OwnAware
    <2>2. CASE b # c
      BY <1>2, <1>5, <2>2, OtherBotAware
    <2> QED BY <2>1, <2>2
  <1>6. CASE UNCHANGED tableVars
    BY <1>2, <1>6, SentAware DEF tableVars, clientVars, vars
  <1> QED BY <1>3, <1>4, <1>5, <1>6 DEF TableNext

\* At first no bot is there.
LEMMA InitWellTold == TableInit => WellTold
  <1> SUFFICES ASSUME TableInit, NEW b \in Bots
               PROVE  Aware(session, dealt, inbox[b], toSession, bot[b], b)
    BY DEF WellTold
  <1>1. bot[b].pc = "none"
    BY DEF TableInit, NewBot
  <1>2. b \in Clients /\ b # Human
    BY TableAssumption
  <1>3. ~Member(session, b)
    BY <1>2, SessionAssumption DEF TableInit, Init, Member
  <1>4. None(toSession, From(b))
    <2> DEFINE m == Msg("JOIN", Human, 0)
    <2>1. toSession = <<m>> /\ m.user = Human
      BY DEF TableInit, Msg
    <2> HIDE DEF m
    <2>2. m \notin From(b)
      BY <1>2, <2>1 DEF From
    <2>3. \A k \in DOMAIN toSession : toSession[k] = m
      BY <2>1
    <2> QED BY <2>2, <2>3 DEF None
  <1> QED BY <1>1, <1>3, <1>4 DEF Aware

-----------------------------------------------------------------------------
(* Single answers *)

\* Places in a queue.
LEMMA PlacesFinite ==
  ASSUME NEW M, NEW q \in Seq(M), NEW A, A \subseteq DOMAIN q
  PROVE  IsFiniteSet(A)
  <1>1. Len(q) \in Nat /\ DOMAIN q = 1..Len(q)
    OBVIOUS
  <1>2. IsFiniteSet(1..Len(q))
    BY <1>1, FS_Interval
  <1>3. A \in SUBSET (1..Len(q))
    BY <1>1
  <1> QED BY <1>2, <1>3, FS_Subset

\* The first message is the only thing under way.
LEMMA OnlyAnswer ==
  ASSUME NEW A, NEW B, IsFiniteSet(A), IsFiniteSet(B), 1 \in B,
         Cardinality(A) + Cardinality(B) = 1
  PROVE  A = {} /\ \A k \in B : k = 1
  <1>1. Cardinality(A) \in Nat /\ Cardinality(B) \in Nat
    BY FS_CardinalityType
  <1>2. Cardinality(B) # 0
    BY FS_EmptySet
  <1>3. Cardinality(A) = 0 /\ Cardinality(B) = 1
    BY <1>1, <1>2
  <1>4. A = {}
    BY <1>3, FS_EmptySet
  <1>5. PICK x : B = {x}
    BY <1>3, FS_Singleton
  <1> QED BY <1>4, <1>5

\* Who is asked for a row is a player.
LEMMA ChooserPlays ==
  ASSUME Played, session.game_state = "WAITING_EXTRA"
  PROVE  PlaysIn(session, session.extra_wait_from)
  <1> DEFINE c == session.extra_wait_from
  <1>1. /\ Whole(session) /\ Sound(session) /\ Members(session)
        /\ InPlay(session, Playing(session)) /\ On(session)
    BY SessionFound DEF Whole, On
  <1>2. Playing(session) \subseteq Seated(session)
    BY <1>1, PlayersSeated
  <1>3. Member(session, c)
    <2> DEFINE s == session
               P == Playing(s)
    <2>1. Told(s, c)
      BY DEF Told
    <2>2. Sound(s) /\ P \subseteq Seated(s) /\ InPlay(s, P)
      BY <1>1, <1>2
    <2> HIDE DEF s, P, c
    <2>3. Member(s, c)
      BY <2>1, <2>2, ToldAreMembers
    <2> QED BY <2>3 DEF s
  <1>4. Index(session, c) \in Waiting(session)
    BY <1>1, <1>3, ChooserIs, TableAssumption
  <1>5. Waiting(session) \subseteq Playing(session)
    BY <1>1 DEF InPlay, Counted
  <1> QED BY <1>3, <1>4, <1>5 DEF PlaysIn, Playing

\* The answers that the session accepts stand for what the bots meant.
LEMMA ToldFresh == Played /\ Typed /\ WellTold => AnswersFresh
  <1> SUFFICES ASSUME Played, Typed, WellTold, toSession # << >> PROVE AnswersFresh
    BY DEF AnswersFresh
  <1> DEFINE m == Head(toSession)
             c == m.user
             i == Index(session, c)
             q == inbox[c]
             h == HandIn(session, dealt, c)
             w == bot[c]
  <1>1. toSession \in Seq(ToSessionMessages) /\ \A b \in Bots : inbox[b] \in Seq(Packets)
    BY DEF Typed, Boxed
  <1>2. ASSUME m.type = "INFO_RETURN", c \in Bots, session.game_state = "WAITING",
               Member(session, c), session.role[i] = "PLAYER", session.ready[i] = NoCard,
               w.pc = "running", UnderWay(c, "INFO", "INFO_RETURN") = 1
        PROVE  CardAt(session, i, m.arg) = w.chosen
    <2>1. /\ \A k \in DOMAIN q : q[k].type # "INFO"
          /\ 1 \in DOMAIN toSession /\ toSession[1] = m
          /\ \A k \in DOMAIN toSession :
               toSession[k].type = "INFO_RETURN" /\ toSession[k].user = c => k = 1
      <3> DEFINE A == {k \in DOMAIN q : q[k].type = "INFO"}
                 B == {k \in DOMAIN toSession : toSession[k].type = "INFO_RETURN"
                                                 /\ toSession[k].user = c}
      <3>1. Cardinality(A) + Cardinality(B) = 1
        BY <1>2 DEF UnderWay
      <3>2. 1 \in DOMAIN toSession /\ toSession[1] = m
        BY <1>1, QueueTail
      <3>3. 1 \in B
        BY <1>2, <3>2
      <3>4. q \in Seq(Packets)
        BY <1>1, <1>2
      <3>5. A \subseteq DOMAIN q /\ B \subseteq DOMAIN toSession
        OBVIOUS
      <3> HIDE DEF ToSessionMessages, Packets, q, A, B
      <3>6. IsFiniteSet(A) /\ IsFiniteSet(B)
        BY <1>1, <3>4, <3>5, PlacesFinite
      <3>7. A = {} /\ \A k \in B : k = 1
        BY <3>1, <3>3, <3>6, OnlyAnswer
      <3> QED BY <3>2, <3>7 DEF A, B
    <2>2. PlaysIn(session, c) /\ On(session) /\ Awaited(session, c)
      BY <1>2 DEF PlaysIn, On, Awaited
    <2>3. Informed(session, h, q, toSession, w, c)
      BY <1>2 DEF WellTold, Aware
    <2> HIDE DEF h, q, w
    <2>4. None(q, InfoPackets)
      BY <2>1 DEF None, InfoPackets
    <2>5. LatestIn(toSession, Answers(c, "INFO_RETURN"), CardMeant(h, w.chosen))
      BY <2>2, <2>3, <2>4 DEF Informed
    <2>6. toSession[1] \in CardMeant(h, w.chosen)
      <3>1. m \in ToSessionMessages
        <4> HIDE DEF ToSessionMessages
        <4> QED BY <1>1, <2>1
      <3> HIDE DEF ToSessionMessages
      <3>2. toSession[1] \in Answers(c, "INFO_RETURN")
        BY <1>2, <2>1, <3>1 DEF Answers
      <3>3. \A j \in DOMAIN toSession : toSession[j] \in Answers(c, "INFO_RETURN") => j = 1
        BY <2>1 DEF Answers
      <3>4. \A j \in DOMAIN toSession : toSession[j] \in Answers(c, "INFO_RETURN") => j <= 1
        BY <3>3
      <3> QED BY <2>1, <2>5, <3>2, <3>4 DEF LatestIn
    <2>7. CardIn(h, m.arg) = w.chosen
      BY <2>1, <2>6 DEF CardMeant
    <2>8. VisibleHand(session, i) = h
      BY <2>2, PlayerSees DEF h
    <2> QED BY <2>7, <2>8 DEF CardAt, CardIn, w
  <1>3. ASSUME m.type = "RESPONSE_EXTRA", c \in Bots, session.game_state = "WAITING_EXTRA",
               c = session.extra_wait_from, w.pc = "running",
               UnderWay(c, "REQUEST_EXTRA", "RESPONSE_EXTRA") = 1
        PROVE  RowOK(session, m.arg)
    <2>1. /\ \A k \in DOMAIN q : q[k].type # "REQUEST_EXTRA"
          /\ 1 \in DOMAIN toSession /\ toSession[1] = m
          /\ \A k \in DOMAIN toSession :
               toSession[k].type = "RESPONSE_EXTRA" /\ toSession[k].user = c => k = 1
      <3> DEFINE A == {k \in DOMAIN q : q[k].type = "REQUEST_EXTRA"}
                 B == {k \in DOMAIN toSession : toSession[k].type = "RESPONSE_EXTRA"
                                                 /\ toSession[k].user = c}
      <3>1. Cardinality(A) + Cardinality(B) = 1
        BY <1>3 DEF UnderWay
      <3>2. 1 \in DOMAIN toSession /\ toSession[1] = m
        BY <1>1, QueueTail
      <3>3. 1 \in B
        BY <1>3, <3>2
      <3>4. q \in Seq(Packets)
        BY <1>1, <1>3
      <3>5. A \subseteq DOMAIN q /\ B \subseteq DOMAIN toSession
        OBVIOUS
      <3> HIDE DEF ToSessionMessages, Packets, q, A, B
      <3>6. IsFiniteSet(A) /\ IsFiniteSet(B)
        BY <1>1, <3>4, <3>5, PlacesFinite
      <3>7. A = {} /\ \A k \in B : k = 1
        BY <3>1, <3>3, <3>6, OnlyAnswer
      <3> QED BY <3>2, <3>7 DEF A, B
    <2>2. PlaysIn(session, c) /\ On(session) /\ Chooses(session, c)
      <3>1. PlaysIn(session, session.extra_wait_from)
        BY <1>3, ChooserPlays
      <3> QED BY <1>3, <3>1 DEF On, Chooses
    <2>3. Informed(session, h, q, toSession, w, c)
      BY <1>3 DEF WellTold, Aware
    <2> HIDE DEF h, q, w
    <2>4. None(q, Asks)
      BY <2>1 DEF None, Asks
    <2>5. LatestIn(toSession, Answers(c, "RESPONSE_EXTRA"), RowMeant(session))
      BY <2>2, <2>3, <2>4 DEF Informed
    <2>6. toSession[1] \in RowMeant(session)
      <3>1. m \in ToSessionMessages
        <4> HIDE DEF ToSessionMessages
        <4> QED BY <1>1, <2>1
      <3> HIDE DEF ToSessionMessages
      <3>2. toSession[1] \in Answers(c, "RESPONSE_EXTRA")
        BY <1>3, <2>1, <3>1 DEF Answers
      <3>3. \A j \in DOMAIN toSession : toSession[j] \in Answers(c, "RESPONSE_EXTRA") => j = 1
        BY <2>1 DEF Answers
      <3>4. \A j \in DOMAIN toSession : toSession[j] \in Answers(c, "RESPONSE_EXTRA") => j <= 1
        BY <3>3
      <3> QED BY <2>1, <2>5, <3>2, <3>4 DEF LatestIn
    <2> QED BY <2>1, <2>6 DEF RowMeant
  <1> QED BY <1>2, <1>3 DEF AnswersFresh, RowOK

-----------------------------------------------------------------------------
(* The theorems *)

\* However late the bots are, and whatever the user types, START between games
\* only: the session goes on as the invariant of Session has it, under its first
\* rules, and START is also handled between games and finds a hand for everybody.
THEOREM TableInOrder == TableSpec => []Played
  BY InitPlayed, NextPlayed, PTL DEF TableSpec

\* The session that packets, bots and the user's commands move is a behaviour of
\* Session: every index that is accepted stands for a card of the hand, every
\* row for one of the board, and a START typed between games is not handled in one.
THEOREM TablePlaysSession == TableSpec => PlaysSession
  BY InitPlayed, NextPlayed, TableInOrder, PTL DEF TableSpec, PlaysSession

\* So all that is shown of sessions which are started well is true of it: one rule
\* book with cards for everybody, and no START during a game.
THEOREM TableKeepsRules ==
  TableSpec => [](TypeOK /\ CardsDistinct /\ ExtraWaitOK /\ SomeoneCanPlay)
  BY InvariantTypes, InvariantDistinct, InvariantChooser, InvariantPlayer,
     TableInOrder, PTL DEF Played

\* Filled has no condition left at a table: the deck has a card for each row, and
\* a question that is not sent is not among the losses that it has.
LEMMA PlayedFilled == Played => RowsNeverEmpty
  <1> SUFFICES ASSUME Played, session.game_state # "INACTIVE", NEW r \in Rows(session)
               PROVE  session.board[r] # << >>
    BY DEF RowsNeverEmpty
  <1>1. On(session) /\ Filled(session) /\ session.rules = DefaultRules
    BY DEF Played, GameInv, Whole, InPlay, Sound, On
  <1>2. ~BusMayFill /\ DefaultRules.nbrLign <= DefaultRules.nbrCards
    <2> DEFINE size == DefaultRules.nbrCardsPlayer
               dealing == size * GameCapacity
    <2>1. /\ DefaultRules.nbrLign \in Nat /\ DefaultRules.nbrCards \in Nat
          /\ size \in Nat /\ GameCapacity \in Nat
      <3>1. DefaultRules \in Rules /\ GameCapacity \in 1..255
        BY OneRuleBook, SessionAssumption
      <3> QED BY <3>1, GameAssumption
    <2>2. DefaultRules.nbrLign + dealing <= DefaultRules.nbrCards
      BY OneRuleBook DEF Ample
    <2> HIDE DEF size
    <2>3. dealing \in Nat
      BY <2>1
    <2> HIDE DEF dealing
    <2>4. DefaultRules.nbrLign <= DefaultRules.nbrCards
      BY <2>1, <2>2, <2>3
    <2>5. ~BusMayFill
      BY TableAssumption
    <2> QED BY <2>4, <2>5
  <1> QED BY <1>1, <1>2 DEF Filled

\* While a game is on no row is empty, however late the answer to a request for a
\* row: whoever's choice is accepted still has a card to put there, and no bot
\* reads a cell before the row that it looks at.
THEOREM RowsAreNeverEmpty == TableSpec => []RowsNeverEmpty
  BY PlayedFilled, TableInOrder, PTL

\* What is under way is a packet that its receiver knows, with indices in their
\* ranges; a bot knows the rules of the session or none, and has nothing to read
\* before it runs or once it has ended.
THEOREM TableTypeCorrect == TableSpec => []TableTypeOK
  <1>1. TableSpec => []Typed
    BY InitPlayed, InitTyped, NextTyped, TableInOrder, PTL DEF TableSpec
  <1> QED BY <1>1, TypedTypes, TableInOrder, PTL

\* An answer that the session is about to accept means what its sender meant: the
\* card that the bot chose, and the cheapest row, late as the answer may be.
THEOREM AnswersStayFresh == TableSpec => []AnswersFresh
  <1>1. TableSpec => []Played
    BY InitPlayed, NextPlayed, PTL DEF TableSpec
  <1>2. TableSpec => [](Played /\ Typed)
    BY <1>1, InitTyped, NextTyped, PTL DEF TableSpec
  <1>3. TableSpec => [](Played /\ Typed /\ WellTold)
    BY <1>2, InitWellTold, NextWellTold, PTL DEF TableSpec
  <1> QED BY <1>3, ToldFresh, PTL
=============================================================================
