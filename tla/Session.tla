------------------------------ MODULE Session -------------------------------
(***************************************************************************)
(* One game session: the thread of src/Session/session.c with the message  *)
(* handlers of message_handler.c and the game of src/Session/Game.  The    *)
(* variable session is session_t with its game_t and players[]; an         *)
(* operator that the code runs on the struct is an operator on the record. *)
(* Each action handles one message popped from the bus, the whole of it.   *)
(*                                                                         *)
(* The model follows a session from the first JOIN until it asks to be     *)
(* unregistered; SessionLifecycle covers what happens after that.  Packets *)
(* sent to clients are left out, except that the request for a row is lost *)
(* when the bus is full (the parameter sent of the operators below).       *)
(***************************************************************************)
EXTENDS Game

CONSTANTS Clients,         \* user ids
          NoClient,        \* user id 0
          GameCapacity,    \* session->game_capacity
          Shuffles,        \* the outcomes of melange_ids considered: two orders
                           \* of the largest deck, for the heads and the cards
          MaxDeals,        \* bound on the number of deals explored
          BusMayFill,      \* may a push on the session's bus fail
          MidGameStart     \* may START_SESSION arrive while a game is on

\* init_game refuses rules that leave no card for the board; the product is cut
\* to a uint8_t.
InitFails(r) == r.nbrCards <= (r.nbrCardsPlayer * GameCapacity) % 256

ASSUME SessionAssumption ==
  /\ NoClient \notin Clients
  /\ GameCapacity \in 1..255 /\ ~InitFails(DefaultRules)
  /\ MaxDeals \in Nat
  /\ \A shuffle \in Shuffles :
       {shuffle.heads, shuffle.cards} \subseteq Bijection(1..Cardinality(Cards), Cards)
  /\ {BusMayFill, MidGameStart} \subseteq BOOLEAN

VARIABLES session,  \* session_t, game_t and player_t
          deals,    \* how many times cards were dealt
          fault     \* the thread has made an access outside its memory

vars == <<session, deals, fault>>

NoHand == {NoCard}   \* player_cards_id is NULL
NoHeads == << >>     \* the deck is not initialized
EmptyBoard(r) == [row \in 0..(r.nbrLign - 1) |-> << >>]

Init ==
  /\ session =
       [player_id    |-> [i \in Slots |-> NoClient],
        role         |-> [i \in Slots |-> "NONE"],
        is_connected |-> [i \in Slots |-> FALSE],
        hand         |-> [i \in Slots |-> NoHand],
        room         |-> [i \in Slots |-> 0],
        nb_head      |-> [i \in Slots |-> 0],
        id_creator |-> NoClient, number_clients |-> 0, active_players |-> 0,
        unregister_send |-> 0,
        game_state |-> "INACTIVE", extra_wait_from |-> NoClient,
        rules |-> DefaultRules, freed |-> FALSE, heads |-> NoHeads,
        board |-> EmptyBoard(DefaultRules),
        ready |-> [i \in Slots |-> NoCard], ready_count |-> 0]
  /\ deals = 0 /\ fault = FALSE

-----------------------------------------------------------------------------
(* Lookup: get_index_by_id, get_first_free_player_place *)

Member(s, c) == \E i \in Slots : s.role[i] # "NONE" /\ s.player_id[i] = c
Index(s, c) == Min({i \in Slots : s.role[i] # "NONE" /\ s.player_id[i] = c})
Free(s) == {i \in Slots : s.player_id[i] = NoClient}
Occupied(s) == Slots \ Free(s)
Playing(s) == {i \in Slots : s.role[i] = "PLAYER"}
Seated(s) == Playing(s) \cap Occupied(s)
HandOf(s, i) == IF s.hand[i] = NoHand THEN {} ELSE s.hand[i]

-----------------------------------------------------------------------------
(* Resolving a round *)

\* Faulty variant: the count of cards survives the round.
ResolveKeepingCount(s, sent) ==
  LET p == PlaceAll(s)
  IN  IF Blocked(p)
      THEN [p EXCEPT !.game_state = "WAITING_EXTRA",
                     !.extra_wait_from = p.player_id[LowestSlot(p)]]
      ELSE [p EXCEPT !.game_state = "WAITING"]

\* game_send_request_extra: the owner of the lowest card is asked for a row, and
\* his answer awaited only if the request was sent.
AskForRow(s, sent) ==
  LET owner == s.player_id[LowestSlot(s)]
  IN  [s EXCEPT !.game_state = "WAITING_EXTRA",
                !.extra_wait_from = IF sent /\ owner # NoClient THEN owner ELSE @]

\* checking_cards: no card left, or no hand.
OutOfCards(s, i) == s.hand[i] \in {NoHand, {}}

\* place_card and handle_result_of_play: the game ends with a player's last card.
Resolve(s, sent) ==
  LET p == PlaceAll(s)
      result[placed \in {p}] ==
        IF Blocked(placed) THEN AskForRow(placed, sent)
        ELSE [placed EXCEPT !.ready_count = 0,
                            !.game_state =
                               IF \E i \in Seated(placed) : OutOfCards(placed, i)
                               THEN "INACTIVE" ELSE "WAITING"]
  IN  result[p]

\* Faulty variant: every slot must have a card ready, observers included.
StartMoveAllSlots(s, sent) ==
  IF /\ s.game_state \in {"WAITING", "WAITING_EXTRA"}
     /\ s.ready_count >= s.number_clients /\ s.ready_count > 0
  THEN Resolve(s, sent)
  ELSE s

\* start_move and handle_result_of_play: the round is resolved once as many
\* cards have been counted as there are players.
Due(s) == /\ s.game_state \in {"WAITING", "WAITING_EXTRA"}
          /\ s.ready_count >= s.active_players /\ s.ready_count > 0

StartMove(s, sent) ==
  IF Due(s)
  THEN Resolve([s EXCEPT !.ready =
                  [i \in Slots |-> IF i \in Free(s) \ Playing(s)
                                   THEN NoCard ELSE s.ready[i]]],
               sent)
  ELSE s

-----------------------------------------------------------------------------
(* Membership *)

\* The new creator when the one in slot i goes.  Both loops of remove_player
\* stop at the first other slot, whether or not it qualifies.
Heir(s, i) ==
  LET first == IF i = 0 THEN 1 ELSE 0
  IN  IF s.role[first] = "NONE" THEN s.id_creator ELSE s.player_id[first]

\* Faulty variants: a departing player's card is left to be placed, and his
\* place among the active players is kept.
WithdrawKeepingCard(s, i, sent) ==
  LET t == [s EXCEPT !.active_players = @ - 1]
  IN  IF s.game_state = "INACTIVE" THEN t ELSE StartMove(t, sent)

WithdrawUncounted(s, i, sent) ==
  IF s.game_state = "INACTIVE" THEN s
  ELSE StartMove([s EXCEPT !.ready[i] = NoCard], sent)

\* What both remove_player and change_player_role do to the game when the
\* player in slot i stops playing; the role is changed only afterwards.
Withdraw(s, i, sent) ==
  LET t == [s EXCEPT !.active_players = @ - 1]
  IN  IF s.game_state = "INACTIVE" THEN t
      ELSE StartMove([t EXCEPT !.ready[i] = NoCard], sent)

\* remove_player
RemovePlayer(s, c, sent) ==
  LET i == Index(s, c)
      t == IF c = s.id_creator /\ s.number_clients > 1
           THEN [s EXCEPT !.id_creator = Heir(s, i)] ELSE s
      u == IF s.role[i] = "PLAYER" THEN Withdraw(t, i, sent) ELSE t
  IN  IF ~Member(s, c) THEN s
      ELSE [u EXCEPT !.number_clients = @ - 1,
                     !.player_id[i] = NoClient, !.role[i] = "NONE",
                     !.is_connected[i] = FALSE,
                     !.hand[i] = NoHand, !.room[i] = 0]

\* The loops over players[] that remove everybody.
RemoveAll(s, sent) ==
  LET rest[n \in 0..MaxClients] ==
        IF n = 0 THEN s
        ELSE RemovePlayer(rest[n - 1], rest[n - 1].player_id[n - 1], sent)
  IN  rest[MaxClients]

\* change_player_role(..., ROLE_OBSERVER); the other direction has no caller.
MakeObserver(s, c, sent) ==
  LET i == Index(s, c)
  IN  IF s.role[i] = "OBSERVER" THEN s
      ELSE [Withdraw([s EXCEPT !.hand[i] = NoHand, !.room[i] = 0], i, sent)
              EXCEPT !.role[i] = "OBSERVER"]

\* add_player in the first free slot, which keeps the score it had; the hand has
\* room for the cards that the rules of the moment give.
AddPlayer(s, c, newRole) ==
  LET i == Min(Free(s))
      room == IF newRole = "PLAYER" THEN s.rules.nbrCardsPlayer ELSE 0
  IN  [s EXCEPT !.player_id[i] = c, !.role[i] = newRole,
                !.is_connected[i] = TRUE,
                !.hand[i] = IF room > 0 THEN {} ELSE NoHand, !.room[i] = room,
                !.number_clients = @ + 1,
                !.active_players = IF newRole = "PLAYER" THEN @ + 1 ELSE @]

\* What an accepted JOIN does; the first client is the creator, and his coming
\* makes the session forget that it asked to be unregistered.
Admissible(s, c) == s.number_clients < MaxClients /\ ~Member(s, c)

AfterJoin(s, c) ==
  AddPlayer(IF s.number_clients = 0
            THEN [s EXCEPT !.id_creator = c, !.unregister_send = 0] ELSE s,
            c,
            IF s.game_state = "INACTIVE" /\ s.active_players < GameCapacity
            THEN "PLAYER" ELSE "OBSERVER")

\* USER_LEFT about a member: when nobody is connected any more, everybody is
\* removed and the session asks to be unregistered.
AfterUserLeft(s, c, sent) ==
  LET t == [MakeObserver(s, c, sent) EXCEPT !.is_connected[Index(s, c)] = FALSE]
  IN  IF \E i \in Slots : t.is_connected[i] THEN t
      ELSE [RemoveAll(t, sent) EXCEPT !.unregister_send = 1]

\* PKT_SESSION_CLOSE from the creator.
AfterClose(s, sent) ==
  [RemoveAll([s EXCEPT !.game_state = "INACTIVE"], sent)
     EXCEPT !.unregister_send = 1]

-----------------------------------------------------------------------------
(* Rules and dealing *)

\* session_handle_set_rules once the rules are accepted: the arrays are freed and
\* allocated anew, unless init_game refuses the rules, which leaves them freed.
WithRules(s, r) ==
  IF InitFails(r) THEN [s EXCEPT !.freed = TRUE]
  ELSE [s EXCEPT !.rules = r, !.heads = NoHeads, !.board = EmptyBoard(r),
                 !.ready = [i \in Slots |-> NoCard], !.ready_count = 0]

\* The players that the deck suffices for: its first cards start the rows.
Rank(s, i) == Cardinality({j \in Seated(s) : j < i})
Served(s) ==
  {i \in Seated(s) :
     s.rules.nbrLign + (Rank(s, i) + 1) * s.rules.nbrCardsPlayer <= s.rules.nbrCards}

\* The next cards go to the players in the order of their slots.
HandDealt(s, ids, i) ==
  LET first == s.rules.nbrLign + Rank(s, i) * s.rules.nbrCardsPlayer
  IN  SubSeq(ids, first + 1, first + s.rules.nbrCardsPlayer)

\* distrib_cards
Deal(s, shuffle) ==
  LET r == s.rules
      ids == Shuffled(shuffle.cards, r.nbrCards)
      Dealt(i) == ToSet(HandDealt(s, ids, i))
  IN  [s EXCEPT !.heads = HeadsOf(Shuffled(shuffle.heads, r.nbrCards), r.nbHead),
                !.board = [row \in Rows(s) |->
                             IF row < r.nbrCards THEN <<ids[row + 1]>> ELSE << >>],
                !.hand = [i \in Slots |-> IF i \in Served(s) /\ s.hand[i] # NoHand
                                          THEN Dealt(i) ELSE s.hand[i]],
                !.game_state = "WAITING"]

\* START writes to freed arrays, or counts the cards of a null hand.
StartCrashes(s) ==
  \/ s.freed
  \/ s.rules.nbrCardsPlayer > 0 /\ \E i \in Seated(s) : s.hand[i] = NoHand

\* START writes past the end of a hand allocated under other rules, or sends one
\* that was never filled; either may go unnoticed.
StartStrays(s) ==
  \/ \E i \in Seated(s) : s.room[i] < s.rules.nbrCardsPlayer
  \/ Served(s) # Seated(s)

-----------------------------------------------------------------------------
(* The messages *)

\* The loop of session_main handles messages until it has asked to be
\* unregistered.
Handling == ~fault /\ session.unregister_send = 0

SentOutcomes == IF BusMayFill THEN BOOLEAN ELSE {TRUE}

\* PKT_SESSION_JOIN; a member, or anybody when all slots are taken, is refused.
Join(c) ==
  /\ Handling /\ Admissible(session, c)
  /\ session' = AfterJoin(session, c)
  /\ UNCHANGED <<deals, fault>>

\* PKT_SESSION_LEAVE and USER_UNREGISTER.
Leave(c) ==
  /\ Handling /\ Member(session, c)
  /\ \E sent \in SentOutcomes : session' = RemovePlayer(session, c, sent)
  /\ UNCHANGED <<deals, fault>>

\* USER_LEFT: the connection of c is gone.
UserLeft(c) ==
  /\ Handling /\ Member(session, c)
  /\ \E sent \in SentOutcomes : session' = AfterUserLeft(session, c, sent)
  /\ UNCHANGED <<deals, fault>>

\* PKT_SESSION_CLOSE, accepted from the creator only.
Close(c) ==
  /\ Handling /\ c = session.id_creator
  /\ \E sent \in SentOutcomes : session' = AfterClose(session, sent)
  /\ UNCHANGED <<deals, fault>>

\* Rules set after the last game would govern no game that is explored.
GameToCome == session.game_state # "INACTIVE" \/ deals < MaxDeals

\* PKT_SESSION_SET_GAME_RULES is accepted from the creator between games.
RulesAccepted(c, r) ==
  /\ Handling /\ GameToCome /\ c = session.id_creator
  /\ session.game_state = "INACTIVE"
  /\ r.nbrCards >= r.nbrCardsPlayer * GameCapacity

\* Faulty variant: the rules may be changed during a game.
SetRulesAnyTime(c) ==
  /\ Handling /\ GameToCome /\ c = session.id_creator
  /\ ~session.freed
  /\ \E r \in RuleSets :
       /\ r.nbrCards >= r.nbrCardsPlayer * GameCapacity
       /\ session' = WithRules(session, r)
  /\ UNCHANGED <<deals, fault>>

SetRules(c) ==
  /\ ~session.freed
  /\ \E r \in RuleSets : RulesAccepted(c, r) /\ session' = WithRules(session, r)
  /\ UNCHANGED <<deals, fault>>

\* The same packet after one that init_game refused: the arrays are freed twice.
SetRulesWild(c) ==
  /\ session.freed
  /\ \E r \in RuleSets : RulesAccepted(c, r)
  /\ fault' = TRUE
  /\ UNCHANGED <<session, deals>>

\* PKT_START_SESSION, accepted from the creator only, in any game state.
StartAccepted(c) ==
  /\ Handling /\ c = session.id_creator
  /\ MidGameStart \/ session.game_state = "INACTIVE"
  /\ deals < MaxDeals /\ deals' = deals + 1

StartSession(c) ==
  /\ StartAccepted(c) /\ ~StartCrashes(session)
  /\ \E shuffle \in Shuffles : session' = Deal(session, shuffle)
  /\ UNCHANGED fault

StartWild(c) ==
  /\ StartAccepted(c)
  /\ StartCrashes(session) \/ StartStrays(session)
  /\ fault' = TRUE
  /\ UNCHANGED session

\* PKT_SESSION_INFO_RETURN accepted: a card of the hand is put aside.
InfoReturn(c) ==
  LET i == Index(session, c)
  IN  /\ Handling /\ session.game_state = "WAITING"
      /\ Member(session, c) /\ session.ready[i] = NoCard
      /\ session.role[i] = "PLAYER"
      /\ \E card \in HandOf(session, i), sent \in SentOutcomes :
           session' = StartMove([session EXCEPT !.hand[i] = @ \ {card},
                                                !.ready[i] = card,
                                                !.ready_count = @ + 1], sent)
      /\ UNCHANGED <<deals, fault>>

\* The same packet refused (wrong state, card already given, no such card):
\* start_move is called all the same.
InfoReturnRefused ==
  /\ Handling
  /\ \E sent \in SentOutcomes : session' = StartMove(session, sent)
  /\ UNCHANGED <<deals, fault>>

\* The same packet from an observer dereferences his null hand; from a
\* non-member it reads far outside the arrays.
InfoReturnWild(c) ==
  /\ Handling /\ session.game_state = "WAITING"
  /\ Member(session, c) => session.role[Index(session, c)] = "OBSERVER"
  /\ fault' = TRUE
  /\ UNCHANGED <<session, deals>>

\* PKT_RESPONSE_EXTRA from the player who was asked to choose a row.
ResponseExtra(c) ==
  /\ Handling /\ session.game_state = "WAITING_EXTRA"
  /\ c = session.extra_wait_from /\ Member(session, c)
  /\ \E row \in Rows(session), sent \in SentOutcomes :
       session' = Resolve(TakeLine(session, row, Index(session, c)), sent)
  /\ UNCHANGED <<deals, fault>>

\* The same packet with a row that is not on the board, or from a player who was
\* asked and has gone since: an access outside the arrays.
ResponseExtraWild(c) ==
  /\ Handling /\ session.game_state = "WAITING_EXTRA"
  /\ c = session.extra_wait_from
  /\ fault' = TRUE
  /\ UNCHANGED <<session, deals>>

\* The end of a batch that left the session empty.
EndOfBatch ==
  /\ Handling /\ session.id_creator # NoClient
  /\ session.number_clients = 0
  /\ session' = [session EXCEPT !.unregister_send = 1]
  /\ UNCHANGED <<deals, fault>>

Next ==
  \/ \E c \in Clients :
       \/ Join(c) \/ Leave(c) \/ UserLeft(c) \/ Close(c)
       \/ SetRules(c) \/ SetRulesWild(c) \/ StartSession(c) \/ StartWild(c)
       \/ InfoReturn(c) \/ InfoReturnWild(c)
       \/ ResponseExtra(c) \/ ResponseExtraWild(c)
  \/ InfoReturnRefused
  \/ EndOfBatch

\* The programs of the players answer what they are asked.
Fairness == \A c \in Clients : WF_vars(InfoReturn(c)) /\ WF_vars(ResponseExtra(c))

Spec == Init /\ [][Next]_vars /\ Fairness

-----------------------------------------------------------------------------
(* Properties *)

TypeOK ==
  /\ session.player_id \in [Slots -> Clients \cup {NoClient}]
  /\ session.role \in [Slots -> {"NONE", "PLAYER", "OBSERVER"}]
  /\ session.is_connected \in [Slots -> BOOLEAN]
  /\ session.hand \in [Slots -> (SUBSET Cards) \cup {NoHand}]
  /\ session.room \in [Slots -> 0..255]
  /\ session.nb_head \in [Slots -> 0..255]
  /\ session.id_creator \in Clients \cup {NoClient}
  /\ session.number_clients \in 0..MaxClients
  /\ session.active_players \in 0..MaxClients
  /\ session.unregister_send \in {0, 1}
  /\ session.game_state \in {"INACTIVE", "WAITING", "WAITING_EXTRA"}
  /\ session.extra_wait_from \in Clients \cup {NoClient}
  /\ session.rules \in Rules /\ session.freed \in BOOLEAN
  /\ session.heads = NoHeads \/ DOMAIN session.heads = 0..(session.rules.nbrCards - 1)
  /\ session.board \in [Rows(session) -> Seq(Cards)]
  /\ session.ready \in [Slots -> Cards \cup {NoCard}]
  /\ session.ready_count \in 0..MaxClients
  /\ deals \in 0..MaxDeals /\ fault \in BOOLEAN

\* The counters that the handlers keep by hand agree with the slots, no client
\* holds two slots, and the rules' player limit is respected, through any
\* sequence of joins, leaves and lost connections.
MembershipOK ==
  /\ session.number_clients = Cardinality(Occupied(session))
  /\ session.active_players = Cardinality(Playing(session))
  /\ session.active_players <= GameCapacity
  /\ \A i \in Slots : session.role[i] = "NONE" <=> i \in Free(session)
  /\ \A i, j \in Occupied(session) :
       session.player_id[i] = session.player_id[j] => i = j

\* Where each card is: the board, the card put aside by a slot, or its hand.
OnBoard(s) == UNION {ToSet(s.board[row]) : row \in Rows(s)}
PutAside(s) == {s.ready[i] : i \in Waiting(s)}

\* A card of the deal is in one place at most: two rows, two players or the
\* board and a hand never hold the same card.
CardsDistinct ==
  /\ \A r \in Rows(session) :
       /\ Len(session.board[r]) <= session.rules.nbrCardsLign
       /\ IsSorted(session.board[r], <)
       /\ \A q \in Rows(session) \ {r} :
            ToSet(session.board[r]) \cap ToSet(session.board[q]) = {}
  /\ \A i, j \in Slots :
       /\ i # j => HandOf(session, i) \cap HandOf(session, j) = {}
       /\ i # j /\ i \in Waiting(session) => session.ready[i] # session.ready[j]
       /\ i \in Waiting(session) => session.ready[i] \notin HandOf(session, j)
  /\ OnBoard(session) \cap PutAside(session) = {}
  /\ \A i \in Slots : OnBoard(session) \cap HandOf(session, i) = {}

\* While the game waits for a row, the owner of the lowest card still plays and
\* really has no row to put it on; unless the request to him was lost because the
\* bus was full, he is the one whose answer will be accepted.
ExtraWaitOK ==
  session.game_state = "WAITING_EXTRA" /\ session.unregister_send = 0 =>
     /\ Blocked(session)
     /\ LET i == LowestSlot(session)
        IN  /\ session.role[i] = "PLAYER"
            /\ BusMayFill \/ session.player_id[i] = session.extra_wait_from

\* While a game is on the arrays are live and every player has a hand, whatever
\* rules were set or refused before: a player's own card touches no null pointer.
HandsAllocated ==
  session.game_state # "INACTIVE" =>
    /\ ~session.freed
    /\ \A i \in Playing(session) :
         session.hand[i] # NoHand \/ session.rules.nbrCardsPlayer = 0

\* Rules with cards for the board and for as many players as they allow.
Ample(r) == /\ r.nbrCardsPlayer > 0
            /\ r.nbrLign + r.nbrCardsPlayer * GameCapacity <= r.nbrCards

\* While the game waits for cards and still has players, one of them has a
\* card to give: the round can be completed.  SET_GAME_RULES also accepts decks
\* that leave the last players without cards; the property is not about those.
SomeoneCanPlay ==
  session.game_state = "WAITING" /\ session.active_players > 0
    /\ Ample(session.rules) =>
     \E i \in Playing(session) : session.ready[i] = NoCard /\ HandOf(session, i) # {}

\* Nobody's penalty is lost or counted twice: between two deals, and while the
\* players stay, the heads of the scores and of the cards in play add up to the
\* same total, modulo the width of a score.
HeadsInPlay(s) ==
  SumFunction(s.nb_head)
    + MapThenSumSet(LAMBDA c : s.heads[c],
                    (OnBoard(s) \cup PutAside(s)
                       \cup UNION {HandOf(s, i) : i \in Slots}) \cap DOMAIN s.heads)
HeadsConserved ==
  [][ session.role' = session.role /\ deals' = deals /\ session.heads' = session.heads
        => HeadsInPlay(session)' % 256 = HeadsInPlay(session) % 256 ]_vars

\* A game that has started comes to its end as long as it has players.
GameFinishes ==
  session.game_state # "INACTIVE"
    ~> \/ session.game_state = "INACTIVE" \/ session.active_players = 0
       \/ session.unregister_send = 1 \/ fault

\* README.md:23, "FSM ... (Distribution, Attente des coups, Resolution)": the
\* cards of a round are placed only when every player who stays has given his.
RoundWaitsForAll ==
  [][ /\ session.game_state = "WAITING" /\ deals' = deals
      /\ session'.game_state = "WAITING_EXTRA" \/ session'.board # session.board
      => \A i \in Playing(session) \cap Playing(session') :
            \/ session.ready[i] # NoCard
            \/ session'.hand[i] # session.hand[i] ]_vars
=============================================================================
