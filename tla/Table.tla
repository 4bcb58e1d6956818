-------------------------------- MODULE Table --------------------------------
(***************************************************************************)
(* A session played by one user (src/User) and the bots that he adds       *)
(* (src/Bot): Session with the packets that move it.  The variable         *)
(* toSession holds what is on its way to the session's thread, inbox what  *)
(* is on its way to each bot; both are FIFO, through the bus, the server's *)
(* thread and a connection.  A bot takes any time to handle a packet, so   *)
(* its answers may be late by any number of messages.                      *)
(*                                                                         *)
(* The server's part is reduced to passing packets on; SessionLifecycle    *)
(* has its idea of who is in the session.  What the session sends to the   *)
(* user is only displayed, and left out: while he is connected he may type *)
(* any command, asked or not.                                              *)
(***************************************************************************)
EXTENDS Session, Bot

CONSTANTS Human,        \* the user who creates the session
          Bots,         \* the bots that he may add, as user ids
          Requests,     \* what he asks for with add_bot, as <<number, level>>
          TypedRows,    \* the rows that he may type
          MaxCommands,  \* bound on his commands but START, and on lost connections
          MaxAhead      \* bound on those under way when he types another

\* The programs never send SET_GAME_RULES.  The simulation of a bot has room for
\* four rows, and rules that deal everybody a hand keep START safe.
ASSUME TableAssumption ==
  /\ Clients = {Human} \cup Bots /\ Human \notin Bots
  /\ RuleSets = {} /\ DefaultRules.nbrLign <= 4 /\ Ample(DefaultRules)
  /\ MidGameStart = FALSE /\ BusMayFill = FALSE
  /\ Requests \subseteq (1..Cardinality(Bots)) \X (0..2)
  /\ TypedRows \subseteq Rows([rules |-> DefaultRules])
  /\ {MaxCommands, MaxAhead} \subseteq Nat

VARIABLES toSession,  \* packets and system messages for the session's thread
          inbox,      \* packets for each bot
          bot,        \* bot_t
          dealt,      \* the cards dealt to each slot, in the order of the hand
          commands,   \* how many of those there were
          online      \* is the user connected

userVars == <<commands, online>>
clientVars == <<bot, userVars>>
tableVars == <<vars, toSession, inbox, dealt, clientVars>>

NoRules == [nbrLign |-> 0, nbrCardsLign |-> 0, nbrCardsPlayer |-> 0,
            nbrCards |-> 0, nbHead |-> 0]

\* A bot's state: of its rules and cards seen it knows nothing at first;
\* chosen is the card that its last answer means.
NewBot == [pc |-> "none", level |-> 0, rules |-> NoRules, placed_cards |-> {},
           index_row_to_take |-> -1, chosen |-> NoCard]

Msg(type, user, arg) == [type |-> type, user |-> user, arg |-> arg]
Packet(type) == [type |-> type]

\* PKT_SESSION_CREATE has made the session and sent it the creator's JOIN.
TableInit ==
  /\ Init
  /\ toSession = <<Msg("JOIN", Human, 0)>>
  /\ inbox = [b \in Bots |-> << >>] /\ bot = [b \in Bots |-> NewBot]
  /\ dealt = [i \in Slots |-> << >>]
  /\ commands = 0 /\ online = TRUE

-----------------------------------------------------------------------------
(* What the session sends *)

\* The hand as session_send_info shows it: the cards left, in their order.
VisibleHand(s, i) ==
  LET hand == dealt[i]
      left[k \in 0..Len(hand)] ==
        IF k = 0 THEN << >>
        ELSE IF hand[k] \in HandOf(s, i) THEN Append(left[k - 1], hand[k]) ELSE left[k - 1]
  IN  IF s.role[i] = "PLAYER" THEN left[Len(hand)] ELSE << >>

\* Faulty variant: the index counts the places of the hand, played ones too.
CardAtPlace(s, i, index) ==
  IF index + 1 \in DOMAIN dealt[i] THEN dealt[i][index + 1] ELSE NoCard

\* get_real_index_from_visible: the card that an index stands for.
CardAt(s, i, index) ==
  LET hand == VisibleHand(s, i)
  IN  IF index + 1 \in DOMAIN hand THEN hand[index + 1] ELSE NoCard

\* session_send_state and session_send_info
State(s) == [type |-> "STATE", rules |-> s.rules]
Info(s, b) == [type |-> "INFO", board |-> s.board, heads |-> s.heads,
               hand |-> VisibleHand(s, Index(s, b)),
               player_count |-> Cardinality(Seated(s))]

\* Faulty variant: packets are also queued for a bot that is gone.
SendToAnybody(in, b, packets) ==
  IF b \in Bots THEN [in EXCEPT ![b] = @ \o packets] ELSE in

\* The packet goes to a bot whose program still runs.
SendTo(in, b, packets) ==
  IF b \in Bots /\ bot[b].pc = "running" THEN [in EXCEPT ![b] = @ \o packets] ELSE in
SendToAll(in, packet) ==
  [b \in Bots |-> IF b \in DOMAIN packet /\ bot[b].pc = "running"
                  THEN Append(in[b], packet[b]) ELSE in[b]]

\* Faulty variant: the result is sent to the players only.
AnnounceToPlayers(in, s) ==
  LET members == {b \in Bots : Member(s, b)}
      players == {b \in members : s.role[Index(s, b)] = "PLAYER"}
  IN  CASE s.game_state = "WAITING"  -> SendToAll(in, [b \in members |-> Info(s, b)])
        [] s.game_state = "INACTIVE" ->
             SendToAll(in, [b \in players |-> Packet("PHASE_RESULT")])
        [] OTHER -> SendTo(in, s.extra_wait_from, <<Packet("REQUEST_EXTRA")>>)

\* handle_result_of_play, once place_card has made the session s: everybody is
\* shown the new round or the result, or one is asked for a row.
Announce(in, s) ==
  LET members == {b \in Bots : Member(s, b)}
  IN  CASE s.game_state = "WAITING"  -> SendToAll(in, [b \in members |-> Info(s, b)])
        [] s.game_state = "INACTIVE" ->
             SendToAll(in, [b \in members |-> Packet("PHASE_RESULT")])
        [] OTHER -> SendTo(in, s.extra_wait_from, <<Packet("REQUEST_EXTRA")>>)

\* start_move and handle_result_of_play called on the session s.
AfterMove(in, s) == IF Due(s) THEN Announce(in, StartMove(s, TRUE)) ELSE in

\* Faulty variant: a round that a departure completes is not announced.
AfterWithdrawSilent(in, s, c) == in

\* The same within remove_player and change_player_role, where the player who
\* goes is still a member.
AfterWithdraw(in, s, c) ==
  LET i == Index(s, c)
  IN  IF Member(s, c) /\ s.role[i] = "PLAYER" /\ s.game_state # "INACTIVE"
      THEN AfterMove(in, [s EXCEPT !.active_players = @ - 1, !.ready[i] = NoCard])
      ELSE in
-----------------------------------------------------------------------------
(* The session's thread *)

\* The session takes the next message, of that type and from c.
Take(type, c) == /\ Handling /\ toSession # << >>
                 /\ Head(toSession).type = type /\ Head(toSession).user = c
                 /\ toSession' = Tail(toSession)

\* The record becomes s, and the bots are sent what in has more than inbox.
Becomes(s, in) == /\ session' = s /\ inbox' = in
                  /\ UNCHANGED <<deals, fault, dealt, clientVars>>

Faults == /\ fault' = TRUE
          /\ UNCHANGED <<session, deals, inbox, dealt, clientVars>>

\* PKT_SESSION_JOIN
HandleJoin(c) ==
  /\ Take("JOIN", c)
  /\ IF Admissible(session, c)
     THEN LET s == AfterJoin(session, c)
              watching == s.role[Index(s, c)] = "OBSERVER" /\ s.game_state # "INACTIVE"
          IN  Becomes(s, SendTo(inbox, c, <<State(s)>>
                                   \o IF watching THEN <<Info(s, c)>> ELSE << >>))
     ELSE Becomes(session, SendTo(inbox, c, <<Packet("ERROR")>>))

\* PKT_ADD_BOT between games: as many ADD_BOT messages make the server's thread
\* fork as many bots, which differ in nothing (session_handle_add_bot,
\* session_add_bot).  There are as many unused, since AddBot asks for no more.
HandleAddBot ==
  LET wanted == Head(toSession)
      unused == {b \in Bots : bot[b].pc = "none"}
      new == CHOOSE new \in SUBSET unused : Cardinality(new) = wanted.arg
  IN  /\ Take("ADD_BOT", Human)
      /\ IF /\ session.game_state = "INACTIVE"
            /\ session.active_players + wanted.arg <= GameCapacity
         THEN bot' = [b \in Bots |->
                        IF b \in new \cap unused
                        THEN [NewBot EXCEPT !.pc = "forked", !.level = wanted.level]
                        ELSE bot[b]]
         ELSE UNCHANGED bot
      /\ UNCHANGED <<vars, inbox, dealt, userVars>>

\* PKT_START_SESSION: everybody is shown the cards, observers an empty hand.
HandleStart ==
  /\ Take("START", Human)
  /\ IF Human = session.id_creator
     THEN \E shuffle \in Shuffles :
            LET ids == Shuffled(shuffle.cards, session.rules.nbrCards)
                s   == Deal(session, shuffle)
            IN  /\ session' = s /\ deals' = deals + 1
                /\ dealt' = [i \in Slots |-> IF i \in Served(session)
                                             THEN HandDealt(session, ids, i) ELSE << >>]
                /\ inbox' = SendToAll(inbox, [b \in {d \in Bots : Member(s, d)} |->
                               [Info(s, b) EXCEPT !.hand = dealt'[Index(s, b)]]])
                /\ UNCHANGED <<fault, clientVars>>
     ELSE Becomes(session, inbox)

\* PKT_SESSION_INFO_RETURN: the index counts the cards left in the hand.  A null
\* hand, or index 255 for a user who is not in the session, is dereferenced.
HandleInfoReturn(c) ==
  LET i    == Index(session, c)
      card == CardAt(session, i, Head(toSession).arg)
      s    == [session EXCEPT !.hand[i] = @ \ {card}, !.ready[i] = card,
                              !.ready_count = @ + 1]
      wild == /\ session.game_state = "WAITING"
              /\ Member(session, c) => session.ready[i] = NoCard /\ session.hand[i] = NoHand
      accepted == /\ session.game_state = "WAITING" /\ Member(session, c)
                  /\ session.ready[i] = NoCard /\ session.hand[i] # NoHand
                  /\ card # NoCard
  IN  /\ Take("INFO_RETURN", c)
      /\ \/ wild /\ Faults
         \/ accepted /\ Becomes(StartMove(s, TRUE), AfterMove(inbox, s))
         \/ /\ ~wild /\ ~accepted
            /\ Becomes(StartMove(session, TRUE), AfterMove(inbox, session))

\* Faulty variant: any member may choose the row.
HandleResponseExtraFromAny(c) ==
  LET row == Head(toSession).arg
  IN  /\ Take("RESPONSE_EXTRA", c)
      /\ IF session.game_state # "WAITING_EXTRA" THEN Becomes(session, inbox)
         ELSE IF row \notin Rows(session) \/ ~Member(session, c) THEN Faults
         ELSE LET s == Resolve(TakeLine(session, row, Index(session, c)), TRUE)
              IN  Becomes(s, Announce(inbox, s))

\* PKT_RESPONSE_EXTRA
HandleResponseExtra(c) ==
  LET row == Head(toSession).arg
  IN  /\ Take("RESPONSE_EXTRA", c)
      /\ CASE session.game_state # "WAITING_EXTRA" -> Becomes(session, inbox)
           [] session.game_state = "WAITING_EXTRA" /\ c # session.extra_wait_from ->
                Becomes(session, SendTo(inbox, c, <<Packet("ERROR")>>))
           [] OTHER ->
                IF row \notin Rows(session) \/ ~Member(session, c) THEN Faults
                ELSE LET s == Resolve(TakeLine(session, row, Index(session, c)), TRUE)
                     IN  Becomes(s, Announce(inbox, s))

\* PKT_SESSION_LEAVE; a stranger is answered like a member.
HandleLeave(c) ==
  /\ Take("LEAVE", c)
  /\ Becomes(RemovePlayer(session, c, TRUE),
             SendTo(AfterWithdraw(inbox, session, c), c, <<Packet("SESSION_END")>>))

\* USER_LEFT, about the user or about a bot that crashed.
HandleUserLeft(c) ==
  LET i == Index(session, c)
  IN  /\ Take("USER_LEFT", c)
      /\ IF Member(session, c)
         THEN Becomes(AfterUserLeft(session, c, TRUE),
                      AfterWithdraw(inbox, [session EXCEPT !.hand[i] = NoHand], c))
         ELSE Becomes(session, inbox)

\* PKT_SESSION_CLOSE
HandleClose ==
  /\ Take("CLOSE", Human)
  /\ IF Human = session.id_creator
     THEN Becomes(AfterClose(session, TRUE),
                  SendToAll(inbox, [b \in {d \in Bots : Member(session, d)} |->
                                      Packet("SESSION_END")]))
     ELSE Becomes(session, inbox)

\* The batch that left the session empty.
SessionEmpties == EndOfBatch /\ UNCHANGED <<toSession, inbox, dealt, clientVars>>

SessionThread ==
  \/ \E c \in Clients : \/ HandleJoin(c) \/ HandleInfoReturn(c)
                        \/ HandleResponseExtra(c) \/ HandleLeave(c) \/ HandleUserLeft(c)
  \/ HandleAddBot \/ HandleStart \/ HandleClose \/ SessionEmpties

-----------------------------------------------------------------------------
(* The bots *)

Sends(type, c, arg) == toSession' = Append(toSession, Msg(type, c, arg))

\* bot_start up to its answer to SYNC_STATE: the bot registers and joins.
BotJoins(b) ==
  /\ bot[b].pc = "forked"
  /\ bot' = [bot EXCEPT ![b].pc = "running"]
  /\ Sends("JOIN", b, 0)
  /\ UNCHANGED <<vars, inbox, dealt, userVars>>

Gets(b, type) == /\ inbox[b] # << >> /\ Head(inbox[b]).type = type
                 /\ UNCHANGED <<vars, dealt, userVars>>

BotGets(b, type) == Gets(b, type) /\ inbox' = [inbox EXCEPT ![b] = Tail(@)]

\* bot_handle_session_state
BotGetsState(b) ==
  /\ BotGets(b, "STATE")
  /\ bot' = [bot EXCEPT ![b].rules = Head(inbox[b]).rules, ![b].placed_cards = {}]
  /\ UNCHANGED toSession

\* The same frees placed_cards, which is set nowhere before: what malloc left
\* there may be a wild pointer, and the process ends.  The server, which has long
\* read the USER_CONNECTED sent along (a bot sleeps before each packet), tells
\* the session.
BotCrashes(b) ==
  /\ Gets(b, "STATE") /\ bot[b].rules = NoRules
  /\ inbox' = [inbox EXCEPT ![b] = << >>]
  /\ bot' = [bot EXCEPT ![b] = [NewBot EXCEPT !.pc = "crashed"]]
  /\ Sends("USER_LEFT", b, 0)

\* What SESSION_INFO shows under the rules the bot knows.
ViewOf(b, info) ==
  [board |-> info.board, heads |-> info.heads, hand |-> info.hand,
   player_count |-> info.player_count, nb_card_line |-> bot[b].rules.nbrCardsLign,
   max_card_value |-> bot[b].rules.nbrCards]

\* bot_handle_session_info: the bot marks the board's cards as placed, chooses
\* the row that it would take, and answers with a card; an index of -1 is sent
\* as 255.
BotGetsInfo(b) ==
  LET v == ViewOf(b, Head(inbox[b]))
      placed == bot[b].placed_cards \cup UNION {ToSet(v.board[r]) : r \in DOMAIN v.board}
  IN  /\ BotGets(b, "INFO")
      /\ IF bot[b].rules = NoRules THEN UNCHANGED <<bot, toSession>>
         ELSE \E row \in RowsToTake(v), index \in CardChoices(bot[b].level, v, placed) :
                /\ bot' = [bot EXCEPT ![b].placed_cards = placed,
                                      ![b].index_row_to_take = row,
                                      ![b].chosen = IF index + 1 \in DOMAIN v.hand
                                                    THEN v.hand[index + 1] ELSE NoCard]
                /\ Sends("INFO_RETURN", b, index % 256)

BotGetsRequest(b) ==
  /\ BotGets(b, "REQUEST_EXTRA")
  /\ Sends("RESPONSE_EXTRA", b, bot[b].index_row_to_take)
  /\ UNCHANGED bot

\* After a result, the end of the session or an error the bot leaves, unregisters
\* and ends, whatever was still to be read; unregistering tells a session that
\* has been left nothing new.
BotRetires(b) ==
  /\ \E type \in {"PHASE_RESULT", "SESSION_END", "ERROR"} : Gets(b, type)
  /\ inbox' = [inbox EXCEPT ![b] = << >>]
  /\ bot' = [bot EXCEPT ![b] = [NewBot EXCEPT !.pc = "gone"]]
  /\ Sends("LEAVE", b, 0)

BotProgram(b) == \/ BotJoins(b) \/ BotGetsState(b) \/ BotCrashes(b)
                 \/ BotGetsInfo(b) \/ BotGetsRequest(b) \/ BotRetires(b)

-----------------------------------------------------------------------------
(* The user: his commands (user_execute_command) and his connection (user_run) *)

\* He types another command once no more than MaxAhead of his are under way.
UnderTheBound == commands < MaxCommands /\ commands' = commands + 1
Ahead == Len(SelectSeq(toSession, LAMBDA m : m.user = Human))
Types(message) ==
  /\ online /\ UNCHANGED online
  /\ Ahead <= MaxAhead
  /\ toSession' = Append(toSession, message)
  /\ UNCHANGED <<vars, inbox, bot, dealt>>

\* The server passes most commands on once the user is in the session.
TypesInside(message) == Member(session, Human) /\ Types(message)

\* add_bot: no more bots are asked for than the model has.
Requested == FoldLeft(LAMBDA sum, m : IF m.type = "ADD_BOT" THEN sum + m.arg ELSE sum,
                      0, toSession)
AddBot ==
  /\ UnderTheBound
  /\ \E r \in Requests :
       /\ r[1] <= Cardinality({b \in Bots : bot[b].pc = "none"}) - Requested
       /\ TypesInside([type |-> "ADD_BOT", user |-> Human, arg |-> r[1], level |-> r[2]])

\* start between games, also before the bots of the last game have left.
Start == /\ deals < MaxDeals /\ session.game_state = "INACTIVE"
         /\ \A k \in DOMAIN toSession : toSession[k].type # "START"
         /\ TypesInside(Msg("START", Human, 0)) /\ UNCHANGED commands

\* play and extr, whether or not the user is asked.
Play == UnderTheBound /\ \E index \in 0..(DefaultRules.nbrCardsPlayer - 1) :
                    TypesInside(Msg("INFO_RETURN", Human, index))
Extr == UnderTheBound /\ \E row \in TypedRows : TypesInside(Msg("RESPONSE_EXTRA", Human, row))

CloseSession == UnderTheBound /\ TypesInside(Msg("CLOSE", Human, 0))
Quit == UnderTheBound /\ TypesInside(Msg("LEAVE", Human, 0))

\* join, when he has quit the session and it is still listed.
JoinAgain == /\ ~Member(session, Human) /\ session.unregister_send = 0
             /\ UnderTheBound /\ Types(Msg("JOIN", Human, 0))

\* The connection is lost, or closed by dconn; the server tells the session if it
\* knows that the user is in it (disconnect_client).
Disconnect ==
  /\ UnderTheBound
  /\ online /\ online' = FALSE
  /\ IF Member(session, Human) THEN Sends("USER_LEFT", Human, 0)
                               ELSE UNCHANGED toSession
  /\ UNCHANGED <<vars, inbox, bot, dealt>>

\* user_run connects again, unless it has given up after MAX_RECONNECT_ATTEMPTS,
\* and WELCOME makes it send RECONNECT with its id: reconnect_client gives the
\* player the new connection, and tells the session nothing.
Reconnect ==
  /\ ~online /\ online' = TRUE
  /\ UNCHANGED <<vars, toSession, inbox, bot, dealt, commands>>

User == AddBot \/ Start \/ Play \/ Extr \/ CloseSession \/ Quit \/ JoinAgain
        \/ Disconnect \/ Reconnect

-----------------------------------------------------------------------------
\* A fault may end the server's process; nothing is explored after it.
TableNext == ~fault /\ (SessionThread \/ User \/ \E b \in Bots : BotProgram(b))

\* What a step of the session's thread, and one of a bot's program, do to their
\* queues: no other step takes a message from them.
Takes == Handling /\ toSession # << >> /\ toSession' = Tail(toSession)
Begins(b) == bot[b].pc = "forked" /\ bot' = [bot EXCEPT ![b].pc = "running"]
Reads(b) == /\ inbox[b] # << >>
            /\ \E rest \in {Tail(inbox[b]), << >>} : inbox' = [inbox EXCEPT ![b] = rest]

\* The thread and the bots' programs run; the user need not do anything.
TableFairness == /\ WF_toSession(Takes)
                 /\ \A b \in Bots : WF_bot(Begins(b)) /\ WF_inbox(Reads(b))

TableSpec == TableInit /\ [][TableNext]_tableVars /\ TableFairness

-----------------------------------------------------------------------------
(* Properties *)

ToSessionMessages ==
  [type : {"JOIN", "START", "CLOSE", "LEAVE", "USER_LEFT"}, user : Clients, arg : {0}]
    \cup [type : {"INFO_RETURN"}, user : Clients, arg : 0..255]
    \cup [type : {"RESPONSE_EXTRA"}, user : Clients, arg : -1..3]
    \cup [type : {"ADD_BOT"}, user : {Human}, arg : 1..Cardinality(Bots), level : 0..2]

TableTypeOK ==
  /\ TypeOK
  /\ \A k \in DOMAIN toSession : toSession[k] \in ToSessionMessages
  /\ \A b \in Bots : \A k \in DOMAIN inbox[b] :
       inbox[b][k].type \in {"STATE", "INFO", "REQUEST_EXTRA", "PHASE_RESULT",
                             "SESSION_END", "ERROR"}
  /\ bot \in [Bots -> [pc : {"none", "forked", "running", "crashed", "gone"}, level : 0..2,
                       rules : {NoRules, DefaultRules}, placed_cards : SUBSET Cards,
                       index_row_to_take : -1..3, chosen : Cards \cup {NoCard}]]
  /\ \A b \in Bots : bot[b].pc \notin {"forked", "running"} => inbox[b] = << >>
  /\ dealt \in [Slots -> Seq(Cards)]
  /\ commands \in 0..MaxCommands /\ online \in BOOLEAN

\* While a game is on no row is empty, as the bots' programs take for granted: of
\* an empty one they would read the cell before it, which is of another row or
\* outside the board.  take_line leaves the row empty when the one who chose it has
\* no card to place, which neither it nor its caller excludes.
RowsNeverEmpty ==
  session.game_state # "INACTIVE" => \A r \in Rows(session) : session.board[r] # << >>

\* The answers under way from b, and the questions it has still to answer.
UnderWay(b, question, answer) ==
  Cardinality({k \in DOMAIN inbox[b] : inbox[b][k].type = question})
    + Cardinality({k \in DOMAIN toSession :
                     toSession[k].type = answer /\ toSession[k].user = b})

\* An answer that the session is about to accept means what its sender meant.
\* Both answers are indices, and the session looks them up in the hand and the
\* board of the moment: the card is the one the bot chose, although the hand may
\* have been shown to it several messages ago, and the row is the cheapest of
\* the board as it is now.  A second answer under way may still be taken for
\* the answer to a later question, or that of a bot that has ended for one in the
\* next game, so the property is about single ones of running bots; and a full
\* row makes the bot's own row arbitrary.
AnswersFresh ==
  toSession # << >> =>
    LET m == Head(toSession)
        i == Index(session, m.user)
    IN  /\ /\ m.type = "INFO_RETURN" /\ m.user \in Bots
           /\ session.game_state = "WAITING" /\ Member(session, m.user)
           /\ session.role[i] = "PLAYER" /\ session.ready[i] = NoCard
           /\ bot[m.user].pc = "running" /\ UnderWay(m.user, "INFO", "INFO_RETURN") = 1
           => CardAt(session, i, m.arg) = bot[m.user].chosen
        /\ /\ m.type = "RESPONSE_EXTRA" /\ m.user \in Bots
           /\ session.game_state = "WAITING_EXTRA" /\ m.user = session.extra_wait_from
           /\ bot[m.user].pc = "running"
           /\ UnderWay(m.user, "REQUEST_EXTRA", "RESPONSE_EXTRA") = 1
           /\ \A r \in Rows(session) :
                Len(session.board[r]) < session.rules.nbrCardsLign
           => m.arg = FirstCheapest(Rows(session),
                                    [r \in Rows(session) |-> RowHeads(session, r)])

\* The rows as the session knows them, in the terms of a bot's simulation.
RowsOf(s) == [last  |-> [r \in Rows(s) |-> Last(s.board[r])],
              count |-> [r \in Rows(s) |-> Len(s.board[r])],
              sum   |-> [r \in Rows(s) |-> RowHeads(s, r)], penalty |-> 0]

\* The bots' simulation of a round and the session's resolution of it, two
\* programs for one rule, agree on every round that may come: they end with the
\* same last card and the same number of cards in each row, where the session's
\* players take the cheapest row when they must take one.
SimulationAgrees ==
  session.game_state = "WAITING" =>
  LET Options(i) == IF session.ready[i] # NoCard THEN {session.ready[i]}
                                                 ELSE HandOf(session, i)
  IN  \A cards \in [Seated(session) -> UNION {Options(i) : i \in Seated(session)}] :
        (\A i \in Seated(session) : cards[i] \in Options(i)) =>
        LET g == SimulationStep(RowsOf(session), session.rules.nbrCardsLign, cards)
            s == [session EXCEPT !.ready = [i \in Slots |->
                    IF i \in Seated(session) THEN cards[i] ELSE NoCard]]
            cheap == FirstCheapest(Rows(s), RowsOf(s).sum)
            end[p \in {PlaceAll(s)}] ==
              IF Blocked(p) THEN PlaceAll(TakeLine(p, cheap, LowestSlot(p))) ELSE p
            r == RowsOf(end[PlaceAll(s)])
        IN  g.last = r.last /\ g.count = r.count

\* The session that packets, bots and the user's commands move is a behaviour
\* of Session.
PlaysSession == Init /\ [][Next]_vars

\* The game waits for the user's card or his row.
UserAwaited ==
  /\ Member(session, Human) /\ session.role[Index(session, Human)] = "PLAYER"
  /\ \/ /\ session.game_state = "WAITING"
        /\ session.ready[Index(session, Human)] = NoCard
     \/ /\ session.game_state = "WAITING_EXTRA"
        /\ session.extra_wait_from = Human

\* A bot of level 0 that is shown a full row may answer with no card of its hand,
\* which is refused and not asked for again.
Muddled ==
  /\ \E b \in Bots : /\ bot[b].pc = "running" /\ bot[b].level = 0 /\ Member(session, b)
                    /\ session.role[Index(session, b)] = "PLAYER"
  /\ \E r \in Rows(session) : Len(session.board[r]) = session.rules.nbrCardsLign

\* A game never waits for a bot for ever, however late the bots are and whatever
\* the user types, until he is asked, the game ends, everybody has gone, or a bot
\* is muddled.
BotsPlayOn ==
  session.game_state # "INACTIVE"
    ~> \/ session.game_state = "INACTIVE" \/ session.active_players = 0
       \/ UserAwaited \/ Muddled \/ fault

\* Nor does a bot stay behind: one that is in the session during a game, if only
\* as an observer, is told of its end and leaves, unless it crashed or the game is
\* held up as above, so that the session can end when the user goes.
BotsLeave ==
  \A b \in Bots :
    session.game_state # "INACTIVE" /\ Member(session, b)
      ~> \/ ~Member(session, b) \/ bot[b].pc = "crashed"
         \/ UserAwaited \/ Muddled \/ fault
=============================================================================
