--------------------------------- MODULE Bot ---------------------------------
(***************************************************************************)
(* How a bot (src/Bot) reads a SESSION_INFO and chooses its card and its   *)
(* row.  A view v is what the packet shows, under the rules of the last    *)
(* SESSION_STATE:                                                          *)
(*   board         the cards of each row, a row being a sequence           *)
(*   heads         the penalty of each card                                *)
(*   hand          the bot's cards in the order it is shown them           *)
(*   player_count  the players of the game                                 *)
(*   nb_card_line, max_card_value   of the rules                           *)
(* Rows have at least one card, and cards count from 0.                    *)
(*                                                                         *)
(* row_t and last_in_row are written at the first free cell of a row only: *)
(* for a full row they keep what the stack held.  An operator whose result *)
(* depends on it is the set of the results that some value of it gives.    *)
(***************************************************************************)
EXTENDS Integers, SequencesExt

Full(v, row) == Len(v.board[row]) = v.nb_card_line
FullRows(v) == {row \in DOMAIN v.board : Full(v, row)}

BullsSum(v, row) == FoldSeq(LAMBDA c, sum : v.heads[c] + sum, 0, v.board[row])

\* The first of the given rows with the least of some sum.
FirstCheapest(rows, sum) ==
  CHOOSE r \in rows : \A q \in rows : sum[r] < sum[q] \/ (sum[r] = sum[q] /\ r <= q)

\* index_row_to_take: the first row with the least sum, that of a full row being
\* whatever the stack held.
RowsToTake(v) ==
  LET known == DOMAIN v.board \ FullRows(v)
  IN  FullRows(v) \cup
      (IF known = {} THEN {-1}
       ELSE {FirstCheapest(known, [r \in known |-> BullsSum(v, r)])})

-----------------------------------------------------------------------------
(* Level 0: the card in least danger *)

\* calculate_danger, which looks at four rows and takes five cards for a row.
Danger(v, card) ==
  LET below == {r \in 0..3 : Last(v.board[r]) < card}
      best  == CHOOSE r \in below : \A q \in below : Last(v.board[r]) >= Last(v.board[q])
      count == Len(v.board[best])
      diff  == card - Last(v.board[best])
  IN  CASE below = {}  -> 500
        [] OTHER -> IF count = 5 THEN 1000 + 10 * BullsSum(v, best)
                    ELSE (IF count = 4 /\ diff > 1 THEN 50 * v.player_count ELSE 0)
                         + (IF diff > v.player_count THEN 2 * diff ELSE 0)

\* bot_choose_card; index -1, sent as 255, when no danger is below INT16_MAX.
LeastDangerous(v) ==
  LET indices == 0..(Len(v.hand) - 1)
      danger  == [i \in indices |-> Danger(v, v.hand[i + 1])]
  IN  IF ~(0..3 \subseteq DOMAIN v.board) \/ FullRows(v) \cap (0..3) # {}
      THEN indices \cup {-1}
      ELSE IF indices = {} THEN {-1} ELSE {FirstCheapest(indices, danger)}

-----------------------------------------------------------------------------
(* Levels 1 and 2: simulated rounds on rows g of which only the last card, the *)
(* number of cards and the penalty are kept                                    *)

RowsSeen(v) ==
  [last  |-> [r \in DOMAIN v.board |-> Last(v.board[r])],
   count |-> [r \in DOMAIN v.board |-> Len(v.board[r])],
   sum   |-> [r \in DOMAIN v.board |-> BullsSum(v, r)],
   penalty |-> 0]

RestartRow(g, row, card, sum) ==
  [g EXCEPT !.last[row] = card, !.count[row] = 1, !.sum[row] = sum]

\* Faulty variant: a full row is not taken but goes on.
SimulateCardOverfull(g, nb_card_line, player, card) ==
  LET fitting == {r \in DOMAIN g.last : g.last[r] <= card}
      best  == CHOOSE r \in fitting : \A q \in fitting : g.last[r] >= g.last[q]
      cheap == FirstCheapest(DOMAIN g.sum, g.sum)
      row   == IF fitting = {} THEN cheap ELSE best
      taken == fitting = {}
      h     == IF taken /\ player = 0 THEN [g EXCEPT !.penalty = @ + g.sum[row]] ELSE g
  IN  IF taken THEN RestartRow(h, row, card, 3)
      ELSE [h EXCEPT !.last[row] = card, !.count[row] = @ + 1, !.sum[row] = @ + 3]

\* One card of simulation_step.  The heads of the cards added are not looked up:
\* a card counts for 3, or for 2 when it takes a full row.  Only the penalty of
\* player 0, the bot, is added up.
SimulateCard(g, nb_card_line, player, card) ==
  LET fitting == {r \in DOMAIN g.last : g.last[r] <= card}
      best  == CHOOSE r \in fitting : \A q \in fitting : g.last[r] >= g.last[q]
      cheap == FirstCheapest(DOMAIN g.sum, g.sum)
      row   == IF fitting = {} THEN cheap ELSE best
      taken == fitting = {} \/ g.count[row] = nb_card_line
      h     == IF taken /\ player = 0 THEN [g EXCEPT !.penalty = @ + g.sum[row]] ELSE g
  IN  IF taken THEN RestartRow(h, row, card, IF fitting = {} THEN 3 ELSE 2)
      ELSE [h EXCEPT !.last[row] = card, !.count[row] = @ + 1, !.sum[row] = @ + 3]

\* simulation_step: the players' cards from the lowest up.
SimulationStep(g, nb_card_line, cards) ==
  LET order == SetToSortSeq(DOMAIN cards, LAMBDA p, q : cards[p] < cards[q])
  IN  FoldLeft(LAMBDA h, p : SimulateCard(h, nb_card_line, p, cards[p]), g, order)

\* simple_enemy_choice: the card that ends nearest above a row.  A full row met
\* on the way forgets the card found so far, but not how near it was.
EnemyChoice(g, nb_card_line, hand) ==
  LET rows == Cardinality(DOMAIN g.last)
      Look(found, k) ==
        LET i    == (k - 1) \div rows + 1
            row  == (k - 1) % rows
            diff == hand[i] - g.last[row]
        IN  CASE g.count[row] = nb_card_line -> [found EXCEPT !.index = -2]
              [] g.count[row] # nb_card_line /\ diff > 0 /\ diff < found.diff ->
                   [index |-> i, diff |-> diff]
              [] OTHER -> found
      best == FoldLeft(Look, [index |-> -1, diff |-> 65535],
                       [k \in 1..(rows * Len(hand)) |-> k])
  IN  CASE best.index > 0  -> hand[best.index]
        [] best.index = -2 -> Max(ToSet(hand))
        [] OTHER           -> Min(ToSet(hand))

\* What best_card_choice adds to the total of a card in one simulation: the
\* bot's penalty of a round in which it plays that card.
RoundPenalty(v, hands, card) ==
  LET g == RowsSeen(v)
      cards == [p \in {0} \cup DOMAIN hands |->
                  IF p = 0 THEN card ELSE EnemyChoice(g, v.nb_card_line, hands[p])]
  IN  SimulationStep(g, v.nb_card_line, cards).penalty

\* simulate_full_game: up to four rounds in which everybody plays as an enemy
\* would, from the first cards of a hand that keeps those played before; only
\* the round at depth 0 plays card.
DeepPenalty(v, hands, card) ==
  LET held == [p \in {0} \cup DOMAIN hands |-> IF p = 0 THEN v.hand ELSE hands[p]]
      Left(depth) == Len(v.hand) - (3 - depth)  \* cards_remaining
      Play(g, depth) ==
        SimulationStep(g, v.nb_card_line,
          [p \in DOMAIN held |->
             IF p = 0 /\ depth = 0 THEN card
             ELSE EnemyChoice(g, v.nb_card_line, SubSeq(held[p], 1, Left(depth)))])
      after[depth \in 0..4] ==  \* the rows when this depth is left
        IF depth = 4 THEN RowsSeen(v)
        ELSE IF Left(depth) <= 0 THEN after[depth + 1]
        ELSE Play(after[depth + 1], depth)
  IN  after[0].penalty

\* The first (player_count - 1) times so many cards of a shuffled deck of those
\* never seen are the hands of the others.
OtherHands(v, placed) ==
  LET n == Len(v.hand)
      unseen == (0..(v.max_card_value - 1))
                  \ (placed \cup ToSet(v.hand)
                       \cup UNION {ToSet(v.board[r]) : r \in DOMAIN v.board})
      decks == {d \in [1..((v.player_count - 1) * n) -> unseen] : IsInjective(d)}
  IN  {[p \in 1..(v.player_count - 1) |-> SubSeq(d, (p - 1) * n + 1, p * n)] : d \in decks}

\* best_card_choice and best_card_choice_deep: the first index with the least
\* total penalty over a thousand shuffles.  Which shuffles come is left open, so
\* an index is excluded only when another does at least as well in all of them.
LeastPenalty(v, others, cost) ==
  LET indices == 0..(Len(v.hand) - 1)
  IN  IF FullRows(v) # {} \/ others = {} \/ indices = {} THEN indices \cup {0}
      ELSE {i \in indices : \A j \in indices \ {i} : \E hands \in others :
              \/ cost[i, hands] < cost[j, hands]
              \/ i < j /\ cost[i, hands] = cost[j, hands]}

\* The card indices that a bot of a level may answer with.
CardChoices(level, v, placed) ==
  LET others == OtherHands(v, placed)
      deals  == (0..(Len(v.hand) - 1)) \X others
  IN  CASE level = 0 -> LeastDangerous(v)
        [] level = 1 -> LeastPenalty(v, others,
             [d \in deals |-> RoundPenalty(v, d[2], v.hand[d[1] + 1])])
        [] OTHER     -> LeastPenalty(v, others,
             [d \in deals |-> DeepPenalty(v, d[2], v.hand[d[1] + 1])])
=============================================================================
