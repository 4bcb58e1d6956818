-------------------------------- MODULE Game --------------------------------
(***************************************************************************)
(* The cards of src/Session/Game as operators on a record g with (at       *)
(* least) the fields                                                       *)
(*   rules    the record of game->nbrLign ... game->nbHead                 *)
(*   heads    game->deck[card].numberHead, a function of the card          *)
(*   board    game->board, a row being the sequence of its cards           *)
(*   ready    game->card_ready_to_place, by player slot                    *)
(*   nb_head  the penalty of each player slot, a uint8_t                   *)
(* Loops are recursive functions.                                          *)
(***************************************************************************)
EXTENDS Integers, SequencesExt

CONSTANTS MaxClients,    \* slots of session->players
          DefaultRules,  \* the rules of init_session
          RuleSets       \* the rules that clients ask for, with one row at least

Rules == {DefaultRules} \cup RuleSets

ASSUME GameAssumption ==
  /\ MaxClients \in Nat \ {0, 1}
  /\ \A r \in Rules :
       /\ r.nbrLign \in 1..255 /\ r.nbrCardsLign \in 1..255
       /\ r.nbrCards \in 0..255 /\ r.nbrCardsPlayer \in 0..255 /\ r.nbHead \in 0..255

Rows(g) == 0..(g.rules.nbrLign - 1)
Cards == 0..(Max({r.nbrCards : r \in Rules}) - 1)
Slots == 0..(MaxClients - 1)
NoCard == -1

-----------------------------------------------------------------------------
(* Shuffling *)

\* melange_ids: a deck of n cards in the order that ids, a larger one, has them.
Shuffled(ids, n) ==
  LET kept[k \in 0..Len(ids)] ==
        IF k = 0 THEN << >>
        ELSE IF ids[k] < n THEN Append(kept[k - 1], ids[k]) ELSE kept[k - 1]
  IN  kept[Len(ids)]

\* melange_head: h heads for as many cards of the shuffled deck as h weighs, the
\* most heads for those left over.
HeadsOf(ids, nbHead) ==
  LET n == Len(ids)
      weights == (nbHead * (nbHead + 1)) \div 2
      given[h \in 0..nbHead] ==
        CASE h = 0 -> 0
          [] h = nbHead -> n
          [] OTHER -> Min({n, given[h - 1] + (n * (nbHead - h + 1)) \div weights})
  IN  [card \in 0..(n - 1) |->
         IF nbHead = 0 THEN 0
         ELSE Min({h \in 1..nbHead : \E k \in 1..given[h] : ids[k] = card})]

-----------------------------------------------------------------------------
(* Placing the cards of a round *)

\* The slots with a card to place, and the one with the lowest card.
Waiting(g) == {i \in Slots : g.ready[i] # NoCard}
LowestSlot(g) ==
  CHOOSE i \in Waiting(g) :
    \A j \in Waiting(g) : \/ g.ready[i] < g.ready[j]
                          \/ g.ready[i] = g.ready[j] /\ i <= j

\* The rows that end below card c, and the one that ends nearest to it.
Fitting(g, c) == {r \in Rows(g) : g.board[r] # << >> /\ Last(g.board[r]) < c}
BestRow(g, c) ==
  CHOOSE r \in Fitting(g, c) :
    \A q \in Fitting(g, c) :
      \/ Last(g.board[r]) > Last(g.board[q])
      \/ Last(g.board[r]) = Last(g.board[q]) /\ r <= q

RowHeads(g, row) == FoldSeq(LAMBDA c, sum : g.heads[c] + sum, 0, g.board[row])

\* Faulty variant: the row is taken for free.
TakeLineFree(g, row, slot) ==
  [g EXCEPT !.board[row] = IF g.ready[slot] = NoCard THEN << >>
                                                     ELSE <<g.ready[slot]>>,
            !.ready[slot] = NoCard]

\* take_line: slot collects the row and its card starts the row anew; a slot
\* with no card to place leaves the row empty.
TakeLine(g, row, slot) ==
  [g EXCEPT !.nb_head[slot] = (@ + RowHeads(g, row)) % 256,
            !.board[row] = IF g.ready[slot] = NoCard THEN << >>
                                                     ELSE <<g.ready[slot]>>,
            !.ready[slot] = NoCard]

\* No card can be placed without its owner choosing a row.
Blocked(g) == /\ Waiting(g) # {}
              /\ Fitting(g, g.ready[LowestSlot(g)]) = {}

\* Faulty variant: a full row takes one card more.
PlaceLowestOverfull(g) ==
  LET slot == LowestSlot(g)
      row  == BestRow(g, g.ready[slot])
  IN  IF Len(g.board[row]) > g.rules.nbrCardsLign THEN TakeLine(g, row, slot)
      ELSE [g EXCEPT !.board[row] = Append(@, g.ready[slot]),
                     !.ready[slot] = NoCard]

\* One iteration of place_card's outer loop.
PlaceLowest(g) ==
  LET slot == LowestSlot(g)
      row  == BestRow(g, g.ready[slot])
  IN  IF Len(g.board[row]) >= g.rules.nbrCardsLign THEN TakeLine(g, row, slot)
      ELSE [g EXCEPT !.board[row] = Append(@, g.ready[slot]),
                     !.ready[slot] = NoCard]

\* What place_card reads and changes, under the rules and with the deck of s.
Deck(s) == 0..(s.rules.nbrCards - 1)
Positions(s) == [rules : {s.rules}, heads : {s.heads},
                 board : [Rows(s) -> Seq(Deck(s))],
                 ready : [Slots -> Deck(s) \cup {NoCard}], nb_head : [Slots -> 0..255]]

\* The outer loop, from the lowest card up until a choice is needed.
PlaceAll(s) ==
  LET from[g \in Positions(s)] ==
        IF Waiting(g) = {} \/ Blocked(g) THEN g ELSE from[PlaceLowest(g)]
      g == from[[rules |-> s.rules, heads |-> s.heads, board |-> s.board,
                 ready |-> s.ready, nb_head |-> s.nb_head]]
  IN  [s EXCEPT !.board = g.board, !.ready = g.ready, !.nb_head = g.nb_head]
=============================================================================
