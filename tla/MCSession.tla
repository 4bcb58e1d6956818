----------------------------- MODULE MCSession ------------------------------
(***************************************************************************)
(* Sessions small enough for TLC: three users and three slots, or two, and *)
(* two rows of two cards.                                                  *)
(***************************************************************************)
EXTENDS Session

\* Users are only compared for equality.
Symmetry == Permutations(Clients)

RulesOf(lign, cardsLign, cardsPlayer, cards, head) ==
  [nbrLign |-> lign, nbrCardsLign |-> cardsLign, nbrCardsPlayer |-> cardsPlayer,
   nbrCards |-> cards, nbHead |-> head]

\* Two cards each for three players; the same with a deck that is accepted and
\* that init_game then refuses; one card each, with a deck that leaves the third
\* player none; no cards at all, so that hands are null.
MCDefaultRules == RulesOf(2, 2, 2, 8, 3)
MCRuleSets == {RulesOf(2, 2, 2, 6, 3), RulesOf(2, 2, 1, 4, 1), RulesOf(1, 1, 0, 1, 0)}
NoRuleSets == {}

\* For two players.
MCRules2 == RulesOf(2, 2, 2, 6, 2)

\* The rows start with the first two cards, then come the hands.  High rows
\* make every first card choose a row; spread rows fill up and are taken.
Shuffle(heads, cards) == [heads |-> heads, cards |-> cards]
MCShuffles == {Shuffle(<<1, 2, 4, 7, 5, 0, 3, 6>>, <<6, 1, 0, 7, 3, 2, 4, 5>>)}
MCShuffles2 == {Shuffle(<<1, 2, 4, 5, 0, 3>>, <<5, 4, 0, 1, 2, 3>>),
                Shuffle(<<1, 2, 4, 5, 0, 3>>, <<0, 1, 2, 3, 4, 5>>)}
=============================================================================
