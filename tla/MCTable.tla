------------------------------- MODULE MCTable -------------------------------
(***************************************************************************)
(* A user and two bots, seats for all of them, four rows of three cards,   *)
(* and two cards for each player in each of two games.                     *)
(***************************************************************************)
EXTENDS Table

TableUsers == {Human} \cup Bots
TableRules == [nbrLign |-> 4, nbrCardsLign |-> 3, nbrCardsPlayer |-> 2,
               nbrCards |-> 10, nbHead |-> 3]
NoRuleSets == {}

\* Two bots of level 0, or single ones of the higher levels.
TableRequests == {<<2, 0>>, <<1, 1>>, <<1, 2>>}

\* Rows 4, 2, 8 and 9, and two cards for each slot in turn.  By what is played
\* first a row fills up and is taken, a full row is shown to the bots, or the
\* lowest card makes its owner choose a row.
TableShuffles == {[heads |-> <<1, 2, 4, 7, 5, 0, 3, 6, 8, 9>>,
                   cards |-> <<4, 2, 8, 9, 5, 1, 0, 3, 6, 7>>]}
=============================================================================
