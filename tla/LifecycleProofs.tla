---------------------------- MODULE LifecycleProofs ----------------------------
(***************************************************************************)
(* The life of a session proved for any users, any number of slots and     *)
(* rings of any size: what the two threads know of each other while joins, *)
(* leaves and lost connections are under way.  The session's operators are *)
(* those of SessionProofs, which says what they do to its members.         *)
(***************************************************************************)
EXTENDS SessionLifecycle, Recursion, FiniteSetTheorems

\* What the rings hold: the session speaks of players, or asks for itself.
SessionMessages == [type : ToSession, user : Players \cup {NoClient}]
News == {"USER_CONNECTED", "USER_DISCONNECTED"}
ServerMessages == [type : News, user : Players] \cup {UnregisterMsg}

\* The parameters, and the ids.
LEMMA Parameters ==
  /\ MaxClients \in Nat /\ MaxClients >= 2 /\ Bound \in Nat /\ MaxRequests \in Nat
  /\ Players \subseteq Nat /\ NoClient \notin Players
  BY LifecycleAssumption DEF NoClient

\* Messages as records.
LEMMA MsgIs ==
  ASSUME NEW type, NEW user
  PROVE  /\ Msg(type, user).type = type /\ Msg(type, user).user = user
         /\ type \in ToSession /\ user \in Players => Msg(type, user) \in SessionMessages
         /\ type \in News /\ user \in Players => Msg(type, user) \in ServerMessages
         /\ \A m \in SessionMessages : m = Msg(type, user) <=> m.type = type /\ m.user = user
  <1>1. Msg(type, user) = [type |-> type, user |-> user]
    BY DEF Msg
  <1>2. ASSUME NEW m \in SessionMessages
        PROVE  m = [type |-> type, user |-> user] <=> m.type = type /\ m.user = user
    BY DEF SessionMessages
  <1> QED BY <1>1, <1>2 DEF SessionMessages, ServerMessages

\* What the session sends is about a player, or about nobody.
LEMMA ServerMessageIs ==
  /\ UnregisterMsg \in ServerMessages
  /\ UnregisterMsg.type = "SESSION_UNREGISTER" /\ UnregisterMsg.user = NoClient
  /\ ServerMessages \subseteq [type : ToServer, user : Players \cup {NoClient}]
  /\ \A m \in ServerMessages : /\ m.type = "SESSION_UNREGISTER" => m.user \notin Players
                               /\ m.type \in News <=> m.user \in Players
  <1>1. UnregisterMsg = [type |-> "SESSION_UNREGISTER", user |-> NoClient]
    BY DEF UnregisterMsg, Msg
  <1> QED BY <1>1, Parameters DEF ServerMessages, News, ToServer

-----------------------------------------------------------------------------
(* Sequences *)

\* What appending makes of the elements.
LEMMA Appended ==
  ASSUME NEW M, NEW q \in Seq(M), NEW m \in M
  PROVE  /\ Append(q, m) \in Seq(M) /\ Len(Append(q, m)) = Len(q) + 1
         /\ DOMAIN Append(q, m) = 1..(Len(q) + 1)
         /\ \A k \in 1..Len(q) : Append(q, m)[k] = q[k]
         /\ Append(q, m)[Len(q) + 1] = m
         /\ Append(q, m) = q \o <<m>>
  OBVIOUS

\* What taking the tail makes of them.
LEMMA Shifted ==
  ASSUME NEW M, NEW q \in Seq(M), q # << >>
  PROVE  /\ Tail(q) \in Seq(M) /\ Len(Tail(q)) = Len(q) - 1 /\ Len(q) >= 1
         /\ DOMAIN Tail(q) = 1..(Len(q) - 1)
         /\ \A k \in 1..(Len(q) - 1) : Tail(q)[k] = q[k + 1]
         /\ Head(q) = q[1] /\ Head(q) \in M
  OBVIOUS

\* What joining two sequences makes of them.
LEMMA Joined ==
  ASSUME NEW M, NEW q \in Seq(M), NEW r \in Seq(M)
  PROVE  /\ q \o r \in Seq(M) /\ Len(q \o r) = Len(q) + Len(r)
         /\ DOMAIN (q \o r) = 1..(Len(q) + Len(r))
         /\ \A k \in 1..Len(q) : (q \o r)[k] = q[k]
         /\ \A k \in 1..Len(r) : (q \o r)[Len(q) + k] = r[k]
  OBVIOUS

\* A sequence over a set is one over a larger set.
LEMMA SeqOfMore ==
  ASSUME NEW M, NEW N, M \subseteq N, NEW q \in Seq(M)
  PROVE  q \in Seq(N)
  OBVIOUS

\* Several pushes: nothing is lost where there is room for them all.
LEMMA PushAllIs ==
  ASSUME NEW M, NEW q \in Seq(M), Len(q) <= Bound, NEW r \in Seq(M)
  PROVE  /\ PushAll(q, r) \in Seq(M) /\ Len(PushAll(q, r)) <= Bound
         /\ Len(PushAll(q, r)) \in Len(q)..(Len(q) + Len(r))
         /\ Len(q) + Len(r) <= Bound => PushAll(q, r) = q \o r
         /\ ~(Len(q) < Bound) => PushAll(q, r) = q
  <1> DEFINE n == Min({Len(r), Bound - Len(q)})
             p == SubSeq(r, 1, n)
             z == PushAll(q, r)
  <1>1. Len(q) \in Nat /\ Len(r) \in Nat /\ Bound \in Nat
    BY Parameters
  <1>2. n \in {Len(r), Bound - Len(q)} /\ n <= Len(r) /\ n <= Bound - Len(q)
    <2>1. {Len(r), Bound - Len(q)} \in SUBSET Nat
      BY <1>1
    <2> QED BY <2>1, MinIs
  <1>3. z = q \o p
    BY DEF PushAll
  <1>4. n \in 0..Len(r)
    BY <1>1, <1>2
  <1> HIDE DEF n, z
  <1>5. p \in Seq(M) /\ Len(p) = n
    BY <1>1, <1>4
  <1>6. n = Len(r) => p = r
    BY <1>1
  <1>7. n = 0 => p = << >>
    BY <1>5
  <1> HIDE DEF p
  <1>8. z \in Seq(M) /\ Len(z) = Len(q) + n
    BY <1>3, <1>5, Joined
  <1>9. Len(z) <= Bound /\ Len(z) \in Len(q)..(Len(q) + Len(r))
    BY <1>1, <1>2, <1>4, <1>8
  <1>10. ASSUME Len(q) + Len(r) <= Bound PROVE z = q \o r
    <2>1. n = Len(r)
      BY <1>1, <1>2, <1>10
    <2> QED BY <1>3, <1>6, <2>1
  <1>11. ASSUME ~(Len(q) < Bound) PROVE z = q
    <2>1. n = 0
      BY <1>1, <1>2, <1>4, <1>11
    <2> QED BY <1>3, <1>7, <2>1
  <1> QED BY <1>8, <1>9, <1>10, <1>11 DEF z

\* One push is the same, and adds the message or nothing.
LEMMA PushIs ==
  ASSUME NEW M, NEW q \in Seq(M), Len(q) <= Bound, NEW m \in M
  PROVE  /\ Push(q, m) = PushAll(q, <<m>>)
         /\ Push(q, m) \in Seq(M) /\ Len(Push(q, m)) <= Bound
         /\ Len(Push(q, m)) \in Len(q)..(Len(q) + 1)
         /\ \A k \in DOMAIN Push(q, m) : \/ k \in DOMAIN q /\ Push(q, m)[k] = q[k]
                                         \/ Push(q, m)[k] = m
  <1> DEFINE z == Push(q, m)
  <1>1. Len(q) \in Nat /\ Bound \in Nat /\ <<m>> \in Seq(M) /\ Len(<<m>>) = 1
    BY Parameters
  <1>2. z = IF Len(q) < Bound THEN Append(q, m) ELSE q
    BY DEF Push
  <1> HIDE DEF z
  <1>3. z = PushAll(q, <<m>>)
    <2>1. CASE Len(q) < Bound
      <3>1. Len(q) + Len(<<m>>) <= Bound
        BY <1>1, <2>1
      <3>2. PushAll(q, <<m>>) = q \o <<m>>
        BY <1>1, <3>1, PushAllIs
      <3> QED BY <1>2, <2>1, <3>2, Appended
    <2>2. CASE ~(Len(q) < Bound)
      BY <1>1, <1>2, <2>2, PushAllIs
    <2> QED BY <2>1, <2>2
  <1>4. z \in Seq(M) /\ Len(z) <= Bound /\ Len(z) \in Len(q)..(Len(q) + 1)
    <2>1. CASE Len(q) < Bound
      <3>1. z \in Seq(M) /\ Len(z) = Len(q) + 1
        BY <1>2, <2>1, Appended
      <3> QED BY <1>1, <2>1, <3>1
    <2>2. CASE ~(Len(q) < Bound)
      BY <1>1, <1>2, <2>2
    <2> QED BY <2>1, <2>2
  <1>5. ASSUME NEW k \in DOMAIN z PROVE (k \in DOMAIN q /\ z[k] = q[k]) \/ z[k] = m
    <2>1. CASE Len(q) < Bound
      <3>1. /\ DOMAIN z = 1..(Len(q) + 1) /\ DOMAIN q = 1..Len(q)
            /\ \A j \in 1..Len(q) : z[j] = q[j]
            /\ z[Len(q) + 1] = m
        BY <1>2, <2>1, Appended
      <3>2. k \in 1..Len(q) \/ k = Len(q) + 1
        BY <1>1, <1>5, <3>1
      <3> QED BY <3>1, <3>2
    <2>2. CASE ~(Len(q) < Bound)
      BY <1>2, <1>5, <2>2
    <2> QED BY <2>1, <2>2
  <1> QED BY <1>3, <1>4, <1>5 DEF z

-----------------------------------------------------------------------------
(* What the server will believe *)

About(q, p) == {k \in DOMAIN q : q[k].user = p}

\* The last message of q about p, and what it says.
IsLast(q, p, k) == /\ k \in DOMAIN q /\ q[k].user = p
                   /\ \A l \in DOMAIN q : l > k => q[l].user # p
SaysIn(q, k) == q[k].type = "USER_CONNECTED"

\* It decides.
LEMMA LastDecides ==
  ASSUME NEW M, NEW q \in Seq(M), NEW p, NEW k, IsLast(q, p, k)
  PROVE  \A A : Believed(q, A, p) <=> SaysIn(q, k)
  <1>1. About(q, p) \in SUBSET (0..Len(q)) /\ k \in About(q, p) /\ Len(q) \in Nat
    BY DEF About, IsLast
  <1>2. Max(About(q, p)) \in About(q, p) /\ Max(About(q, p)) >= k
    BY <1>1, MaxIs
  <1>3. Max(About(q, p)) = k
    <2>1. Max(About(q, p)) \in DOMAIN q /\ q[Max(About(q, p))].user = p
      BY <1>2 DEF About
    <2>2. ~(Max(About(q, p)) > k)
      BY <2>1 DEF IsLast
    <2> QED BY <1>1, <1>2, <2>1, <2>2
  <1> QED BY <1>1, <1>3 DEF Believed, About, SaysIn

\* Where there is one, there is a last one.
LEMMA LastExists ==
  ASSUME NEW M, NEW q \in Seq(M), NEW p, About(q, p) # {}
  PROVE  \E k : IsLast(q, p, k)
  <1>1. About(q, p) \in SUBSET (0..Len(q)) /\ Len(q) \in Nat
    BY DEF About
  <1>2. Max(About(q, p)) \in About(q, p) /\ \A y \in About(q, p) : Max(About(q, p)) >= y
    BY <1>1, MaxIs
  <1>3. ASSUME NEW l \in DOMAIN q, l > Max(About(q, p)) PROVE q[l].user # p
    <2>1. ASSUME l \in About(q, p) PROVE FALSE
      <3>1. Max(About(q, p)) >= l
        BY <1>2, <2>1
      <3>2. Max(About(q, p)) \in Nat /\ l \in Nat
        BY <1>1, <1>2
      <3> QED BY <1>3, <3>1, <3>2
    <2> QED BY <2>1 DEF About
  <1>4. Max(About(q, p)) \in DOMAIN q /\ q[Max(About(q, p))].user = p
    BY <1>2 DEF About
  <1>5. IsLast(q, p, Max(About(q, p)))
    BY <1>3, <1>4 DEF IsLast
  <1> QED BY <1>5

\* Where there is none, the server believes what it did.
LEMMA NoneDecides ==
  ASSUME NEW q, NEW p, About(q, p) = {}
  PROVE  \A A : Believed(q, A, p) <=> p \in A
  BY DEF Believed, About

\* Only what it did believe about p counts.
LEMMA BelievedSame ==
  ASSUME NEW q, NEW p, NEW A, NEW B, p \in A <=> p \in B
  PROVE  Believed(q, A, p) <=> Believed(q, B, p)
  BY DEF Believed

\* Messages that agree about p settle whether he will be believed to be in the
\* session, as he is if he is in B; others do not matter.
LEMMA BelievedJoined ==
  ASSUME NEW M, NEW q \in Seq(M), NEW r \in Seq(M), NEW A, NEW B, NEW p,
         \A k \in DOMAIN r : r[k].user = p => (r[k].type = "USER_CONNECTED" <=> p \in B),
         About(r, p) = {} => (Believed(q, A, p) <=> p \in B)
  PROVE  Believed(q \o r, A, p) <=> p \in B
  <1> DEFINE z == q \o r
  <1>1. Len(q) \in Nat /\ Len(r) \in Nat /\ DOMAIN q = 1..Len(q) /\ DOMAIN r = 1..Len(r)
    OBVIOUS
  <1>9. /\ z \in Seq(M) /\ DOMAIN z = 1..(Len(q) + Len(r))
        /\ \A k \in 1..Len(q) : z[k] = q[k]
        /\ \A k \in 1..Len(r) : z[Len(q) + k] = r[k]
    BY Joined
  <1> SUFFICES Believed(z, A, p) <=> p \in B
    OBVIOUS
  <1> HIDE DEF z
  <1>2. CASE About(r, p) # {}
    <2>0. PICK k : IsLast(r, p, k)
      BY <1>2, LastExists
    <2>1. k \in DOMAIN r /\ r[k].user = p /\ \A l \in DOMAIN r : l > k => r[l].user # p
      BY <2>0 DEF IsLast
    <2>2. Len(q) + k \in DOMAIN z /\ z[Len(q) + k] = r[k]
      BY <1>1, <1>9, <2>1
    <2>3. ASSUME NEW l \in DOMAIN z, l > Len(q) + k PROVE z[l].user # p
      <3>1. l - Len(q) \in 1..Len(r) /\ l - Len(q) > k /\ l = Len(q) + (l - Len(q))
        BY <1>1, <1>9, <2>1, <2>3
      <3>2. z[l] = r[l - Len(q)]
        BY <3>1, <1>9
      <3> QED BY <1>1, <2>1, <3>1, <3>2
    <2>4. IsLast(z, p, Len(q) + k)
      BY <2>1, <2>2, <2>3 DEF IsLast
    <2>5. Believed(z, A, p) <=> SaysIn(z, Len(q) + k)
      BY <1>9, <2>4, LastDecides
    <2>6. SaysIn(z, Len(q) + k) <=> p \in B
      BY <2>1, <2>2 DEF SaysIn
    <2> QED BY <2>5, <2>6
  <1>3. CASE About(r, p) = {}
    <2>1. \A k \in 1..Len(r) : r[k].user # p
      BY <1>1, <1>3 DEF About
    <2>2. CASE About(q, p) = {}
      <3>1. \A k \in 1..Len(q) : q[k].user # p
        BY <1>1, <2>2 DEF About
      <3>2. ASSUME NEW l \in DOMAIN z PROVE z[l].user # p
        <4>1. l \in 1..Len(q) \/ (l - Len(q) \in 1..Len(r) /\ l = Len(q) + (l - Len(q)))
          BY <1>1, <3>2, <1>9
        <4> QED BY <2>1, <3>1, <4>1, <1>9
      <3>3. About(z, p) = {}
        BY <3>2 DEF About
      <3> QED BY <1>3, <2>2, <3>3, NoneDecides
    <2>3. CASE About(q, p) # {}
      <3>0. PICK k : IsLast(q, p, k)
        BY <2>3, LastExists
      <3>1. k \in DOMAIN q /\ q[k].user = p /\ \A l \in DOMAIN q : l > k => q[l].user # p
        BY <3>0 DEF IsLast
      <3>2. k \in DOMAIN z /\ z[k] = q[k]
        BY <1>1, <1>9, <3>1
      <3>3. ASSUME NEW l \in DOMAIN z, l > k PROVE z[l].user # p
        <4>1. l \in 1..Len(q) \/ (l - Len(q) \in 1..Len(r) /\ l = Len(q) + (l - Len(q)))
          BY <1>1, <3>3, <1>9
        <4>2. CASE l \in 1..Len(q)
          BY <1>1, <3>1, <3>3, <4>2, <1>9
        <4>3. CASE l - Len(q) \in 1..Len(r) /\ l = Len(q) + (l - Len(q))
          BY <2>1, <4>3, <1>9
        <4> QED BY <4>1, <4>2, <4>3
      <3>4. IsLast(z, p, k)
        BY <3>1, <3>2, <3>3 DEF IsLast
      <3>5. Believed(z, A, p) <=> SaysIn(z, k)
        BY <1>9, <3>4, LastDecides
      <3>6. Believed(q, A, p) <=> SaysIn(q, k)
        BY <3>0, LastDecides
      <3>7. SaysIn(z, k) <=> SaysIn(q, k)
        BY <3>2 DEF SaysIn
      <3> QED BY <1>3, <3>5, <3>6, <3>7
    <2> QED BY <2>2, <2>3
  <1> QED BY <1>2, <1>3

\* A message handled leaves what will be believed as it was: one about p has
\* told the server what it says.
LEMMA BelievedTail ==
  ASSUME NEW M, NEW q \in Seq(M), q # << >>, NEW A, NEW B, NEW p,
         Head(q).user = p => (p \in B <=> Head(q).type = "USER_CONNECTED"),
         Head(q).user # p => (p \in B <=> p \in A)
  PROVE  Believed(Tail(q), B, p) <=> Believed(q, A, p)
  <1> DEFINE z == Tail(q)
  <1>1. /\ z \in Seq(M) /\ Len(z) = Len(q) - 1 /\ Len(q) >= 1 /\ Len(q) \in Nat
        /\ DOMAIN z = 1..(Len(q) - 1) /\ DOMAIN q = 1..Len(q)
        /\ \A k \in 1..(Len(q) - 1) : z[k] = q[k + 1]
        /\ Head(q) = q[1]
    BY Shifted
  <1> SUFFICES Believed(z, B, p) <=> Believed(q, A, p)
    OBVIOUS
  <1> HIDE DEF z
  <1>2. CASE About(z, p) = {}
    <2>1. \A k \in 1..(Len(q) - 1) : q[k + 1].user # p
      BY <1>1, <1>2 DEF About
    <2>2. ASSUME NEW l \in DOMAIN q, l > 1 PROVE q[l].user # p
      <3>1. l - 1 \in 1..(Len(q) - 1) /\ (l - 1) + 1 = l
        BY <1>1, <2>2
      <3>2. q[(l - 1) + 1].user # p
        BY <2>1, <3>1
      <3> QED BY <3>1, <3>2
    <2>3. Believed(z, B, p) <=> p \in B
      BY <1>2, NoneDecides
    <2>4. CASE q[1].user = p
      <3>1. IsLast(q, p, 1)
        BY <1>1, <2>2, <2>4 DEF IsLast
      <3>2. Believed(q, A, p) <=> SaysIn(q, 1)
        BY <3>1, LastDecides
      <3> QED BY <1>1, <2>3, <2>4, <3>2 DEF SaysIn
    <2>5. CASE q[1].user # p
      <3>1. ASSUME NEW l \in DOMAIN q PROVE q[l].user # p
        <4>1. l = 1 \/ l > 1
          BY <1>1
        <4> QED BY <2>2, <2>5, <4>1
      <3>2. About(q, p) = {}
        BY <3>1 DEF About
      <3> QED BY <1>1, <2>3, <2>5, <3>2, NoneDecides
    <2> QED BY <2>4, <2>5
  <1>3. CASE About(z, p) # {}
    <2>0. PICK k : IsLast(z, p, k)
      BY <1>1, <1>3, LastExists
    <2>1. /\ k \in DOMAIN z /\ z[k].user = p
          /\ \A l \in DOMAIN z : l > k => z[l].user # p
      BY <2>0 DEF IsLast
    <2>2. k + 1 \in DOMAIN q /\ q[k + 1] = z[k]
      BY <1>1, <2>1
    <2>3. ASSUME NEW l \in DOMAIN q, l > k + 1 PROVE q[l].user # p
      <3>1. l - 1 \in 1..(Len(q) - 1) /\ (l - 1) + 1 = l /\ l - 1 > k
        BY <1>1, <2>1, <2>3
      <3>2. z[l - 1] = q[l] /\ z[l - 1].user # p
        BY <1>1, <2>1, <3>1
      <3> QED BY <3>2
    <2>4. IsLast(q, p, k + 1)
      BY <2>1, <2>2, <2>3 DEF IsLast
    <2>5. Believed(q, A, p) <=> SaysIn(q, k + 1)
      BY <2>4, LastDecides
    <2>6. Believed(z, B, p) <=> SaysIn(z, k)
      BY <1>1, <2>0, LastDecides
    <2> QED BY <2>2, <2>5, <2>6 DEF SaysIn
  <1> QED BY <1>2, <1>3

-----------------------------------------------------------------------------
(* The session's record *)

\* The session, with what is proved about it.
P == INSTANCE SessionProofs WITH
       Clients <- Players, GameCapacity <- MaxClients, Shuffles <- {},
       DefaultRules <- [nbrLign |-> 1, nbrCardsLign |-> 1, nbHead |-> 1,
                        nbrCardsPlayer |-> 1, nbrCards |-> 1 + MaxClients],
       RuleSets <- {},
       MaxDeals <- 0, BusMayFill <- FALSE, MidGameStart <- FALSE,
       deals <- 0, fault <- FALSE

\* Its assumptions hold of the parameters that it is given here.
LEMMA Instance == P!GameAssumption /\ P!SessionAssumption
  <1>1. /\ MaxClients \in 2..254 /\ NoClient \notin Players
    BY LifecycleAssumption DEF NoClient
  <1>2. P!Rules = {[nbrLign |-> 1, nbrCardsLign |-> 1, nbHead |-> 1,
                    nbrCardsPlayer |-> 1, nbrCards |-> 1 + MaxClients]}
    BY DEF P!Rules
  <1>3. P!GameAssumption
    BY <1>1, <1>2 DEF P!GameAssumption
  <1>4. P!SessionAssumption
    BY <1>1 DEF P!SessionAssumption, P!InitFails
  <1> QED BY <1>3, <1>4

\* A session_t in which no game is on, nor waits to be resolved.
Idle(s) == DOMAIN s = P!AllFields /\ s.game_state = "INACTIVE"

\* The lookups are the same in both.
LEMMA SameNames ==
  /\ S!Slots = P!Slots /\ S!NoHand = P!NoHand /\ S!NoCard = P!NoCard
  /\ S!NoHeads = P!NoHeads
  /\ \A s : S!Free(s) = P!Free(s)
  <1>1. S!Slots = P!Slots /\ S!NoCard = P!NoCard /\ S!NoHeads = P!NoHeads
    BY DEF S!Slots, P!Slots, S!NoCard, P!NoCard, S!NoHeads, P!NoHeads
  <1>2. S!NoHand = P!NoHand
    BY <1>1 DEF S!NoHand, P!NoHand
  <1>3. ASSUME NEW s PROVE S!Free(s) = P!Free(s)
    BY <1>1 DEF S!Free, P!Free
  <1> QED BY <1>1, <1>2, <1>3

\* So is who is a member, and in which slot.
LEMMA SameMember == \A s, c : S!Member(s, c) <=> P!Member(s, c)
  BY SameNames DEF S!Member, P!Member

\* The slot is the least in both.
LEMMA SameIndex == \A s, c : S!Index(s, c) = P!Index(s, c)
  <1> SUFFICES ASSUME NEW s, NEW c PROVE S!Index(s, c) = P!Index(s, c)
    OBVIOUS
  <1> DEFINE I == {i \in P!Slots : s.role[i] # "NONE" /\ s.player_id[i] = c}
  <1>1. S!Index(s, c) = S!Min(I) /\ P!Index(s, c) = P!Min(I)
    BY SameNames DEF S!Index, P!Index
  <1> HIDE DEF I
  <1>2. S!Min(I) = P!Min(I)
    BY DEF S!Min, P!Min
  <1> QED BY <1>1, <1>2

\* The session as it is created.
LEMMA SameInit == S!Init <=> P!Init
  BY SameNames DEF S!Init, P!Init, S!EmptyBoard, P!EmptyBoard

\* A JOIN.
LEMMA SameJoin ==
  ASSUME NEW s, NEW c
  PROVE  /\ S!Admissible(s, c) <=> P!Admissible(s, c)
         /\ S!AfterJoin(s, c) = P!AfterJoin(s, c)
  <1>1. S!Admissible(s, c) <=> P!Admissible(s, c)
    BY SameMember DEF S!Admissible, P!Admissible
  <1>2. ASSUME NEW h, NEW newRole PROVE S!AddPlayer(h, c, newRole) = P!AddPlayer(h, c, newRole)
    <2>1. S!Min(S!Free(h)) = P!Min(P!Free(h))
      BY SameNames DEF S!Min, P!Min
    <2> QED BY <2>1, SameNames DEF S!AddPlayer, P!AddPlayer
  <1>3. S!AfterJoin(s, c) = P!AfterJoin(s, c)
    BY <1>2 DEF S!AfterJoin, P!AfterJoin
  <1> QED BY <1>1, <1>3

\* Between games a player who withdraws is one active player less.
LEMMA SameWithdraw ==
  ASSUME NEW s, Idle(s), NEW i, NEW sent
  PROVE  S!Withdraw(s, i, sent) = P!Withdraw(s, i, sent) /\ Idle(P!Withdraw(s, i, sent))
  <1>1. /\ S!Withdraw(s, i, sent) = [s EXCEPT !.active_players = @ - 1]
        /\ P!Withdraw(s, i, sent) = [s EXCEPT !.active_players = @ - 1]
    BY DEF Idle, S!Withdraw, P!Withdraw
  <1>2. Idle([s EXCEPT !.active_players = @ - 1])
    BY DEF Idle, P!AllFields, P!MemberFields, P!GameFields
  <1> QED BY <1>1, <1>2

\* remove_player
LEMMA SameRemovePlayer ==
  ASSUME NEW s, Idle(s), NEW c, NEW sent
  PROVE  /\ S!RemovePlayer(s, c, sent) = P!RemovePlayer(s, c, sent)
         /\ Idle(P!RemovePlayer(s, c, sent))
  <1> DEFINE i == P!Index(s, c)
             t == IF c = s.id_creator /\ s.number_clients > 1
                  THEN [s EXCEPT !.id_creator = P!Heir(s, i)] ELSE s
             u == IF s.role[i] = "PLAYER" THEN P!Withdraw(t, i, sent) ELSE t
             z == [u EXCEPT !.number_clients = @ - 1,
                            !.player_id[i] = NoClient, !.role[i] = "NONE",
                            !.is_connected[i] = FALSE,
                            !.hand[i] = P!NoHand, !.room[i] = 0]
  <1>1. P!RemovePlayer(s, c, sent) = IF ~P!Member(s, c) THEN s ELSE z
    BY DEF P!RemovePlayer
  <1>2. S!Index(s, c) = i /\ S!Heir(s, i) = P!Heir(s, i)
    BY SameIndex DEF S!Heir, P!Heir
  <1>3. Idle(t)
    BY DEF Idle, P!AllFields, P!MemberFields, P!GameFields
  <1>4. S!RemovePlayer(s, c, sent) =
          IF ~S!Member(s, c) THEN s
          ELSE [(IF s.role[i] = "PLAYER" THEN S!Withdraw(t, i, sent) ELSE t)
                  EXCEPT !.number_clients = @ - 1,
                         !.player_id[i] = NoClient, !.role[i] = "NONE",
                         !.is_connected[i] = FALSE,
                         !.hand[i] = S!NoHand, !.room[i] = 0]
    <2> DEFINE j == S!Index(s, c)
               w == IF c = s.id_creator /\ s.number_clients > 1
                    THEN [s EXCEPT !.id_creator = S!Heir(s, j)] ELSE s
    <2>1. S!RemovePlayer(s, c, sent) =
            IF ~S!Member(s, c) THEN s
            ELSE [(IF s.role[j] = "PLAYER" THEN S!Withdraw(w, j, sent) ELSE w)
                    EXCEPT !.number_clients = @ - 1,
                           !.player_id[j] = NoClient, !.role[j] = "NONE",
                           !.is_connected[j] = FALSE,
                           !.hand[j] = S!NoHand, !.room[j] = 0]
      BY DEF S!RemovePlayer
    <2>2. j = i
      BY <1>2
    <2> HIDE DEF i, j
    <2>3. w = t
      BY <1>2, <2>2
    <2> QED BY <2>1, <2>2, <2>3
  <1> HIDE DEF i, t
  <1>5. S!Withdraw(t, i, sent) = P!Withdraw(t, i, sent) /\ Idle(P!Withdraw(t, i, sent))
    BY <1>3, SameWithdraw
  <1>6. S!RemovePlayer(s, c, sent) = P!RemovePlayer(s, c, sent)
    BY <1>1, <1>4, <1>5, SameMember, SameNames
  <1>7. Idle(u)
    BY <1>3, <1>5
  <1> HIDE DEF u
  <1>8. Idle(z)
    BY <1>7 DEF Idle, P!AllFields, P!MemberFields, P!GameFields
  <1> HIDE DEF z
  <1> QED BY <1>1, <1>6, <1>8

\* The loops that remove everybody, as the function that SessionLifecycle's
\* session defines.
Chain(f, s, sent) ==
  f = [n \in 0..MaxClients |->
         IF n = 0 THEN s ELSE S!RemovePlayer(f[n - 1], f[n - 1].player_id[n - 1], sent)]

\* They remove the same players in both.
LEMMA SameRemoveAll ==
  ASSUME NEW s, Idle(s), NEW sent
  PROVE  /\ S!RemoveAll(s, sent) = P!RemoveAll(s, sent)
         /\ Idle(P!RemoveAll(s, sent))
  <1>0. MaxClients \in Nat
    BY Parameters
  <1>1. PICK f : /\ P!RemoveAll(s, sent) = f[MaxClients]
                 /\ f[0] = s
                 /\ \A n \in 1..MaxClients : f[n] = P!RemovalStep(f, n, sent)
    BY Instance, P!RemoveAllIs
  <1>2. \A n \in 1..MaxClients :
          f[n] = P!RemovePlayer(f[n - 1], f[n - 1].player_id[n - 1], sent)
    BY <1>1 DEF P!RemovalStep
  <1> DEFINE T == {n \in 0..MaxClients : ~Idle(f[n])}
  <1>3. ASSUME NEW n \in T, \A j \in T : n <= j PROVE FALSE
    <2>1. n # 0
      BY <1>1
    <2>2. n \in 1..MaxClients /\ n - 1 \in 0..MaxClients /\ n - 1 \notin T
      BY <1>0, <1>3, <2>1
    <2> QED BY <1>2, <2>2, SameRemovePlayer
  <1>4. T = {}
    <2>1. T \in SUBSET Nat
      BY <1>0
    <2> HIDE DEF T
    <2> QED BY <1>3, <2>1, LeastNat
  <1>5. \A n \in 0..MaxClients : Idle(f[n])
    BY <1>4
  <1> HIDE DEF T
  <1>6. ASSUME NEW n \in 1..MaxClients
        PROVE  /\ n - 1 \in 0..MaxClients
               /\ f[n] = S!RemovePlayer(f[n - 1], f[n - 1].player_id[n - 1], sent)
    <2>1. n - 1 \in 0..MaxClients
      BY <1>0
    <2> QED BY <1>2, <1>5, <2>1, SameRemovePlayer
  <1> DEFINE h == [n \in 0..MaxClients |-> f[n]]
             g == CHOOSE x : Chain(x, s, sent)
  <1>7. Chain(h, s, sent)
    <2>1. \A n \in 0..MaxClients :
            f[n] = IF n = 0 THEN s
                   ELSE S!RemovePlayer(h[n - 1], h[n - 1].player_id[n - 1], sent)
      <3>1. ASSUME NEW n \in 0..MaxClients, n # 0
            PROVE  f[n] = S!RemovePlayer(h[n - 1], h[n - 1].player_id[n - 1], sent)
        <4>1. n \in 1..MaxClients
          BY <1>0, <3>1
        <4>2. h[n - 1] = f[n - 1]
          BY <1>6, <4>1
        <4> QED BY <1>6, <4>1, <4>2
      <3> QED BY <1>1, <3>1
    <2>2. h = [n \in 0..MaxClients |->
                 IF n = 0 THEN s
                 ELSE S!RemovePlayer(h[n - 1], h[n - 1].player_id[n - 1], sent)]
      BY <2>1, Zenon
    <2> QED BY <2>2 DEF Chain
  <1>8. Chain(g, s, sent)
    BY <1>7, Zenon
  <1>9. S!RemoveAll(s, sent) = g[MaxClients]
    BY DEF S!RemoveAll, Chain
  <1> HIDE DEF g
  <1>10. /\ g[0] = s
         /\ \A n \in 1..MaxClients :
              g[n] = S!RemovePlayer(g[n - 1], g[n - 1].player_id[n - 1], sent)
    BY <1>0, <1>8 DEF Chain
  <1> DEFINE U == {n \in 0..MaxClients : g[n] # f[n]}
  <1>11. ASSUME NEW n \in U, \A j \in U : n <= j PROVE FALSE
    <2>1. n # 0
      BY <1>1, <1>10
    <2>2. n \in 1..MaxClients /\ n - 1 \in 0..MaxClients /\ n - 1 \notin U
      BY <1>0, <1>11, <2>1
    <2> QED BY <1>6, <1>10, <2>2
  <1>12. U = {}
    <2>1. U \in SUBSET Nat
      BY <1>0
    <2> HIDE DEF U
    <2> QED BY <1>11, <2>1, LeastNat
  <1>13. g[MaxClients] = f[MaxClients]
    BY <1>0, <1>12
  <1> QED BY <1>0, <1>1, <1>5, <1>9, <1>13

\* USER_LEFT
LEMMA SameAfterUserLeft ==
  ASSUME NEW s, Idle(s), NEW c, NEW sent
  PROVE  /\ S!AfterUserLeft(s, c, sent) = P!AfterUserLeft(s, c, sent)
         /\ Idle(P!AfterUserLeft(s, c, sent))
  <1> DEFINE i == P!Index(s, c)
             h == [s EXCEPT !.hand[i] = P!NoHand, !.room[i] = 0]
             m == P!MakeObserver(s, c, sent)
             t == [m EXCEPT !.is_connected[i] = FALSE]
  <1>1. S!Index(s, c) = i
    BY SameIndex
  <1>2. Idle(h)
    BY DEF Idle, P!AllFields, P!MemberFields, P!GameFields
  <1>3. P!MakeObserver(s, c, sent) =
          IF s.role[i] = "OBSERVER" THEN s
          ELSE [P!Withdraw(h, i, sent) EXCEPT !.role[i] = "OBSERVER"]
    BY DEF P!MakeObserver
  <1>4. S!MakeObserver(s, c, sent) =
          IF s.role[i] = "OBSERVER" THEN s
          ELSE [S!Withdraw(h, i, sent) EXCEPT !.role[i] = "OBSERVER"]
    BY <1>1, SameNames DEF S!MakeObserver
  <1>5. /\ P!AfterUserLeft(s, c, sent) =
             IF \E j \in P!Slots : t.is_connected[j] THEN t
             ELSE [P!RemoveAll(t, sent) EXCEPT !.unregister_send = 1]
        /\ S!MakeObserver(s, c, sent) = m =>
             S!AfterUserLeft(s, c, sent) =
               IF \E j \in P!Slots : t.is_connected[j] THEN t
               ELSE [S!RemoveAll(t, sent) EXCEPT !.unregister_send = 1]
    BY <1>1, SameNames, Zenon DEF P!AfterUserLeft, S!AfterUserLeft
  <1> HIDE DEF i, h
  <1>6. S!Withdraw(h, i, sent) = P!Withdraw(h, i, sent) /\ Idle(P!Withdraw(h, i, sent))
    BY <1>2, SameWithdraw
  <1>7. S!MakeObserver(s, c, sent) = m /\ Idle(m)
    <2>1. Idle([P!Withdraw(h, i, sent) EXCEPT !.role[i] = "OBSERVER"])
      BY <1>6 DEF Idle, P!AllFields, P!MemberFields, P!GameFields
    <2> QED BY <1>3, <1>4, <1>6, <2>1
  <1> HIDE DEF m
  <1>8. Idle(t)
    BY <1>7 DEF Idle, P!AllFields, P!MemberFields, P!GameFields
  <1> HIDE DEF t
  <1>9. S!RemoveAll(t, sent) = P!RemoveAll(t, sent) /\ Idle(P!RemoveAll(t, sent))
    BY <1>8, SameRemoveAll
  <1>10. Idle([P!RemoveAll(t, sent) EXCEPT !.unregister_send = 1])
    BY <1>9 DEF Idle, P!AllFields, P!MemberFields, P!GameFields
  <1> QED BY <1>5, <1>7, <1>8, <1>9, <1>10

\* PKT_SESSION_CLOSE
LEMMA SameAfterClose ==
  ASSUME NEW s, Idle(s), NEW sent
  PROVE  /\ S!AfterClose(s, sent) = P!AfterClose(s, sent)
         /\ Idle(P!AfterClose(s, sent))
  <1> DEFINE t == [s EXCEPT !.game_state = "INACTIVE"]
             a == P!RemoveAll(t, sent)
  <1>1. Idle(t)
    BY DEF Idle, P!AllFields, P!MemberFields, P!GameFields
  <1>2. /\ P!AfterClose(s, sent) = [a EXCEPT !.unregister_send = 1]
        /\ S!AfterClose(s, sent) = [S!RemoveAll(t, sent) EXCEPT !.unregister_send = 1]
    BY DEF P!AfterClose, S!AfterClose
  <1> HIDE DEF t
  <1>3. S!RemoveAll(t, sent) = a /\ Idle(a)
    BY <1>1, SameRemoveAll
  <1> HIDE DEF a
  <1>4. Idle([a EXCEPT !.unregister_send = 1])
    BY <1>3 DEF Idle, P!AllFields, P!MemberFields, P!GameFields
  <1> QED BY <1>2, <1>3, <1>4

\* A session_t between games, as the proofs about the session have it.
Sound(s) == P!Members(s) /\ P!Equipped(s) /\ s.game_state = "INACTIVE"

\* What that says of its fields, and of who is in it.
LEMMA SoundIs ==
  ASSUME NEW s, Sound(s)
  PROVE  /\ Idle(s)
         /\ s.player_id \in [P!Slots -> Players \cup {NoClient}]
         /\ s.unregister_send \in {0, 1} /\ s.number_clients \in 0..MaxClients
         /\ \A d : S!Member(s, d) <=> \E i \in P!Slots : s.player_id[i] = d /\ d # NoClient
         /\ s.number_clients = 0 <=> \A i \in P!Slots : s.player_id[i] = NoClient
  <1>1. P!Members(s) /\ P!Equipped(s) /\ s.game_state = "INACTIVE"
    BY DEF Sound
  <1>2. Idle(s) /\ s.unregister_send \in {0, 1}
    BY <1>1 DEF Idle, P!Equipped
  <1>3. s.player_id \in [P!Slots -> Players \cup {NoClient}]
    BY <1>1 DEF P!Members
  <1>4. s.number_clients \in 0..MaxClients
    BY <1>1, Instance, P!MembersCounts
  <1>5. /\ \A d : P!Member(s, d) <=> \E i \in P!Slots : s.player_id[i] = d /\ d # NoClient
        /\ s.number_clients = 0 <=> \A i \in P!Slots : s.player_id[i] = NoClient
    BY <1>1, Instance, P!MemberIs
  <1> QED BY <1>2, <1>3, <1>4, <1>5, SameMember

\* The session as it is created.
LEMMA InitSound ==
  ASSUME S!Init
  PROVE  /\ Sound(session) /\ session.unregister_send = 0
         /\ \A d \in Players : ~S!Member(session, d)
  <1>1. P!Init
    BY SameInit
  <1>2. P!Members(session) /\ P!Equipped(session)
    BY <1>1, Instance, P!InitMembers, P!InitEquipped
  <1>3. /\ session.game_state = "INACTIVE" /\ session.unregister_send = 0
        /\ session.player_id = [i \in P!Slots |-> NoClient]
    BY <1>1 DEF P!Init
  <1>4. Sound(session)
    BY <1>2, <1>3 DEF Sound
  <1> QED BY <1>3, <1>4, SoundIs

\* A JOIN adds one member, and makes an empty session forget its request.
LEMMA JoinSound ==
  ASSUME NEW s, Sound(s), NEW p \in Players, S!Admissible(s, p)
  PROVE  LET t == S!AfterJoin(s, p)
         IN  /\ Sound(t)
             /\ \A d \in Players : S!Member(t, d) <=> S!Member(s, d) \/ d = p
             /\ t.unregister_send = IF s.number_clients = 0 THEN 0 ELSE s.unregister_send
             /\ t.number_clients # 0
  <1> DEFINE t == P!AfterJoin(s, p)
  <1>1. P!Members(s) /\ P!Equipped(s) /\ s.game_state = "INACTIVE" /\ P!Admissible(s, p)
    BY SameJoin DEF Sound
  <1>2. P!Members(t) /\ P!Equipped(t)
    BY <1>1, Instance, P!AfterJoinMembers, P!AfterJoinEquipped
  <1>3. /\ \A d \in Players : P!Member(t, d) <=> P!Member(s, d) \/ d = p
        /\ t.unregister_send = IF s.number_clients = 0 THEN 0 ELSE s.unregister_send
    BY <1>1, Instance, P!AfterJoinWho
  <1>4. t.game_state = "INACTIVE"
    <2> DEFINE h == IF s.number_clients = 0
                    THEN [s EXCEPT !.id_creator = p, !.unregister_send = 0] ELSE s
    <2>1. h.game_state = "INACTIVE" /\ DOMAIN h = P!AllFields
      BY <1>1 DEF P!Equipped, P!AllFields, P!MemberFields, P!GameFields
    <2>2. \E role : t = P!AddPlayer(h, p, role)
      BY DEF P!AfterJoin
    <2> HIDE DEF h, t
    <2> QED BY <2>1, <2>2 DEF P!AddPlayer, P!AllFields, P!MemberFields, P!GameFields
  <1>5. S!AfterJoin(s, p) = t
    BY SameJoin
  <1> HIDE DEF t
  <1>6. Sound(t)
    BY <1>2, <1>4 DEF Sound
  <1>7. \A d \in Players : S!Member(t, d) <=> S!Member(s, d) \/ d = p
    BY <1>3, SameMember
  <1>8. t.number_clients # 0
    <2>1. S!Member(t, p)
      BY <1>7
    <2> QED BY <1>6, <2>1, SoundIs
  <1> QED BY <1>3, <1>5, <1>6, <1>7, <1>8

\* remove_player lets one member go, or nobody.
LEMMA RemovePlayerSound ==
  ASSUME NEW s, Sound(s), NEW p, NEW sent
  PROVE  LET t == S!RemovePlayer(s, p, sent)
         IN  /\ Sound(t)
             /\ \A d \in Players : S!Member(t, d) <=> S!Member(s, d) /\ d # p
             /\ t.unregister_send = s.unregister_send
             /\ s.number_clients = 0 => t.number_clients = 0
  <1> DEFINE t == P!RemovePlayer(s, p, sent)
  <1>1. P!Members(s) /\ P!Equipped(s) /\ Idle(s)
    BY SoundIs DEF Sound
  <1>2. P!Members(t) /\ P!Equipped(t)
    BY <1>1, Instance, P!RemovePlayerMembers, P!RemovePlayerEquipped
  <1>3. P!Without(s, t, {p})
    BY <1>1, Instance, P!RemovePlayerWho
  <1>4. S!RemovePlayer(s, p, sent) = t /\ Idle(t)
    BY <1>1, SameRemovePlayer
  <1> HIDE DEF t
  <1>5. Sound(t)
    BY <1>2, <1>4 DEF Sound, Idle
  <1>6. /\ t.unregister_send = s.unregister_send
        /\ \A d \in Players : P!Member(t, d) <=> P!Member(s, d) /\ d \notin {p}
        /\ \A i \in P!Slots : s.player_id[i] = NoClient => t.player_id[i] = NoClient
    BY <1>3 DEF P!Without
  <1>7. s.number_clients = 0 => t.number_clients = 0
    BY <1>5, <1>6, SoundIs
  <1>8. \A d \in Players : S!Member(t, d) <=> S!Member(s, d) /\ d # p
    BY <1>6, SameMember
  <1> QED BY <1>4, <1>5, <1>6, <1>7, <1>8

\* USER_LEFT: either everybody keeps his slot, or nobody does.
LEMMA AfterUserLeftSound ==
  ASSUME NEW s, Sound(s), NEW p, S!Member(s, p), NEW sent
  PROVE  LET t == S!AfterUserLeft(s, p, sent)
         IN  /\ Sound(t)
             /\ \/ /\ \A d \in Players : S!Member(t, d) <=> S!Member(s, d)
                   /\ t.unregister_send = s.unregister_send /\ t.number_clients # 0
                \/ /\ \A d \in Players : ~S!Member(t, d)
                   /\ t.unregister_send = 1 /\ t.number_clients = 0
  <1> DEFINE t == P!AfterUserLeft(s, p, sent)
  <1>1. P!Members(s) /\ P!Equipped(s) /\ Idle(s) /\ P!Member(s, p)
    BY SoundIs, SameMember DEF Sound
  <1>2. P!Members(t) /\ P!Equipped(t)
    BY <1>1, Instance, P!AfterUserLeftMembers, P!AfterUserLeftEquipped
  <1>3. \/ P!Without(s, t, {}) /\ t.number_clients # 0
        \/ P!Empty(t) /\ t.unregister_send = 1
    BY <1>1, Instance, P!AfterUserLeftWho
  <1>4. S!AfterUserLeft(s, p, sent) = t /\ Idle(t)
    BY <1>1, SameAfterUserLeft
  <1> HIDE DEF t
  <1>5. Sound(t)
    BY <1>2, <1>4 DEF Sound, Idle
  <1>6. CASE P!Without(s, t, {}) /\ t.number_clients # 0
    <2>1. /\ t.unregister_send = s.unregister_send
          /\ \A d \in Players : P!Member(t, d) <=> P!Member(s, d)
      BY <1>6 DEF P!Without
    <2> QED BY <1>4, <1>5, <1>6, <2>1, SameMember
  <1>7. CASE P!Empty(t) /\ t.unregister_send = 1
    <2>1. t.number_clients = 0 /\ \A d \in Players : ~P!Member(t, d)
      BY <1>7 DEF P!Empty
    <2> QED BY <1>4, <1>5, <1>7, <2>1, SameMember
  <1> QED BY <1>3, <1>6, <1>7

\* CLOSE: nobody stays.
LEMMA AfterCloseSound ==
  ASSUME NEW s, Sound(s), NEW sent
  PROVE  LET t == S!AfterClose(s, sent)
         IN  /\ Sound(t) /\ t.unregister_send = 1 /\ t.number_clients = 0
             /\ \A d \in Players : ~S!Member(t, d)
  <1> DEFINE t == P!AfterClose(s, sent)
  <1>1. P!Members(s) /\ P!Equipped(s) /\ Idle(s)
    BY SoundIs DEF Sound
  <1>2. P!Members(t) /\ P!Equipped(t)
    BY <1>1, Instance, P!AfterCloseMembers, P!AfterCloseEquipped
  <1>3. P!Empty(t) /\ t.unregister_send = 1
    BY <1>1, Instance, P!AfterCloseWho
  <1>4. S!AfterClose(s, sent) = t /\ Idle(t)
    BY <1>1, SameAfterClose
  <1> HIDE DEF t
  <1>5. Sound(t)
    BY <1>2, <1>4 DEF Sound, Idle
  <1>6. t.number_clients = 0 /\ \A d \in Players : ~P!Member(t, d)
    BY <1>3 DEF P!Empty
  <1> QED BY <1>3, <1>4, <1>5, <1>6, SameMember

-----------------------------------------------------------------------------
(* Telling everybody that he is out *)

\* The function that DisconnectAll defines.
Tells(f, s) ==
  f = [n \in 0..MaxClients |->
         IF n = 0 THEN << >>
         ELSE IF s.player_id[n - 1] = NoClient THEN f[n - 1]
         ELSE Append(f[n - 1], Msg("USER_DISCONNECTED", s.player_id[n - 1]))]

\* It exists.
LEMMA TellsExist ==
  ASSUME NEW s, Sound(s)
  PROVE  \E f : Tells(f, s)
  <1> DEFINE V == Seq(ServerMessages)
             step == [n \in 1..MaxClients |-> [v \in V |->
                        IF s.player_id[n - 1] = NoClient THEN v
                        ELSE Append(v, Msg("USER_DISCONNECTED", s.player_id[n - 1]))]]
  <1>1. MaxClients \in Nat /\ << >> \in V
    BY Parameters
  <1>2. ASSUME NEW n \in 1..MaxClients, s.player_id[n - 1] # NoClient
        PROVE  Msg("USER_DISCONNECTED", s.player_id[n - 1]) \in ServerMessages
    <2>1. n - 1 \in P!Slots
      BY <1>1 DEF P!Slots
    <2>2. s.player_id[n - 1] \in Players
      BY <1>2, <2>1, SoundIs
    <2> QED BY <2>2, MsgIs DEF News
  <1>3. ASSUME NEW n \in 1..MaxClients, NEW v \in V PROVE step[n][v] \in V
    BY <1>2
  <1>4. \A n \in 1..MaxClients, v \in V :
          step[n][v] = IF s.player_id[n - 1] = NoClient THEN v
                       ELSE Append(v, Msg("USER_DISCONNECTED", s.player_id[n - 1]))
    OBVIOUS
  <1> HIDE DEF V, step
  <1>5. PICK f : Iterates(f, MaxClients, V, << >>, step)
    BY <1>1, <1>3, IteratesExist
  <1>6. /\ f \in [0..MaxClients -> V] /\ f[0] = << >>
        /\ \A n \in 1..MaxClients : f[n] = step[n][f[n - 1]]
    BY <1>5 DEF Iterates
  <1>7. ASSUME NEW n \in 0..MaxClients
        PROVE  f[n] = IF n = 0 THEN << >>
                      ELSE IF s.player_id[n - 1] = NoClient THEN f[n - 1]
                      ELSE Append(f[n - 1], Msg("USER_DISCONNECTED", s.player_id[n - 1]))
    <2>1. CASE n = 0
      BY <1>6, <2>1
    <2>2. CASE n # 0
      <3>1. n \in 1..MaxClients /\ f[n - 1] \in V
        BY <1>1, <1>6, <2>2
      <3> QED BY <1>4, <1>6, <2>2, <3>1
    <2> QED BY <2>1, <2>2
  <1>8. Tells(f, s)
    BY <1>6, <1>7, Zenon DEF Tells
  <1> QED BY <1>8

\* out names the players in the first n slots, and nobody else.
Dismissed(s, out, n) ==
  /\ out \in Seq(ServerMessages) /\ Len(out) <= n
  /\ \A k \in DOMAIN out :
       /\ out[k].type = "USER_DISCONNECTED"
       /\ \E i \in 0..(n - 1) : s.player_id[i] = out[k].user
       /\ out[k].user # NoClient
  /\ \A i \in 0..(n - 1) : s.player_id[i] # NoClient =>
       \E k \in DOMAIN out : out[k].user = s.player_id[i]

\* One slot more.
LEMMA DismissedStep ==
  ASSUME NEW s, Sound(s), NEW n \in 1..MaxClients, NEW out, Dismissed(s, out, n - 1)
  PROVE  Dismissed(s, IF s.player_id[n - 1] = NoClient THEN out
                      ELSE Append(out, Msg("USER_DISCONNECTED", s.player_id[n - 1])), n)
  <1>1. /\ MaxClients \in Nat /\ n \in Nat /\ n - 1 \in Nat /\ n - 1 \in P!Slots
        /\ \A i \in 0..(n - 1) : i \in 0..((n - 1) - 1) \/ i = n - 1
        /\ \A i \in 0..((n - 1) - 1) : i \in 0..(n - 1)
        /\ n - 1 \in 0..(n - 1)
    BY Parameters DEF P!Slots
  <1>2. /\ out \in Seq(ServerMessages) /\ Len(out) <= n - 1 /\ Len(out) \in Nat
        /\ \A k \in DOMAIN out :
             /\ out[k].type = "USER_DISCONNECTED"
             /\ \E i \in 0..((n - 1) - 1) : s.player_id[i] = out[k].user
             /\ out[k].user # NoClient
        /\ \A i \in 0..((n - 1) - 1) : s.player_id[i] # NoClient =>
             \E k \in DOMAIN out : out[k].user = s.player_id[i]
    BY DEF Dismissed
  <1>3. CASE s.player_id[n - 1] = NoClient
    <2>1. Len(out) <= n
      BY <1>1, <1>2
    <2>2. \A i \in 0..(n - 1) : s.player_id[i] # NoClient =>
            \E k \in DOMAIN out : out[k].user = s.player_id[i]
      BY <1>1, <1>2, <1>3
    <2>3. \A k \in DOMAIN out : \E i \in 0..(n - 1) : s.player_id[i] = out[k].user
      BY <1>1, <1>2
    <2>4. Dismissed(s, out, n)
      BY <1>2, <2>1, <2>2, <2>3 DEF Dismissed
    <2> QED BY <1>3, <2>4
  <1>4. CASE s.player_id[n - 1] # NoClient
    <2> DEFINE m == Msg("USER_DISCONNECTED", s.player_id[n - 1])
               z == Append(out, m)
    <2>1. /\ m.type = "USER_DISCONNECTED" /\ m.user = s.player_id[n - 1]
          /\ m \in ServerMessages
      <3>1. s.player_id[n - 1] \in Players
        BY <1>1, <1>4, SoundIs
      <3> QED BY <3>1, MsgIs DEF News
    <2> HIDE DEF m
    <2>2. /\ z \in Seq(ServerMessages) /\ Len(z) = Len(out) + 1
          /\ DOMAIN z = 1..(Len(out) + 1) /\ DOMAIN out = 1..Len(out)
          /\ \A k \in 1..Len(out) : z[k] = out[k]
          /\ z[Len(out) + 1] = m
      BY <1>2, <2>1, Appended
    <2> HIDE DEF z
    <2>3. \A k \in DOMAIN z : k \in DOMAIN out \/ k = Len(out) + 1
      BY <1>2, <2>2
    <2>4. /\ \A k \in DOMAIN out : k \in DOMAIN z /\ z[k] = out[k]
          /\ Len(out) + 1 \in DOMAIN z
      BY <1>2, <2>2
    <2>5. Len(z) <= n
      BY <1>1, <1>2, <2>2
    <2>6. ASSUME NEW k \in DOMAIN z
          PROVE  /\ z[k].type = "USER_DISCONNECTED"
                 /\ \E i \in 0..(n - 1) : s.player_id[i] = z[k].user
                 /\ z[k].user # NoClient
      <3>1. CASE k \in DOMAIN out
        BY <1>1, <1>2, <2>4, <3>1
      <3>2. CASE k = Len(out) + 1
        BY <1>1, <1>4, <2>1, <2>2, <3>2
      <3> QED BY <2>3, <3>1, <3>2
    <2>7. ASSUME NEW i \in 0..(n - 1), s.player_id[i] # NoClient
          PROVE  \E k \in DOMAIN z : z[k].user = s.player_id[i]
      <3>1. CASE i \in 0..((n - 1) - 1)
        BY <1>2, <2>4, <2>7, <3>1
      <3>2. CASE i = n - 1
        BY <2>1, <2>2, <2>4, <3>2
      <3> QED BY <1>1, <3>1, <3>2
    <2>8. Dismissed(s, z, n)
      BY <2>2, <2>5, <2>6, <2>7 DEF Dismissed
    <2> QED BY <1>4, <2>8 DEF z, m
  <1> QED BY <1>3, <1>4

\* Every member is told, and nobody else.
LEMMA DisconnectAllIs ==
  ASSUME Sound(session)
  PROVE  /\ DisconnectAll \in Seq(ServerMessages) /\ Len(DisconnectAll) <= MaxClients
         /\ \A k \in DOMAIN DisconnectAll : /\ DisconnectAll[k].type = "USER_DISCONNECTED"
                                            /\ S!Member(session, DisconnectAll[k].user)
         /\ \A d : S!Member(session, d) => About(DisconnectAll, d) # {}
  <1> DEFINE f == CHOOSE x : Tells(x, session)
  <1>1. DisconnectAll = f[MaxClients]
    BY DEF DisconnectAll, Tells
  <1>2. Tells(f, session)
    BY TellsExist, Zenon
  <1>3. MaxClients \in Nat
    BY Parameters
  <1> HIDE DEF f
  <1>4. /\ f[0] = << >>
        /\ \A n \in 1..MaxClients :
             f[n] = IF session.player_id[n - 1] = NoClient THEN f[n - 1]
                    ELSE Append(f[n - 1], Msg("USER_DISCONNECTED", session.player_id[n - 1]))
    <2> DEFINE g == [n \in 0..MaxClients |->
           IF n = 0 THEN << >>
           ELSE IF session.player_id[n - 1] = NoClient THEN f[n - 1]
           ELSE Append(f[n - 1], Msg("USER_DISCONNECTED", session.player_id[n - 1]))]
    <2>1. f = g
      BY <1>2 DEF Tells
    <2>2. /\ g[0] = << >>
          /\ \A n \in 1..MaxClients :
               g[n] = IF session.player_id[n - 1] = NoClient THEN f[n - 1]
                      ELSE Append(f[n - 1], Msg("USER_DISCONNECTED", session.player_id[n - 1]))
      BY <1>3
    <2> HIDE DEF g
    <2> QED BY <2>1, <2>2
  <1> DEFINE T == {n \in 0..MaxClients : ~Dismissed(session, f[n], n)}
  <1>5. ASSUME NEW n \in T, \A j \in T : n <= j PROVE FALSE
    <2>1. n # 0
      <3>1. << >> \in Seq(ServerMessages) /\ Len(<< >>) = 0 /\ DOMAIN << >> = {}
        OBVIOUS
      <3>2. Dismissed(session, << >>, 0)
        BY <3>1 DEF Dismissed
      <3> QED BY <1>4, <3>2
    <2>2. n \in 1..MaxClients /\ n - 1 \in 0..MaxClients /\ n - 1 \notin T
      BY <1>3, <1>5, <2>1
    <2>3. Dismissed(session, f[n - 1], n - 1)
      BY <2>2
    <2>4. Dismissed(session, f[n], n)
      BY <1>4, <2>2, <2>3, DismissedStep
    <2> QED BY <2>4
  <1>6. T = {}
    <2>1. T \in SUBSET Nat
      BY <1>3
    <2> HIDE DEF T
    <2> QED BY <1>5, <2>1, LeastNat
  <1>7. Dismissed(session, f[MaxClients], MaxClients)
    BY <1>3, <1>6
  <1> DEFINE out == DisconnectAll
  <1>8. /\ out \in Seq(ServerMessages) /\ Len(out) <= MaxClients
        /\ \A k \in DOMAIN out :
             /\ out[k].type = "USER_DISCONNECTED"
             /\ \E i \in P!Slots : session.player_id[i] = out[k].user
             /\ out[k].user # NoClient
        /\ \A i \in P!Slots : session.player_id[i] # NoClient =>
             \E k \in DOMAIN out : out[k].user = session.player_id[i]
    BY <1>1, <1>7 DEF Dismissed, P!Slots
  <1> HIDE DEF out
  <1>9. \A d : S!Member(session, d) <=>
                 \E i \in P!Slots : session.player_id[i] = d /\ d # NoClient
    BY SoundIs
  <1>10. \A k \in DOMAIN out : S!Member(session, out[k].user)
    BY <1>8, <1>9
  <1>11. ASSUME NEW d, S!Member(session, d) PROVE About(out, d) # {}
    <2>1. \E k \in DOMAIN out : out[k].user = d
      BY <1>8, <1>9, <1>11
    <2> QED BY <2>1 DEF About
  <1> QED BY <1>8, <1>10, <1>11 DEF out

-----------------------------------------------------------------------------
(* What handling a message comes to *)

\* What out says of d is what becomes of him, and silence means no change.
Reports(out, s, t, d) ==
  /\ \A k \in DOMAIN out : out[k].user = d =>
       (out[k].type = "USER_CONNECTED" <=> S!Member(t, d))
  /\ About(out, d) = {} => (S!Member(s, d) <=> S!Member(t, d))

\* out and t are what the session s answers to a message about p, and becomes.
Effect(type, p, s, t, out) ==
  /\ out \in Seq(ServerMessages) /\ Len(out) <= MaxClients + 1
  /\ Sound(t) /\ (t.unregister_send = 1 => t.number_clients = 0)
  /\ \A d \in Players : (d # p /\ ~S!Member(s, d)) =>
       ~S!Member(t, d) /\ About(out, d) = {}
  /\ \A d \in Players : (type # "USER_UNREGISTER" \/ d # p) => Reports(out, s, t, d)

\* Nothing said, as when nothing changes for those who listen.
LEMMA SilentEffect ==
  ASSUME NEW type, NEW p, NEW s, NEW t, Sound(t),
         t.unregister_send = 1 => t.number_clients = 0,
         \A d \in Players : (type # "USER_UNREGISTER" \/ d # p) =>
           (S!Member(t, d) <=> S!Member(s, d))
  PROVE  Effect(type, p, s, t, << >>)
  <1>1. << >> \in Seq(ServerMessages) /\ Len(<< >>) = 0 /\ DOMAIN << >> = {}
    OBVIOUS
  <1>2. \A d : About(<< >>, d) = {}
    BY <1>1 DEF About
  <1>3. 0 <= MaxClients + 1
    BY Parameters
  <1>4. \A d \in Players : (type # "USER_UNREGISTER" \/ d # p) => Reports(<< >>, s, t, d)
    BY <1>1 DEF Reports
  <1> QED BY <1>1, <1>2, <1>3, <1>4 DEF Effect

\* A word about p, who has come or gone.
LEMMA WordEffect ==
  ASSUME NEW type, NEW p \in Players, NEW s, NEW t, Sound(t),
         t.unregister_send = 1 => t.number_clients = 0,
         NEW news \in News,
         \A d \in Players : d # p => (S!Member(t, d) <=> S!Member(s, d)),
         S!Member(t, p) <=> news = "USER_CONNECTED"
  PROVE  Effect(type, p, s, t, <<Msg(news, p)>>)
  <1> DEFINE m == Msg(news, p)
             out == <<m>>
  <1>1. m \in ServerMessages /\ m.user = p /\ m.type = news
    BY MsgIs
  <1> HIDE DEF m
  <1>2. /\ out \in Seq(ServerMessages) /\ Len(out) = 1 /\ DOMAIN out = {1} /\ out[1] = m
    BY <1>1
  <1>3. 1 <= MaxClients + 1
    BY Parameters
  <1> HIDE DEF out
  <1>4. \A d : d # p => About(out, d) = {}
    BY <1>1, <1>2 DEF About
  <1>5. About(out, p) # {}
    BY <1>1, <1>2 DEF About
  <1>6. ASSUME NEW d \in Players PROVE Reports(out, s, t, d)
    <2>1. CASE d = p
      BY <1>1, <1>2, <1>5, <2>1 DEF Reports
    <2>2. CASE d # p
      BY <1>1, <1>2, <2>2 DEF Reports
    <2> QED BY <2>1, <2>2
  <1>7. Effect(type, p, s, t, out)
    BY <1>2, <1>3, <1>4, <1>6 DEF Effect
  <1> QED BY <1>7 DEF out, m

\* Everybody told that he is out, with or without the session's own request.
LEMMA FarewellEffect ==
  ASSUME NEW type, NEW p, Sound(session), NEW t, Sound(t), t.number_clients = 0,
         \A d \in Players : ~S!Member(t, d),
         NEW out \in {DisconnectAll, Append(DisconnectAll, UnregisterMsg)}
  PROVE  Effect(type, p, session, t, out)
  <1> DEFINE a == DisconnectAll
  <1>1. /\ a \in Seq(ServerMessages) /\ Len(a) <= MaxClients /\ Len(a) \in Nat
        /\ \A k \in DOMAIN a : a[k].type = "USER_DISCONNECTED" /\ S!Member(session, a[k].user)
        /\ \A d : S!Member(session, d) => About(a, d) # {}
    BY DisconnectAllIs
  <1>2. out = a \/ out = Append(a, UnregisterMsg)
    OBVIOUS
  <1> HIDE DEF a
  <1>3. /\ UnregisterMsg \in ServerMessages /\ UnregisterMsg.user \notin Players
        /\ UnregisterMsg.type = "SESSION_UNREGISTER"
    BY ServerMessageIs, Parameters
  <1>4. /\ out \in Seq(ServerMessages) /\ Len(out) <= Len(a) + 1
        /\ \A k \in DOMAIN out : (k \in DOMAIN a /\ out[k] = a[k]) \/ out[k] = UnregisterMsg
        /\ \A k \in DOMAIN a : k \in DOMAIN out /\ out[k] = a[k]
    <2>1. CASE out = a
      BY <1>1, <2>1
    <2>2. CASE out = Append(a, UnregisterMsg)
      <3>1. /\ out \in Seq(ServerMessages) /\ Len(out) = Len(a) + 1
            /\ DOMAIN out = 1..(Len(a) + 1) /\ DOMAIN a = 1..Len(a)
            /\ \A k \in 1..Len(a) : out[k] = a[k]
            /\ out[Len(a) + 1] = UnregisterMsg
        BY <1>1, <1>3, <2>2, Appended
      <3>2. \A k \in 1..(Len(a) + 1) : k \in 1..Len(a) \/ k = Len(a) + 1
        BY <1>1
      <3>3. \A k \in 1..Len(a) : k \in 1..(Len(a) + 1)
        BY <1>1
      <3> QED BY <1>1, <3>1, <3>2, <3>3
    <2> QED BY <1>2, <2>1, <2>2
  <1>5. Len(out) <= MaxClients + 1
    <2>1. MaxClients \in Nat /\ Len(out) \in Nat
      BY <1>4, Parameters
    <2> QED BY <1>1, <1>4, <2>1
  <1>6. ASSUME NEW d \in Players
        PROVE  /\ \A k \in DOMAIN out : out[k].user = d =>
                    out[k].type = "USER_DISCONNECTED" /\ S!Member(session, d)
               /\ S!Member(session, d) => About(out, d) # {}
    <2>1. ASSUME NEW k \in DOMAIN out, out[k].user = d
          PROVE  out[k].type = "USER_DISCONNECTED" /\ S!Member(session, d)
      BY <1>1, <1>3, <1>4, <2>1
    <2>2. ASSUME S!Member(session, d) PROVE About(out, d) # {}
      <3>1. PICK k \in DOMAIN a : a[k].user = d
        BY <1>1, <2>2 DEF About
      <3> QED BY <1>4, <3>1 DEF About
    <2> QED BY <2>1, <2>2
  <1>7. ASSUME NEW d \in Players PROVE Reports(out, session, t, d)
    BY <1>6 DEF Reports
  <1>8. ASSUME NEW d \in Players, ~S!Member(session, d) PROVE About(out, d) = {}
    BY <1>6, <1>8 DEF About
  <1>9. t.unregister_send = 1 => t.number_clients = 0
    OBVIOUS
  <1> QED BY <1>4, <1>5, <1>7, <1>8, <1>9 DEF Effect

\* The messages of the players, and what each of them comes to.
Answer(p) == \/ HandleJoin(p) \/ HandleLeave(p) \/ HandleClose(p)
             \/ HandleUserUnregister(p) \/ HandleUserLeft(p)

Answered(type, p, t, out) ==
  Turn(type, p) /\ Handled(t, out) /\ Effect(type, p, session, t, out)

\* A JOIN is answered with USER_CONNECTED, or not at all.
LEMMA JoinAnswered ==
  ASSUME Sound(session), AsksWhenEmpty, NEW p \in Players, HandleJoin(p)
  PROVE  \E t, out : Answered("JOIN", p, t, out)
  <1>1. CASE S!Admissible(session, p)
    <2> DEFINE t == S!AfterJoin(session, p)
    <2>1. Turn("JOIN", p) /\ Handled(t, <<Msg("USER_CONNECTED", p)>>)
      BY <1>1 DEF HandleJoin
    <2>2. /\ Sound(t)
          /\ \A d \in Players : S!Member(t, d) <=> S!Member(session, d) \/ d = p
          /\ t.unregister_send = IF session.number_clients = 0 THEN 0
                                                              ELSE session.unregister_send
      BY <1>1, JoinSound
    <2>3. t.unregister_send # 1
      BY <2>2 DEF AsksWhenEmpty
    <2> HIDE DEF t
    <2>4. "USER_CONNECTED" \in News
      BY DEF News
    <2>5. Effect("JOIN", p, session, t, <<Msg("USER_CONNECTED", p)>>)
      BY <2>2, <2>3, <2>4, WordEffect
    <2>6. Answered("JOIN", p, t, <<Msg("USER_CONNECTED", p)>>)
      BY <2>1, <2>5 DEF Answered
    <2> QED BY <2>6
  <1>2. CASE ~S!Admissible(session, p)
    <2>1. Turn("JOIN", p) /\ Handled(session, << >>)
      BY <1>2 DEF HandleJoin
    <2>2. Effect("JOIN", p, session, session, << >>)
      BY SilentEffect DEF AsksWhenEmpty
    <2>3. Answered("JOIN", p, session, << >>)
      BY <2>1, <2>2 DEF Answered
    <2> QED BY <2>3
  <1> QED BY <1>1, <1>2

\* A LEAVE with USER_DISCONNECTED, a stranger's too.
LEMMA LeaveAnswered ==
  ASSUME Sound(session), AsksWhenEmpty, NEW p \in Players, HandleLeave(p)
  PROVE  \E t, out : Answered("LEAVE", p, t, out)
  <1> DEFINE t == S!RemovePlayer(session, p, TRUE)
  <1>1. Turn("LEAVE", p) /\ Handled(t, <<Msg("USER_DISCONNECTED", p)>>)
    BY DEF HandleLeave
  <1>2. /\ Sound(t)
        /\ \A d \in Players : S!Member(t, d) <=> S!Member(session, d) /\ d # p
        /\ t.unregister_send = session.unregister_send
        /\ session.number_clients = 0 => t.number_clients = 0
    BY RemovePlayerSound
  <1> HIDE DEF t
  <1>3. t.unregister_send = 1 => t.number_clients = 0
    BY <1>2 DEF AsksWhenEmpty
  <1>4. "USER_DISCONNECTED" \in News
    BY DEF News
  <1>5. Effect("LEAVE", p, session, t, <<Msg("USER_DISCONNECTED", p)>>)
    BY <1>2, <1>3, <1>4, WordEffect
  <1>6. Answered("LEAVE", p, t, <<Msg("USER_DISCONNECTED", p)>>)
    BY <1>1, <1>5 DEF Answered
  <1> QED BY <1>6

\* A CLOSE from the creator puts everybody out.
LEMMA CloseAnswered ==
  ASSUME Sound(session), AsksWhenEmpty, NEW p \in Players, HandleClose(p)
  PROVE  \E t, out : Answered("CLOSE", p, t, out)
  <1>1. CASE p = session.id_creator
    <2> DEFINE t == S!AfterClose(session, TRUE)
               out == IF session.unregister_send = 0
                      THEN Append(DisconnectAll, UnregisterMsg) ELSE DisconnectAll
    <2>1. Turn("CLOSE", p) /\ Handled(t, out)
      BY <1>1 DEF HandleClose
    <2>2. Sound(t) /\ t.number_clients = 0 /\ \A d \in Players : ~S!Member(t, d)
      BY AfterCloseSound
    <2>3. out \in {DisconnectAll, Append(DisconnectAll, UnregisterMsg)}
      OBVIOUS
    <2> HIDE DEF t, out
    <2>4. Effect("CLOSE", p, session, t, out)
      BY <2>2, <2>3, FarewellEffect
    <2>5. Answered("CLOSE", p, t, out)
      BY <2>1, <2>4 DEF Answered
    <2> QED BY <2>5
  <1>2. CASE p # session.id_creator
    <2>1. Turn("CLOSE", p) /\ Handled(session, << >>)
      BY <1>2 DEF HandleClose
    <2>2. Effect("CLOSE", p, session, session, << >>)
      BY SilentEffect DEF AsksWhenEmpty
    <2>3. Answered("CLOSE", p, session, << >>)
      BY <2>1, <2>2 DEF Answered
    <2> QED BY <2>3
  <1> QED BY <1>1, <1>2

\* USER_UNREGISTER is not answered.
LEMMA UserUnregisterAnswered ==
  ASSUME Sound(session), AsksWhenEmpty, NEW p \in Players, HandleUserUnregister(p)
  PROVE  \E t, out : Answered("USER_UNREGISTER", p, t, out)
  <1> DEFINE t == S!RemovePlayer(session, p, TRUE)
  <1>1. Turn("USER_UNREGISTER", p) /\ Handled(t, << >>)
    BY DEF HandleUserUnregister
  <1>2. /\ Sound(t)
        /\ \A d \in Players : S!Member(t, d) <=> S!Member(session, d) /\ d # p
        /\ t.unregister_send = session.unregister_send
        /\ session.number_clients = 0 => t.number_clients = 0
    BY RemovePlayerSound
  <1> HIDE DEF t
  <1>3. t.unregister_send = 1 => t.number_clients = 0
    BY <1>2 DEF AsksWhenEmpty
  <1>4. Effect("USER_UNREGISTER", p, session, t, << >>)
    BY <1>2, <1>3, SilentEffect
  <1>5. Answered("USER_UNREGISTER", p, t, << >>)
    BY <1>1, <1>4 DEF Answered
  <1> QED BY <1>5

\* USER_LEFT about the last one connected puts everybody out.
LEMMA UserLeftAnswered ==
  ASSUME Sound(session), AsksWhenEmpty, NEW p \in Players, HandleUserLeft(p)
  PROVE  \E t, out : Answered("USER_LEFT", p, t, out)
  <1>1. CASE S!Member(session, p)
    <2> DEFINE t == S!AfterUserLeft(session, p, TRUE)
               out == IF t.number_clients = 0
                      THEN Append(DisconnectAll, UnregisterMsg) ELSE << >>
    <2>1. Turn("USER_LEFT", p) /\ Handled(t, out)
      BY <1>1 DEF HandleUserLeft
    <2>2. /\ Sound(t)
          /\ \/ /\ \A d \in Players : S!Member(t, d) <=> S!Member(session, d)
                /\ t.unregister_send = session.unregister_send /\ t.number_clients # 0
             \/ /\ \A d \in Players : ~S!Member(t, d)
                /\ t.unregister_send = 1 /\ t.number_clients = 0
      BY <1>1, AfterUserLeftSound
    <2>3. out = IF t.number_clients = 0
                THEN Append(DisconnectAll, UnregisterMsg) ELSE << >>
      OBVIOUS
    <2> HIDE DEF t, out
    <2>4. CASE t.number_clients = 0
      <3>1. Effect("USER_LEFT", p, session, t, out)
        BY <2>2, <2>3, <2>4, FarewellEffect
      <3>2. Answered("USER_LEFT", p, t, out)
        BY <2>1, <3>1 DEF Answered
      <3> QED BY <3>2
    <2>5. CASE t.number_clients # 0
      <3>1. session.number_clients # 0
        BY <1>1, SoundIs
      <3>2. t.unregister_send # 1
        BY <2>2, <2>5, <3>1 DEF AsksWhenEmpty
      <3>3. Effect("USER_LEFT", p, session, t, << >>)
        BY <2>2, <2>5, <3>2, SilentEffect
      <3>4. Answered("USER_LEFT", p, t, << >>)
        BY <2>1, <2>3, <2>5, <3>3 DEF Answered
      <3> QED BY <3>4
    <2> QED BY <2>4, <2>5
  <1>2. CASE ~S!Member(session, p)
    <2>1. Turn("USER_LEFT", p) /\ Handled(session, << >>)
      BY <1>2 DEF HandleUserLeft
    <2>2. Effect("USER_LEFT", p, session, session, << >>)
      BY SilentEffect DEF AsksWhenEmpty
    <2>3. Answered("USER_LEFT", p, session, << >>)
      BY <2>1, <2>2 DEF Answered
    <2> QED BY <2>3
  <1> QED BY <1>1, <1>2

\* Whatever the message is.
LEMMA AnswerIs ==
  ASSUME Sound(session), AsksWhenEmpty, NEW p \in Players, Answer(p)
  PROVE  \E type \in ToSession : \E t, out : Answered(type, p, t, out)
  <1>1. {"JOIN", "LEAVE", "CLOSE", "USER_UNREGISTER", "USER_LEFT"} \subseteq ToSession
    BY DEF ToSession
  <1> QED BY <1>1, JoinAnswered, LeaveAnswered, CloseAnswered, UserUnregisterAnswered,
             UserLeftAnswered DEF Answer

-----------------------------------------------------------------------------
(* The inductive invariant: the types, and what the session's record is *)

Books ==
  /\ registered \subseteq Players
  /\ online \subseteq registered /\ in_session \subseteq registered
  /\ registrations \in [Players -> 0..MaxRequests]
  /\ requests \in 0..MaxRequests
  /\ \A p \in Players : registrations[p] <= requests
  /\ phase \in {"none", "registered", "unregistered"} /\ crashed \in BOOLEAN

Rings ==
  /\ toSession \in Seq(SessionMessages) /\ Len(toSession) <= Bound
  /\ toServer \in Seq(ServerMessages) /\ Len(toServer) <= Bound
  /\ sessionBatch \in 0..Len(toSession) /\ inBatch \in BOOLEAN
  /\ serverBatch \in Nat /\ stranded \in Nat
  /\ serverBatch + stranded <= Len(toServer)

CoreInv == Books /\ Rings /\ Sound(session) /\ AsksWhenEmpty

\* It implies the types that the runs check.
LEMMA CoreTypes == CoreInv => TypeOK
  <1> SUFFICES ASSUME CoreInv PROVE TypeOK
    OBVIOUS
  <1>1. toSession \in Seq([type : ToSession, user : Players \cup {NoClient}])
    BY DEF CoreInv, Rings, SessionMessages
  <1>2. toServer \in Seq([type : ToServer, user : Players \cup {NoClient}])
    <2>1. toServer \in Seq(ServerMessages)
      BY DEF CoreInv, Rings
    <2> QED BY <2>1, ServerMessageIs, SeqOfMore
  <1>3. serverBatch + stranded \in 0..Len(toServer)
    BY DEF CoreInv, Rings
  <1> QED BY <1>1, <1>2, <1>3 DEF CoreInv, Rings, Books, TypeOK

\* The session as it is created, and the server before.
LEMMA InitCore == Init => CoreInv
  <1> SUFFICES ASSUME Init PROVE CoreInv
    OBVIOUS
  <1>1. Sound(session) /\ session.unregister_send = 0
    BY InitSound DEF Init
  <1>2. Books
    <2>1. /\ registrations = [p \in Players |-> 0] /\ requests = 0
          /\ registered = {} /\ online = {} /\ in_session = {}
          /\ phase = "none" /\ crashed = FALSE
      BY DEF Init
    <2>2. 0 \in 0..MaxRequests
      BY Parameters
    <2>3. /\ registrations \in [Players -> 0..MaxRequests]
          /\ \A p \in Players : registrations[p] <= 0
      BY <2>1, <2>2
    <2> QED BY <2>1, <2>2, <2>3 DEF Books
  <1>3. Rings
    <2>1. toSession = << >> /\ toServer = << >>
      BY DEF Init
    <2>0. serverBatch = 0 /\ stranded = 0 /\ sessionBatch = 0 /\ inBatch \in BOOLEAN
      BY DEF Init
    <2>2. /\ toSession \in Seq(SessionMessages) /\ Len(toSession) = 0
          /\ toServer \in Seq(ServerMessages) /\ Len(toServer) = 0
      BY <2>1
    <2>3. Bound \in Nat
      BY Parameters
    <2> QED BY <2>0, <2>2, <2>3 DEF Rings
  <1> QED BY <1>1, <1>2, <1>3 DEF CoreInv, AsksWhenEmpty

-----------------------------------------------------------------------------
(* What the actions come to *)

\* A client's request: he gets an id, writes to the session, or gives his id up.
Sends(types, p) ==
  \/ toSession' = toSession
  \/ \E type \in types : toSession' = Push(toSession, Msg(type, p))

Enrols(p) ==
  /\ p \notin registered /\ registered' = registered \cup {p}
  /\ registrations' = [registrations EXCEPT ![p] = @ + 1]
  /\ UNCHANGED <<in_session, toSession>>

Writes(p) ==
  /\ p \in registered
  /\ UNCHANGED <<registered, in_session, registrations>>
  /\ Sends(ToSession \ {"USER_UNREGISTER"}, p)

GivesUp(p) ==
  /\ p \in registered
  /\ registered' = registered \ {p} /\ in_session' = in_session \ {p}
  /\ UNCHANGED registrations /\ Sends({"USER_UNREGISTER"}, p)

Request(p) == \/ Register(p) \/ Create(p) \/ Join(p) \/ Forward(p)
              \/ Unregister(p) \/ Disconnect(p) \/ Reconnect(p)

\* The message, if the session is there to get it.
LEMMA SendIs ==
  ASSUME NEW type, NEW p, NEW types, type \in types,
         SendToSession(type, p) \/ UNCHANGED toSession
  PROVE  Sends(types, p)
  BY DEF SendToSession, Sends

\* Each request is one of the three.
LEMMA RequestIs ==
  ASSUME CoreInv, NEW p \in Players, Request(p)
  PROVE  /\ Serving /\ online' \subseteq registered'
         /\ phase' \in {"none", "registered", "unregistered"}
         /\ Enrols(p) \/ Writes(p) \/ GivesUp(p)
  <1>0. online \subseteq registered /\ phase \in {"none", "registered", "unregistered"}
    BY DEF CoreInv, Books
  <1>1. CASE Register(p)
    BY <1>0, <1>1 DEF Register, Enrols
  <1>2. CASE Create(p)
    <2>1. /\ Serving /\ p \in online /\ phase' = "registered"
          /\ toSession' = Push(toSession, Msg("JOIN", p))
          /\ UNCHANGED <<registered, online, in_session, registrations>>
      BY <1>2 DEF Create
    <2>2. "JOIN" \in ToSession \ {"USER_UNREGISTER"}
      BY DEF ToSession
    <2>3. Sends(ToSession \ {"USER_UNREGISTER"}, p)
      BY <2>1, <2>2 DEF Sends
    <2> QED BY <1>0, <2>1, <2>3 DEF Writes
  <1>3. CASE Join(p)
    <2>1. /\ Serving /\ p \in online /\ SendToSession("JOIN", p)
          /\ UNCHANGED <<registered, online, in_session, registrations, phase>>
      BY <1>3 DEF Join
    <2>2. Sends(ToSession \ {"USER_UNREGISTER"}, p)
      BY <2>1, SendIs DEF ToSession
    <2> QED BY <1>0, <2>1, <2>2 DEF Writes
  <1>4. CASE Forward(p)
    <2>1. /\ Serving /\ p \in online
          /\ \E type \in {"LEAVE", "CLOSE"} : SendToSession(type, p)
          /\ UNCHANGED <<registered, online, in_session, registrations, phase>>
      BY <1>4 DEF Forward
    <2>2. Sends(ToSession \ {"USER_UNREGISTER"}, p)
      BY <2>1, SendIs DEF ToSession
    <2> QED BY <1>0, <2>1, <2>2 DEF Writes
  <1>5. CASE Unregister(p)
    <2>1. /\ Serving /\ p \in online
          /\ SendToSession("USER_UNREGISTER", p) \/ UNCHANGED toSession
          /\ registered' = registered \ {p} /\ in_session' = in_session \ {p}
          /\ online' = online \ {p}
          /\ UNCHANGED <<registrations, phase>>
      BY <1>5 DEF Unregister
    <2>2. Sends({"USER_UNREGISTER"}, p)
      BY <2>1, SendIs
    <2> QED BY <1>0, <2>1, <2>2 DEF GivesUp
  <1>6. CASE Disconnect(p)
    <2>1. /\ Serving /\ p \in online
          /\ SendToSession("USER_LEFT", p) \/ UNCHANGED toSession
          /\ online' = online \ {p}
          /\ UNCHANGED <<registered, in_session, registrations, phase>>
      BY <1>6 DEF Disconnect
    <2>2. Sends(ToSession \ {"USER_UNREGISTER"}, p)
      BY <2>1, SendIs DEF ToSession
    <2> QED BY <1>0, <2>1, <2>2 DEF Writes
  <1>7. CASE Reconnect(p)
    <2>1. /\ Serving /\ p \in registered
          /\ SendToSession("USER_LEFT", p) \/ UNCHANGED toSession
          /\ online' \subseteq online \cup {p}
          /\ UNCHANGED <<registered, in_session, registrations, phase>>
      BY <1>7 DEF Reconnect
    <2>2. Sends(ToSession \ {"USER_UNREGISTER"}, p)
      BY <2>1, SendIs DEF ToSession
    <2> QED BY <1>0, <2>1, <2>2 DEF Writes
  <1> QED BY <1>1, <1>2, <1>3, <1>4, <1>5, <1>6, <1>7 DEF Request

\* The server's reading of the bus: nothing popped, or one message.
Rereads == UNCHANGED <<toServer, in_session>>
Reads == /\ toServer # << >> /\ toServer' = Tail(toServer)
         /\ \A p \in registered :
              IF Head(toServer).user = p
              THEN Head(toServer).type \in News =>
                     (p \in in_session' <=> Head(toServer).type = "USER_CONNECTED")
              ELSE p \in in_session' <=> p \in in_session

\* Each of its steps is one of the two, and leaves the clients and the session
\* alone.
LEMMA ServerBusIs ==
  ASSUME CoreInv, ServerBus
  PROVE  /\ UNCHANGED <<registered, online, registrations, requests, toSession, sessionVars>>
         /\ in_session' \subseteq registered
         /\ phase' \in {"none", "registered", "unregistered"} /\ crashed' \in BOOLEAN
         /\ Rings'
         /\ Rereads \/ Reads
  <1>0. /\ in_session \subseteq registered /\ crashed \in BOOLEAN
        /\ phase \in {"none", "registered", "unregistered"}
        /\ toServer \in Seq(ServerMessages) /\ Len(toServer) <= Bound /\ Bound \in Nat
        /\ Len(toServer) \in Nat
        /\ serverBatch \in Nat /\ stranded \in Nat /\ serverBatch + stranded <= Len(toServer)
    BY Parameters DEF CoreInv, Books, Rings
  <1>1. CASE ServerRead
    <2>1. /\ serverBatch' = Len(toServer) - stranded /\ Len(toServer) > stranded
          /\ UNCHANGED <<clientVars, phase, crashed, stranded, sessionVars, toSession, toServer>>
      BY <1>1 DEF ServerRead
    <2>2. serverBatch' \in Nat /\ serverBatch' + stranded <= Len(toServer)
      BY <1>0, <2>1
    <2>3. Rings'
      BY <2>1, <2>2 DEF CoreInv, Rings, sessionVars
    <2> QED BY <1>0, <2>1, <2>3 DEF Rereads, clientVars, sessionVars
  <1>2. CASE UseAfterUnregister
    <2>1. /\ crashed' = TRUE
          /\ UNCHANGED <<clientVars, phase, serverBatch, stranded, sessionVars, toSession,
                         toServer>>
      BY <1>2 DEF UseAfterUnregister
    <2>2. Rings'
      BY <2>1 DEF CoreInv, Rings, sessionVars
    <2> QED BY <1>0, <2>1, <2>2 DEF Rereads, clientVars, sessionVars
  <1>3. ASSUME serverBatch > 0, toServer' = Tail(toServer),
               UNCHANGED <<toSession, sessionVars>>,
               serverBatch' \in Nat, stranded' \in Nat,
               serverBatch' + stranded' = serverBatch + stranded - 1
        PROVE  toServer # << >> /\ Head(toServer) \in ServerMessages /\ Rings'
    <2>1. toServer # << >> /\ Len(toServer) > 0
      BY <1>0, <1>3
    <2>2. /\ Tail(toServer) \in Seq(ServerMessages)
          /\ Len(Tail(toServer)) = Len(toServer) - 1 /\ Head(toServer) \in ServerMessages
      BY <1>0, <2>1, Shifted
    <2>3. Len(toServer') <= Bound /\ serverBatch' + stranded' <= Len(toServer')
      <3>1. Len(toServer') = Len(toServer) - 1
        BY <1>3, <2>2
      <3>2. serverBatch + stranded - 1 <= Len(toServer) - 1 /\ Len(toServer) - 1 <= Bound
        BY <1>0
      <3> QED BY <1>3, <3>1, <3>2
    <2>4. toServer' \in Seq(ServerMessages)
      BY <1>3, <2>2
    <2> QED BY <1>3, <2>1, <2>2, <2>3, <2>4 DEF CoreInv, Rings, sessionVars
  <1>4. CASE UnregisterSession
    <2>1. /\ serverBatch > 0 /\ toServer' = Tail(toServer)
          /\ Head(toServer).type = "SESSION_UNREGISTER"
          /\ serverBatch' = serverBatch - 1 /\ phase' = "unregistered"
          /\ UNCHANGED <<registered, online, in_session, crashed, stranded, toSession,
                         sessionVars, requests, registrations>>
      BY <1>4 DEF UnregisterSession, Popping
    <2>2. /\ serverBatch' \in Nat /\ stranded' \in Nat
          /\ serverBatch' + stranded' = serverBatch + stranded - 1
      BY <1>0, <2>1
    <2>3. toServer # << >> /\ Head(toServer) \in ServerMessages /\ Rings'
      BY <1>3, <2>1, <2>2
    <2>4. Head(toServer).user \notin Players /\ registered \subseteq Players
      BY <2>1, <2>3, ServerMessageIs DEF CoreInv, Books
    <2>5. Reads
      BY <2>1, <2>3, <2>4 DEF Reads
    <2> QED BY <1>0, <2>1, <2>3, <2>5
  <1>5. CASE UpdatePlayer
    <2> DEFINE m == Head(toServer)
    <2>1. /\ serverBatch > 0 /\ toServer' = Tail(toServer) /\ phase = "registered"
          /\ m.user \in registered
          /\ serverBatch' = serverBatch - 1
          /\ in_session' = IF m.type = "USER_CONNECTED" THEN in_session \cup {m.user}
                                                        ELSE in_session \ {m.user}
          /\ UNCHANGED <<registered, online, phase, crashed, stranded, toSession,
                         sessionVars, requests, registrations>>
      BY <1>5 DEF UpdatePlayer, Popping
    <2>2. /\ serverBatch' \in Nat /\ stranded' \in Nat
          /\ serverBatch' + stranded' = serverBatch + stranded - 1
      BY <1>0, <2>1
    <2>3. toServer # << >> /\ m \in ServerMessages /\ Rings'
      BY <1>3, <2>1, <2>2
    <2> HIDE DEF m
    <2>4. /\ \A p \in registered : m.user = p =>
               (p \in in_session' <=> m.type = "USER_CONNECTED")
          /\ \A p \in registered : m.user # p => (p \in in_session' <=> p \in in_session)
          /\ in_session' \subseteq registered
      BY <1>0, <2>1
    <2>5. Reads
      BY <2>1, <2>3, <2>4 DEF Reads, m
    <2> QED BY <1>0, <2>1, <2>3, <2>4, <2>5
  <1>6. CASE BreakBatch
    <2>1. /\ serverBatch > 0 /\ toServer' = Tail(toServer)
          /\ Head(toServer).user \notin registered
          /\ serverBatch' = 0 /\ stranded' = stranded + (serverBatch - 1)
          /\ UNCHANGED <<registered, online, in_session, phase, crashed, toSession,
                         sessionVars, requests, registrations>>
      BY <1>6 DEF BreakBatch, Popping
    <2>2. /\ serverBatch' \in Nat /\ stranded' \in Nat
          /\ serverBatch' + stranded' = serverBatch + stranded - 1
      BY <1>0, <2>1
    <2>3. toServer # << >> /\ Rings'
      BY <1>3, <2>1, <2>2
    <2>4. Reads
      BY <2>1, <2>3 DEF Reads
    <2> QED BY <1>0, <2>1, <2>3, <2>4
  <1> QED BY <1>1, <1>2, <1>4, <1>5, <1>6 DEF ServerBus

\* The end of the session's loop changes nothing but the mark of the request.
LEMMA MarkedSound ==
  ASSUME NEW s, Sound(s), s.number_clients = 0
  PROVE  LET t == [s EXCEPT !.unregister_send = 1]
         IN  /\ Sound(t) /\ t.number_clients = 0
             /\ \A d : S!Member(t, d) <=> S!Member(s, d)
  <1> DEFINE t == [s EXCEPT !.unregister_send = 1]
  <1>1. DOMAIN s = P!AllFields /\ DOMAIN t = P!AllFields /\ t.unregister_send = 1
    BY SoundIs DEF Idle, P!AllFields
  <1>2. \A x \in P!AllFields : x # "unregister_send" => t[x] = s[x]
    BY <1>1
  <1> HIDE DEF t
  <1>3. /\ t.player_id = s.player_id /\ t.role = s.role
        /\ t.number_clients = s.number_clients /\ t.active_players = s.active_players
        /\ t.is_connected = s.is_connected /\ t.hand = s.hand /\ t.room = s.room
        /\ t.id_creator = s.id_creator /\ t.game_state = s.game_state
        /\ t.rules = s.rules /\ t.freed = s.freed
    BY <1>2 DEF P!AllFields, P!MemberFields, P!GameFields
  <1>4. /\ P!Free(t) = P!Free(s) /\ P!Playing(t) = P!Playing(s)
        /\ P!Occupied(t) = P!Occupied(s)
    BY <1>3 DEF P!Free, P!Playing, P!Occupied
  <1>5. P!Members(t)
    BY <1>1, <1>3, <1>4 DEF Sound, P!Members, P!AllFields
  <1>6. P!Equipped(t)
    BY <1>1, <1>3, <1>4 DEF Sound, P!Equipped, P!On
  <1>7. \A d : S!Member(t, d) <=> S!Member(s, d)
    BY <1>3 DEF S!Member
  <1> QED BY <1>3, <1>5, <1>6, <1>7 DEF Sound, t

\* The session's own steps: nothing said, or nothing but the request.
Closes(q) ==
  /\ UNCHANGED <<serverVars, toSession, sessionBatch>>
  /\ q \in {toServer, Push(toServer, UnregisterMsg)} /\ toServer' = q
  /\ \A d : S!Member(session', d) <=> S!Member(session, d)

\* The end of its loop is one.
LEMMA EndOfBatchIs ==
  ASSUME CoreInv, EndOfBatch
  PROVE  /\ inBatch /\ ~inBatch' /\ sessionBatch = 0
         /\ Sound(session') /\ AsksWhenEmpty' /\ \E q : Closes(q)
  <1>1. /\ inBatch /\ ~inBatch' /\ sessionBatch = 0
        /\ UNCHANGED <<serverVars, sessionBatch, toSession>>
    BY DEF EndOfBatch
  <1>2. CASE session.number_clients = 0 /\ session.unregister_send = 0
    <2> DEFINE t == [session EXCEPT !.unregister_send = 1]
    <2>1. session' = t /\ toServer' = Push(toServer, UnregisterMsg)
      BY <1>2 DEF EndOfBatch
    <2>2. Sound(t) /\ t.number_clients = 0 /\ \A d : S!Member(t, d) <=> S!Member(session, d)
      BY <1>2, MarkedSound DEF CoreInv
    <2> HIDE DEF t
    <2>3. AsksWhenEmpty'
      BY <2>1, <2>2 DEF AsksWhenEmpty
    <2> QED BY <1>1, <2>1, <2>2, <2>3 DEF Closes
  <1>3. CASE ~(session.number_clients = 0 /\ session.unregister_send = 0)
    <2>1. UNCHANGED <<session, toServer>>
      BY <1>3 DEF EndOfBatch
    <2> QED BY <1>1, <2>1 DEF Closes, CoreInv, AsksWhenEmpty
  <1> QED BY <1>2, <1>3

-----------------------------------------------------------------------------
(* The invariant holds *)

\* What is in the session's ring after a push: what was, or a message about p.
LEMMA SentIs ==
  ASSUME CoreInv, NEW p \in Players, NEW types \in SUBSET ToSession, Sends(types, p)
  PROVE  /\ toSession' \in Seq(SessionMessages) /\ Len(toSession') <= Bound
         /\ Len(toSession') \in Len(toSession)..(Len(toSession) + 1)
         /\ \A k \in DOMAIN toSession' :
              \/ k \in DOMAIN toSession /\ toSession'[k] = toSession[k]
              \/ toSession'[k].user = p /\ toSession'[k].type \in types
  <1>1. /\ toSession \in Seq(SessionMessages) /\ Len(toSession) <= Bound
        /\ Len(toSession) \in Nat /\ Bound \in Nat
    BY Parameters DEF CoreInv, Rings
  <1>2. CASE toSession' = toSession
    BY <1>1, <1>2
  <1>3. ASSUME NEW type \in types, toSession' = Push(toSession, Msg(type, p))
        PROVE  /\ toSession' \in Seq(SessionMessages) /\ Len(toSession') <= Bound
               /\ Len(toSession') \in Len(toSession)..(Len(toSession) + 1)
               /\ \A k \in DOMAIN toSession' :
                    \/ k \in DOMAIN toSession /\ toSession'[k] = toSession[k]
                    \/ toSession'[k].user = p /\ toSession'[k].type \in types
    <2> DEFINE m == Msg(type, p)
    <2>1. m \in SessionMessages /\ m.user = p /\ m.type \in types
      BY MsgIs
    <2> HIDE DEF m
    <2>2. /\ Push(toSession, m) \in Seq(SessionMessages) /\ Len(Push(toSession, m)) <= Bound
          /\ Len(Push(toSession, m)) \in Len(toSession)..(Len(toSession) + 1)
          /\ \A k \in DOMAIN Push(toSession, m) :
               \/ k \in DOMAIN toSession /\ Push(toSession, m)[k] = toSession[k]
               \/ Push(toSession, m)[k] = m
      BY <1>1, <2>1, PushIs
    <2>3. toSession' = Push(toSession, m)
      BY <1>3 DEF m
    <2> QED BY <2>1, <2>2, <2>3
  <1> QED BY <1>2, <1>3 DEF Sends

\* A client's request.
LEMMA RequestCore ==
  ASSUME CoreInv, NEW p \in Players, Request(p)
  PROVE  CoreInv'
  <1>1. /\ Serving /\ online' \subseteq registered'
        /\ phase' \in {"none", "registered", "unregistered"}
        /\ Enrols(p) \/ Writes(p) \/ GivesUp(p)
    BY RequestIs
  <1>2. /\ requests < MaxRequests /\ requests' = requests + 1
        /\ UNCHANGED <<crashed, serverBatch, stranded, toServer, sessionVars>>
    BY <1>1 DEF Serving
  <1>3. /\ registered \subseteq Players /\ in_session \subseteq registered
        /\ registrations \in [Players -> 0..MaxRequests]
        /\ requests \in 0..MaxRequests /\ MaxRequests \in Nat
        /\ \A q \in Players : registrations[q] <= requests
        /\ crashed \in BOOLEAN
    BY Parameters DEF CoreInv, Books
  <1>4. requests' \in 0..MaxRequests
    BY <1>2, <1>3
  <1>5. /\ registered' \subseteq Players /\ in_session' \subseteq registered'
        /\ registrations' \in [Players -> 0..MaxRequests]
        /\ \A q \in Players : registrations'[q] <= requests'
    <2>1. CASE Enrols(p)
      <3>1. /\ registered' = registered \cup {p} /\ in_session' = in_session
            /\ registrations' = [registrations EXCEPT ![p] = @ + 1]
        BY <2>1 DEF Enrols
      <3>2. registrations[p] + 1 \in 0..MaxRequests
        BY <1>2, <1>3
      <3>3. registrations' \in [Players -> 0..MaxRequests]
        BY <1>3, <3>1, <3>2
      <3>4. ASSUME NEW q \in Players PROVE registrations'[q] <= requests'
        <4>1. registrations'[q] = IF q = p THEN registrations[q] + 1 ELSE registrations[q]
          BY <1>3, <3>1
        <4>2. registrations[q] <= requests /\ registrations[q] \in Nat
          BY <1>3
        <4> QED BY <1>2, <1>3, <4>1, <4>2
      <3> QED BY <1>3, <3>1, <3>3, <3>4
    <2>2. CASE Writes(p) \/ GivesUp(p)
      <3>1. /\ registered' \subseteq registered /\ registrations' = registrations
            /\ \/ registered' = registered /\ in_session' = in_session
               \/ registered' = registered \ {p} /\ in_session' = in_session \ {p}
        BY <2>2 DEF Writes, GivesUp
      <3>2. \A q \in Players : registrations'[q] <= requests'
        BY <1>2, <1>3, <3>1
      <3> QED BY <1>3, <3>1, <3>2
    <2> QED BY <1>1, <2>1, <2>2
  <1>6. Books'
    <2>1. crashed' \in BOOLEAN
      BY <1>2, <1>3
    <2> QED BY <1>1, <1>4, <1>5, <2>1 DEF Books
  <1>7. /\ toSession' \in Seq(SessionMessages) /\ Len(toSession') <= Bound
        /\ Len(toSession') \in Len(toSession)..(Len(toSession) + 1)
    <2>1. CASE Enrols(p)
      BY <2>1 DEF Enrols, CoreInv, Rings
    <2>2. CASE Writes(p)
      <3>1. ToSession \ {"USER_UNREGISTER"} \in SUBSET ToSession
        OBVIOUS
      <3> QED BY <2>2, <3>1, SentIs DEF Writes
    <2>3. CASE GivesUp(p)
      <3>1. {"USER_UNREGISTER"} \in SUBSET ToSession
        BY DEF ToSession
      <3> QED BY <2>3, <3>1, SentIs DEF GivesUp
    <2> QED BY <1>1, <2>1, <2>2, <2>3
  <1>8. Rings'
    <2>1. /\ toServer' = toServer /\ sessionBatch' = sessionBatch
          /\ serverBatch' = serverBatch /\ stranded' = stranded
          /\ UNCHANGED inBatch
      BY <1>2 DEF sessionVars
    <2>2. sessionBatch' \in 0..Len(toSession')
      <3>1. sessionBatch \in 0..Len(toSession) /\ Len(toSession) \in Nat
        BY DEF CoreInv, Rings
      <3> QED BY <1>7, <2>1, <3>1
    <2> QED BY <1>7, <2>1, <2>2 DEF CoreInv, Rings
  <1>9. Sound(session') /\ AsksWhenEmpty'
    BY <1>2 DEF sessionVars, CoreInv, AsksWhenEmpty
  <1> QED BY <1>6, <1>8, <1>9 DEF CoreInv

\* The server's reading of the bus.
LEMMA ServerBusCore ==
  ASSUME CoreInv, ServerBus
  PROVE  CoreInv'
  <1>1. /\ UNCHANGED <<registered, online, registrations, requests, toSession, sessionVars>>
        /\ in_session' \subseteq registered
        /\ phase' \in {"none", "registered", "unregistered"} /\ crashed' \in BOOLEAN
        /\ Rings'
    BY ServerBusIs
  <1>2. Books'
    BY <1>1 DEF CoreInv, Books
  <1>3. session' = session
    BY <1>1 DEF sessionVars
  <1>4. Sound(session') /\ AsksWhenEmpty'
    BY <1>3 DEF CoreInv, AsksWhenEmpty
  <1> QED BY <1>1, <1>2, <1>4 DEF CoreInv

\* The session's thread leaves the server's variables alone.
LEMMA BooksSame ==
  ASSUME CoreInv, UNCHANGED serverVars
  PROVE  Books' /\ serverBatch' = serverBatch /\ stranded' = stranded
  BY DEF CoreInv, Books, serverVars, clientVars

\* The session's answer to a message.
LEMMA AnswerCore ==
  ASSUME CoreInv, NEW type, NEW p, NEW t, NEW out, Answered(type, p, t, out)
  PROVE  /\ CoreInv'
         /\ sessionBatch > 0 /\ toSession # << >> /\ Head(toSession) = Msg(type, p)
         /\ session' = t /\ toSession' = Tail(toSession)
         /\ toServer' = PushAll(toServer, out)
         /\ UNCHANGED <<registered, in_session, registrations, requests, inBatch>>
         /\ Len(toSession') = Len(toSession) - 1 /\ sessionBatch' = sessionBatch - 1
         /\ Len(toServer') \in Len(toServer)..(Len(toServer) + MaxClients + 1)
  <1>1. /\ sessionBatch > 0 /\ Head(toSession) = Msg(type, p)
        /\ session' = t /\ toServer' = PushAll(toServer, out)
        /\ toSession' = Tail(toSession) /\ sessionBatch' = sessionBatch - 1
        /\ UNCHANGED <<serverVars, inBatch>>
    BY DEF Answered, Turn, Handled
  <1>2. /\ out \in Seq(ServerMessages) /\ Len(out) <= MaxClients + 1
        /\ Sound(t) /\ (t.unregister_send = 1 => t.number_clients = 0)
    BY DEF Answered, Effect
  <1>3. /\ toSession \in Seq(SessionMessages) /\ Len(toSession) <= Bound
        /\ toServer \in Seq(ServerMessages) /\ Len(toServer) <= Bound
        /\ sessionBatch \in 0..Len(toSession) /\ inBatch \in BOOLEAN
        /\ serverBatch \in Nat /\ stranded \in Nat
        /\ serverBatch + stranded <= Len(toServer)
        /\ Len(toSession) \in Nat /\ Len(toServer) \in Nat /\ Len(out) \in Nat
        /\ MaxClients \in Nat /\ Bound \in Nat
    BY <1>2, Parameters DEF CoreInv, Rings
  <1>4. toSession # << >> /\ Len(toSession) > 0
    BY <1>1, <1>3
  <1>5. toSession' \in Seq(SessionMessages) /\ Len(toSession') = Len(toSession) - 1
    BY <1>1, <1>3, <1>4, Shifted
  <1>6. /\ toServer' \in Seq(ServerMessages) /\ Len(toServer') <= Bound
        /\ Len(toServer') \in Len(toServer)..(Len(toServer) + Len(out))
    BY <1>1, <1>2, <1>3, PushAllIs
  <1>7. Len(toServer') \in Len(toServer)..(Len(toServer) + MaxClients + 1)
    BY <1>2, <1>3, <1>6
  <1>8. /\ Books' /\ serverBatch' = serverBatch /\ stranded' = stranded
    BY <1>1, BooksSame
  <1>9. Rings'
    <2>1. Len(toSession') <= Bound /\ sessionBatch' \in 0..Len(toSession')
      BY <1>1, <1>3, <1>5
    <2>2. serverBatch + stranded <= Len(toServer')
      BY <1>3, <1>6
    <2>3. inBatch' \in BOOLEAN
      BY <1>1, <1>3
    <2> QED BY <1>3, <1>5, <1>6, <1>8, <2>1, <2>2, <2>3 DEF Rings
  <1>10. CoreInv'
    BY <1>1, <1>2, <1>8, <1>9 DEF CoreInv, AsksWhenEmpty
  <1>11. UNCHANGED <<registered, in_session, registrations, requests, inBatch>>
    BY <1>1 DEF serverVars, clientVars
  <1> QED BY <1>1, <1>4, <1>5, <1>7, <1>10, <1>11

\* The beginning and the end of the session's loop.
LEMMA LoopCore ==
  ASSUME CoreInv, SessionRead \/ EndOfBatch
  PROVE  CoreInv'
  <1>0. /\ toSession \in Seq(SessionMessages) /\ Len(toSession) <= Bound
        /\ toServer \in Seq(ServerMessages) /\ Len(toServer) <= Bound
        /\ sessionBatch \in 0..Len(toSession) /\ inBatch \in BOOLEAN
        /\ serverBatch \in Nat /\ stranded \in Nat
        /\ serverBatch + stranded <= Len(toServer)
        /\ Len(toSession) \in Nat /\ Len(toServer) \in Nat
    BY DEF CoreInv, Rings
  <1>1. CASE SessionRead
    <2>1. /\ inBatch' = TRUE /\ sessionBatch' = Len(toSession)
          /\ UNCHANGED <<serverVars, session, toSession, toServer>>
      BY <1>1 DEF SessionRead
    <2>2. Books' /\ serverBatch' = serverBatch /\ stranded' = stranded
      BY <2>1, BooksSame
    <2>3. sessionBatch' \in 0..Len(toSession) /\ inBatch' \in BOOLEAN
      BY <1>0, <2>1
    <2>4. Rings'
      BY <1>0, <2>1, <2>2, <2>3 DEF Rings
    <2> QED BY <2>1, <2>2, <2>4 DEF CoreInv, AsksWhenEmpty
  <1>2. CASE EndOfBatch
    <2>1. /\ ~inBatch' /\ Sound(session') /\ AsksWhenEmpty'
          /\ \E q : Closes(q)
      BY <1>2, EndOfBatchIs
    <2>2. /\ UNCHANGED <<serverVars, toSession, sessionBatch>>
          /\ toServer' = toServer \/ toServer' = Push(toServer, UnregisterMsg)
      BY <2>1 DEF Closes
    <2>3. Books' /\ serverBatch' = serverBatch /\ stranded' = stranded
      BY <2>2, BooksSame
    <2>4. /\ toServer' \in Seq(ServerMessages) /\ Len(toServer') <= Bound
          /\ Len(toServer') \in Len(toServer)..(Len(toServer) + 1)
      <3>1. UnregisterMsg \in ServerMessages
        BY ServerMessageIs
      <3>2. /\ Push(toServer, UnregisterMsg) \in Seq(ServerMessages)
            /\ Len(Push(toServer, UnregisterMsg)) <= Bound
            /\ Len(Push(toServer, UnregisterMsg)) \in Len(toServer)..(Len(toServer) + 1)
        BY <1>0, <3>1, PushIs
      <3>3. CASE toServer' = toServer
        BY <1>0, <3>3
      <3>4. CASE toServer' = Push(toServer, UnregisterMsg)
        BY <3>2, <3>4
      <3> QED BY <2>2, <3>3, <3>4
    <2>5. serverBatch + stranded <= Len(toServer')
      BY <1>0, <2>4
    <2>6. inBatch' \in BOOLEAN
      <3>1. inBatch' = FALSE
        BY <1>2, Zenon DEF EndOfBatch
      <3> QED BY <3>1, Zenon
    <2>7. Rings'
      BY <1>0, <2>2, <2>3, <2>4, <2>5, <2>6 DEF Rings
    <2> QED BY <2>1, <2>3, <2>7 DEF CoreInv
  <1> QED BY <1>1, <1>2

\* Every step, by the actions above.
LEMMA NextIs ==
  ASSUME Next
  PROVE  \/ \E p \in Players : Request(p)
         \/ ServerBus \/ SessionRead \/ EndOfBatch
         \/ \E p \in Players : Answer(p)
  BY DEF Next, ClientRequest, SessionThread, Request, Answer

\* Every step keeps the invariant.
LEMMA StepCore ==
  ASSUME CoreInv, [Next]_vars
  PROVE  CoreInv'
  <1>1. CASE UNCHANGED vars
    BY <1>1 DEF vars, serverVars, clientVars, sessionVars, CoreInv, Books, Rings,
                AsksWhenEmpty
  <1>2. CASE Next
    <2>1. ASSUME NEW p \in Players, Request(p) PROVE CoreInv'
      BY <2>1, RequestCore
    <2>2. CASE ServerBus
      BY <2>2, ServerBusCore
    <2>3. CASE SessionRead \/ EndOfBatch
      BY <2>3, LoopCore
    <2>4. ASSUME NEW p \in Players, Answer(p) PROVE CoreInv'
      <3>1. PICK type \in ToSession : \E t, out : Answered(type, p, t, out)
        BY <2>4, AnswerIs DEF CoreInv
      <3>2. PICK t, out : Answered(type, p, t, out)
        BY <3>1
      <3> QED BY <3>2, AnswerCore
    <2> QED BY <1>2, <2>1, <2>2, <2>3, <2>4, NextIs
  <1> QED BY <1>1, <1>2

\* The types, the session's record between games and the order of its requests
\* hold in every reachable state.
THEOREM CoreInvariance == Spec => []CoreInv
  BY InitCore, StepCore, PTL DEF Spec

\* The rings never hold more than their capacity and the batches never more than
\* the rings: whatever the users, the slots and the rings are.
THEOREM TypeCorrect == Spec => []TypeOK
  BY CoreInvariance, CoreTypes, PTL

\* A session whose thread has stopped reading has nobody in it.
THEOREM AskedWhenEmpty == Spec => []AsksWhenEmpty
  <1>1. CoreInv => AsksWhenEmpty
    BY DEF CoreInv
  <1> QED BY <1>1, CoreInvariance, PTL

-----------------------------------------------------------------------------
(* The two views of who is in the session *)

\* Of an id that was never given out nobody has heard.
Unknown(p) ==
  registrations[p] = 0 =>
    /\ p \notin registered /\ ~S!Member(session, p)
    /\ About(toSession, p) = {} /\ About(toServer, p) = {}

\* Its first owner has not said goodbye.
NoGoodbye(p) ==
  p \in registered /\ registrations[p] = 1 =>
    \A k \in About(toSession, p) : toSession[k].type # "USER_UNREGISTER"

Agrees(p) ==
  p \in registered /\ registrations[p] = 1 => (Announced(p) <=> S!Member(session, p))

Known(p) == Unknown(p) /\ NoGoodbye(p) /\ Agrees(p)
ViewsInv == \A p \in Players : Known(p)

\* The session never handles a message while the answer might not fit.
Roomy == sessionBatch > 0 => Len(toServer) + MaxClients + 1 <= Bound

\* Messages about p that are all among those of q, as far as q knows none.
LEMMA AboutLess ==
  ASSUME NEW q, NEW r, NEW p, About(q, p) = {},
         \A k \in DOMAIN r : (k \in DOMAIN q /\ r[k] = q[k]) \/ r[k].user # p
  PROVE  About(r, p) = {}
  <1>1. ASSUME NEW k \in DOMAIN r, r[k].user = p PROVE FALSE
    <2>1. k \in DOMAIN q /\ q[k].user = p
      BY <1>1
    <2> QED BY <2>1 DEF About
  <1> QED BY <1>1 DEF About

\* The messages about p that a tail still has.
LEMMA AboutTail ==
  ASSUME NEW M, NEW q \in Seq(M), q # << >>, NEW p
  PROVE  /\ About(q, p) = {} => About(Tail(q), p) = {}
         /\ \A k \in About(Tail(q), p) : k + 1 \in About(q, p) /\ Tail(q)[k] = q[k + 1]
  <1> DEFINE z == Tail(q)
  <1>1. /\ Len(q) >= 1 /\ Len(q) \in Nat /\ DOMAIN q = 1..Len(q)
        /\ DOMAIN z = 1..(Len(q) - 1)
        /\ \A k \in 1..(Len(q) - 1) : z[k] = q[k + 1]
    BY Shifted
  <1> HIDE DEF z
  <1>2. ASSUME NEW k \in About(z, p)
        PROVE  k + 1 \in About(q, p) /\ z[k] = q[k + 1]
    <2>1. k \in DOMAIN z /\ z[k].user = p
      BY <1>2 DEF About
    <2>2. k \in 1..(Len(q) - 1) /\ k + 1 \in 1..Len(q)
      BY <1>1, <2>1
    <2>3. z[k] = q[k + 1] /\ k + 1 \in DOMAIN q
      BY <1>1, <2>2
    <2> QED BY <2>1, <2>3 DEF About
  <1>3. About(q, p) = {} => About(z, p) = {}
    BY <1>2
  <1> QED BY <1>2, <1>3 DEF z

\* Where neither part is about p, the whole is not.
LEMMA AboutJoined ==
  ASSUME NEW M, NEW q \in Seq(M), NEW r \in Seq(M), NEW p,
         About(q, p) = {}, About(r, p) = {}
  PROVE  About(q \o r, p) = {}
  <1> DEFINE z == q \o r
  <1>1. /\ Len(q) \in Nat /\ Len(r) \in Nat /\ DOMAIN q = 1..Len(q) /\ DOMAIN r = 1..Len(r)
        /\ DOMAIN z = 1..(Len(q) + Len(r))
        /\ \A k \in 1..Len(q) : z[k] = q[k]
        /\ \A k \in 1..Len(r) : z[Len(q) + k] = r[k]
    BY Joined
  <1> HIDE DEF z
  <1>2. (\A k \in 1..Len(q) : q[k].user # p) /\ (\A k \in 1..Len(r) : r[k].user # p)
    BY <1>1 DEF About
  <1>3. ASSUME NEW l \in DOMAIN z PROVE z[l].user # p
    <2>1. l \in 1..Len(q) \/ (l - Len(q) \in 1..Len(r) /\ l = Len(q) + (l - Len(q)))
      BY <1>1, <1>3
    <2> QED BY <1>1, <1>2, <2>1
  <1>4. About(z, p) = {}
    BY <1>3 DEF About
  <1> QED BY <1>4 DEF z

\* At first nobody is known.
LEMMA InitViews == Init => ViewsInv
  <1> SUFFICES ASSUME Init, NEW p \in Players PROVE Known(p)
    BY DEF ViewsInv
  <1>1. /\ registered = {} /\ toSession = << >> /\ toServer = << >>
        /\ registrations = [d \in Players |-> 0] /\ S!Init
    BY DEF Init
  <1>2. ~S!Member(session, p)
    BY <1>1, InitSound
  <1>3. About(<< >>, p) = {}
    BY DEF About
  <1>4. Unknown(p)
    BY <1>1, <1>2, <1>3 DEF Unknown
  <1> QED BY <1>1, <1>4 DEF Known, NoGoodbye, Agrees

\* A client's request: his own first owner's goodbye makes him a stranger, and
\* nobody else's concerns him.
LEMMA RequestViews ==
  ASSUME CoreInv, NEW q \in Players, Request(q), NEW p \in Players, Known(p)
  PROVE  Known(p)'
  <1>1. /\ UNCHANGED <<toServer, session>>
        /\ Enrols(q) \/ Writes(q) \/ GivesUp(q)
    BY RequestIs DEF Serving, sessionVars
  <1>2. /\ Unknown(p) /\ NoGoodbye(p) /\ Agrees(p)
        /\ registrations \in [Players -> 0..MaxRequests] /\ registrations[p] \in Nat
    BY Parameters DEF Known, CoreInv, Books
  <1>3. ASSUME NEW types \in SUBSET ToSession, Sends(types, q),
               registrations' = registrations,
               q \in registered,
               p \in registered' => p \in registered,
               p \in registered' /\ p = q => "USER_UNREGISTER" \notin types
        PROVE  Unknown(p)' /\ NoGoodbye(p)'
    <2>1. \A k \in DOMAIN toSession' :
            \/ k \in DOMAIN toSession /\ toSession'[k] = toSession[k]
            \/ toSession'[k].user = q /\ toSession'[k].type \in types
      BY <1>3, SentIs
    <2>2. Unknown(p)'
      <3> SUFFICES ASSUME registrations[p] = 0
                   PROVE  /\ p \notin registered' /\ ~S!Member(session', p)
                          /\ About(toSession', p) = {} /\ About(toServer', p) = {}
        BY <1>3 DEF Unknown
      <3>1. /\ p \notin registered /\ ~S!Member(session, p)
            /\ About(toSession, p) = {} /\ About(toServer, p) = {}
        BY <1>2 DEF Unknown
      <3>2. p # q
        BY <1>3, <3>1
      <3>3. About(toSession', p) = {}
        BY <2>1, <3>1, <3>2, AboutLess
      <3> QED BY <1>1, <1>3, <3>1, <3>3
    <2>3. NoGoodbye(p)'
      <3> SUFFICES ASSUME p \in registered', registrations[p] = 1,
                          NEW k \in DOMAIN toSession', toSession'[k].user = p
                   PROVE  toSession'[k].type # "USER_UNREGISTER"
        BY <1>3 DEF NoGoodbye, About
      <3>1. CASE k \in DOMAIN toSession /\ toSession'[k] = toSession[k]
        BY <1>2, <1>3, <3>1 DEF NoGoodbye, About
      <3>2. CASE toSession'[k].user = q /\ toSession'[k].type \in types
        BY <1>3, <3>2
      <3> QED BY <2>1, <3>1, <3>2
    <2> QED BY <2>2, <2>3
  <1>4. CASE Writes(q)
    <2>1. /\ q \in registered
          /\ UNCHANGED <<registered, in_session, registrations>>
          /\ Sends(ToSession \ {"USER_UNREGISTER"}, q)
      BY <1>4 DEF Writes
    <2>2. Unknown(p)' /\ NoGoodbye(p)'
      BY <1>3, <2>1
    <2>3. Agrees(p)'
      BY <1>1, <1>2, <2>1 DEF Agrees, Announced
    <2> QED BY <2>2, <2>3 DEF Known
  <1>5. CASE GivesUp(q)
    <2>1. /\ q \in registered
          /\ registered' = registered \ {q} /\ in_session' = in_session \ {q}
          /\ UNCHANGED registrations /\ Sends({"USER_UNREGISTER"}, q)
      BY <1>5 DEF GivesUp
    <2>2. {"USER_UNREGISTER"} \in SUBSET ToSession
      BY DEF ToSession
    <2>3. Unknown(p)' /\ NoGoodbye(p)'
      BY <1>3, <2>1, <2>2
    <2>4. Agrees(p)'
      <3> SUFFICES ASSUME p \in registered', registrations[p] = 1
                   PROVE  Believed(toServer, in_session', p) <=> S!Member(session, p)
        BY <1>1, <2>1 DEF Agrees, Announced
      <3>1. p \in registered /\ (p \in in_session' <=> p \in in_session)
        BY <2>1
      <3>2. Believed(toServer, in_session', p) <=> Believed(toServer, in_session, p)
        BY <3>1, BelievedSame
      <3> QED BY <1>2, <3>1, <3>2 DEF Agrees, Announced
    <2> QED BY <2>3, <2>4 DEF Known
  <1>6. CASE Enrols(q)
    <2>1. /\ q \notin registered /\ registered' = registered \cup {q}
          /\ registrations' = [registrations EXCEPT ![q] = @ + 1]
          /\ UNCHANGED <<in_session, toSession>>
      BY <1>6 DEF Enrols
    <2>2. CASE p # q
      <3>1. registrations'[p] = registrations[p] /\ (p \in registered' <=> p \in registered)
        BY <1>2, <2>1, <2>2
      <3> QED BY <1>1, <1>2, <2>1, <3>1
              DEF Known, Unknown, NoGoodbye, Agrees, Announced
    <2>3. CASE p = q /\ registrations[p] = 0
      <3>1. /\ ~S!Member(session, p)
            /\ About(toSession, p) = {} /\ About(toServer, p) = {}
        BY <1>2, <2>3 DEF Unknown
      <3>2. registrations'[p] = 1
        BY <1>2, <2>1, <2>3
      <3>3. p \notin in_session
        BY <2>1, <2>3 DEF CoreInv, Books
      <3>4. ~Believed(toServer, in_session, p)
        BY <3>1, <3>3, NoneDecides
      <3>5. Unknown(p)'
        BY <3>2 DEF Unknown
      <3>6. NoGoodbye(p)'
        BY <2>1, <3>1 DEF NoGoodbye
      <3>7. Agrees(p)'
        BY <1>1, <2>1, <3>1, <3>4 DEF Agrees, Announced
      <3> QED BY <3>5, <3>6, <3>7 DEF Known
    <2>4. CASE p = q /\ registrations[p] # 0
      <3>1. registrations'[p] # 0 /\ registrations'[p] # 1
        BY <1>2, <2>1, <2>4
      <3> QED BY <3>1 DEF Known, Unknown, NoGoodbye, Agrees
    <2> QED BY <2>2, <2>3, <2>4
  <1> QED BY <1>1, <1>4, <1>5, <1>6

\* The server's reading of the bus: it comes to believe what it was to believe.
LEMMA ServerBusViews ==
  ASSUME CoreInv, ServerBus, NEW p \in Players, Known(p)
  PROVE  Known(p)'
  <1>1. /\ UNCHANGED <<registered, registrations, toSession, session>>
        /\ Rereads \/ Reads
    BY ServerBusIs DEF sessionVars
  <1>2. Unknown(p) /\ NoGoodbye(p) /\ Agrees(p) /\ toServer \in Seq(ServerMessages)
    BY DEF Known, CoreInv, Rings
  <1>3. NoGoodbye(p)'
    BY <1>1, <1>2 DEF NoGoodbye
  <1>4. CASE Rereads
    <2>1. UNCHANGED <<toServer, in_session>>
      BY <1>4 DEF Rereads
    <2> QED BY <1>1, <1>2, <1>3, <2>1 DEF Known, Unknown, Agrees, Announced
  <1>5. CASE Reads
    <2>1. toServer # << >> /\ toServer' = Tail(toServer)
      BY <1>5 DEF Reads
    <2>2. About(toServer, p) = {} => About(toServer', p) = {}
      BY <1>2, <2>1, AboutTail
    <2>3. Unknown(p)'
      BY <1>1, <1>2, <2>2 DEF Unknown
    <2>4. Agrees(p)'
      <3> SUFFICES ASSUME p \in registered, registrations[p] = 1
                   PROVE  Believed(toServer', in_session', p) <=> S!Member(session, p)
        BY <1>1 DEF Agrees, Announced
      <3>1. Head(toServer) \in ServerMessages
        BY <1>2, <2>1, Shifted
      <3>2. Head(toServer).user = p => Head(toServer).type \in News
        BY <3>1, ServerMessageIs
      <3>3. /\ Head(toServer).user = p =>
                 (p \in in_session' <=> Head(toServer).type = "USER_CONNECTED")
            /\ Head(toServer).user # p => (p \in in_session' <=> p \in in_session)
        BY <1>5, <3>2 DEF Reads
      <3>4. Believed(Tail(toServer), in_session', p) <=> Believed(toServer, in_session, p)
        BY <1>2, <2>1, <3>3, BelievedTail
      <3> QED BY <1>2, <2>1, <3>4 DEF Agrees, Announced
    <2> QED BY <1>3, <2>3, <2>4 DEF Known
  <1> QED BY <1>1, <1>4, <1>5

\* The end of the session's loop: the request is about nobody.
LEMMA EndOfBatchViews ==
  ASSUME CoreInv, EndOfBatch, NEW p \in Players, Known(p)
  PROVE  Known(p)'
  <1>1. \E q : Closes(q)
    BY EndOfBatchIs
  <1>2. /\ UNCHANGED <<registered, registrations, in_session, toSession>>
        /\ toServer' = toServer \/ toServer' = Push(toServer, UnregisterMsg)
        /\ S!Member(session', p) <=> S!Member(session, p)
    BY <1>1 DEF Closes, serverVars, clientVars
  <1>3. /\ Unknown(p) /\ NoGoodbye(p) /\ Agrees(p)
        /\ toServer \in Seq(ServerMessages) /\ Len(toServer) <= Bound
    BY DEF Known, CoreInv, Rings
  <1>4. /\ UnregisterMsg \in ServerMessages /\ UnregisterMsg.user # p
    BY ServerMessageIs, Parameters
  <1>5. NoGoodbye(p)'
    BY <1>2, <1>3 DEF NoGoodbye
  <1>6. CASE toServer' = toServer
    BY <1>2, <1>3, <1>5, <1>6 DEF Known, Unknown, Agrees, Announced
  <1>7. CASE toServer' = Push(toServer, UnregisterMsg) /\ toServer' # toServer
    <2>1. toServer' = PushAll(toServer, <<UnregisterMsg>>) /\ Len(toServer) < Bound
      BY <1>3, <1>4, <1>7, PushIs DEF Push
    <2> DEFINE r == <<UnregisterMsg>>
    <2>2. r \in Seq(ServerMessages) /\ Len(r) = 1 /\ DOMAIN r = {1} /\ r[1] = UnregisterMsg
      BY <1>4
    <2> HIDE DEF r
    <2>3. toServer' = toServer \o r
      <3>1. Len(toServer) + Len(r) <= Bound
        BY <1>3, <2>1, <2>2, Parameters
      <3>2. PushAll(toServer, r) = toServer \o r
        BY <1>3, <2>2, <3>1, PushAllIs
      <3> QED BY <2>1, <3>2 DEF r
    <2>4. About(r, p) = {}
      BY <1>4, <2>2 DEF About
    <2>5. Unknown(p)'
      <3> SUFFICES ASSUME registrations[p] = 0 PROVE About(toServer', p) = {}
        BY <1>2, <1>3 DEF Unknown
      <3>1. About(toServer, p) = {}
        BY <1>3 DEF Unknown
      <3> QED BY <1>3, <2>2, <2>3, <2>4, <3>1, AboutJoined
    <2>6. Agrees(p)'
      <3> SUFFICES ASSUME p \in registered, registrations[p] = 1
                   PROVE  Believed(toServer', in_session, p) <=> S!Member(session, p)
        BY <1>2 DEF Agrees, Announced
      <3> DEFINE B == {d \in {p} : Believed(toServer, in_session, d)}
      <3>1. p \in B <=> Believed(toServer, in_session, p)
        OBVIOUS
      <3> HIDE DEF B
      <3>2. \A k \in DOMAIN r : r[k].user = p => (r[k].type = "USER_CONNECTED" <=> p \in B)
        BY <1>4, <2>2
      <3>3. Believed(toServer \o r, in_session, p) <=> p \in B
        BY <1>3, <2>2, <3>1, <3>2, BelievedJoined
      <3> QED BY <1>3, <2>3, <3>1, <3>3 DEF Agrees, Announced
    <2> QED BY <1>5, <2>5, <2>6 DEF Known
  <1> QED BY <1>2, <1>6, <1>7

\* The session's answer: it says what it has done, as long as there is room.
LEMMA AnswerViews ==
  ASSUME CoreInv, Roomy, NEW type, NEW q, NEW t, NEW out, Answered(type, q, t, out),
         NEW p \in Players, Known(p)
  PROVE  Known(p)'
  <1>1. /\ sessionBatch > 0 /\ toSession # << >> /\ Head(toSession) = Msg(type, q)
        /\ session' = t /\ toSession' = Tail(toSession)
        /\ toServer' = PushAll(toServer, out)
        /\ UNCHANGED <<registered, in_session, registrations>>
    BY AnswerCore
  <1>2. /\ out \in Seq(ServerMessages) /\ Len(out) <= MaxClients + 1
        /\ p # q /\ ~S!Member(session, p) => ~S!Member(t, p) /\ About(out, p) = {}
        /\ type # "USER_UNREGISTER" \/ p # q => Reports(out, session, t, p)
    BY DEF Answered, Effect
  <1>3. /\ Unknown(p) /\ NoGoodbye(p) /\ Agrees(p)
        /\ toSession \in Seq(SessionMessages)
        /\ toServer \in Seq(ServerMessages) /\ Len(toServer) <= Bound
    BY DEF Known, CoreInv, Rings
  <1>4. toServer' = toServer \o out
    <2>1. Len(toServer) + MaxClients + 1 <= Bound
      BY <1>1 DEF Roomy
    <2>2. Len(toServer) + Len(out) <= Bound
      BY <1>2, <1>3, <2>1, Parameters
    <2> QED BY <1>1, <1>2, <1>3, <2>2, PushAllIs
  <1>5. /\ About(toSession, p) = {} => About(toSession', p) = {}
        /\ \A k \in About(toSession', p) :
             k + 1 \in About(toSession, p) /\ toSession'[k] = toSession[k + 1]
    BY <1>1, <1>3, AboutTail
  <1>6. p = q => 1 \in About(toSession, p) /\ toSession[1].type = type
    <2>1. Head(toSession) = toSession[1] /\ 1 \in DOMAIN toSession
      BY <1>1, <1>3
    <2>2. toSession[1].user = q /\ toSession[1].type = type
      BY <1>1, <2>1, MsgIs
    <2> QED BY <2>1, <2>2 DEF About
  <1>7. Unknown(p)'
    <2> SUFFICES ASSUME registrations[p] = 0
                 PROVE  /\ p \notin registered /\ ~S!Member(t, p)
                        /\ About(toSession', p) = {} /\ About(toServer', p) = {}
      BY <1>1 DEF Unknown
    <2>1. /\ p \notin registered /\ ~S!Member(session, p)
          /\ About(toSession, p) = {} /\ About(toServer, p) = {}
      BY <1>3 DEF Unknown
    <2>2. p # q
      BY <1>6, <2>1
    <2>3. ~S!Member(t, p) /\ About(out, p) = {}
      BY <1>2, <2>1, <2>2
    <2>4. About(toServer', p) = {}
      BY <1>2, <1>3, <1>4, <2>1, <2>3, AboutJoined
    <2> QED BY <1>5, <2>1, <2>3, <2>4
  <1>8. NoGoodbye(p)'
    BY <1>1, <1>3, <1>5 DEF NoGoodbye
  <1>9. Agrees(p)'
    <2> SUFFICES ASSUME p \in registered, registrations[p] = 1
                 PROVE  Believed(toServer', in_session, p) <=> S!Member(t, p)
      BY <1>1 DEF Agrees, Announced
    <2>1. type # "USER_UNREGISTER" \/ p # q
      BY <1>3, <1>6 DEF NoGoodbye
    <2>2. Reports(out, session, t, p)
      BY <1>2, <2>1
    <2>3. Believed(toServer, in_session, p) <=> S!Member(session, p)
      BY <1>3 DEF Agrees, Announced
    <2> DEFINE B == {d \in {p} : S!Member(t, d)}
    <2>4. p \in B <=> S!Member(t, p)
      OBVIOUS
    <2> HIDE DEF B
    <2>5. \A k \in DOMAIN out : out[k].user = p =>
            (out[k].type = "USER_CONNECTED" <=> p \in B)
      BY <2>2, <2>4 DEF Reports
    <2>6. About(out, p) = {} => (Believed(toServer, in_session, p) <=> p \in B)
      BY <2>2, <2>3, <2>4 DEF Reports
    <2>7. Believed(toServer \o out, in_session, p) <=> p \in B
      BY <1>2, <1>3, <2>5, <2>6, BelievedJoined
    <2> QED BY <1>4, <2>4, <2>7
  <1> QED BY <1>7, <1>8, <1>9 DEF Known

\* Every step keeps the views together where the answers fit.
LEMMA StepViews ==
  ASSUME CoreInv, Roomy, ViewsInv, [Next]_vars
  PROVE  ViewsInv'
  <1> SUFFICES ASSUME NEW p \in Players PROVE Known(p)'
    BY DEF ViewsInv
  <1>1. Known(p)
    BY DEF ViewsInv
  <1>2. CASE UNCHANGED <<registered, registrations, in_session, toSession, toServer, session>>
    BY <1>1, <1>2 DEF Known, Unknown, NoGoodbye, Agrees, Announced
  <1>3. CASE UNCHANGED vars
    BY <1>2, <1>3 DEF vars, serverVars, clientVars, sessionVars
  <1>4. CASE Next
    <2>1. ASSUME NEW q \in Players, Request(q) PROVE Known(p)'
      BY <1>1, <2>1, RequestViews
    <2>2. CASE ServerBus
      BY <1>1, <2>2, ServerBusViews
    <2>3. CASE SessionRead
      BY <1>2, <2>3 DEF SessionRead, serverVars, clientVars
    <2>4. CASE EndOfBatch
      BY <1>1, <2>4, EndOfBatchViews
    <2>5. ASSUME NEW q \in Players, Answer(q) PROVE Known(p)'
      <3>1. PICK type \in ToSession : \E t, out : Answered(type, q, t, out)
        BY <2>5, AnswerIs DEF CoreInv
      <3>2. PICK t, out : Answered(type, q, t, out)
        BY <3>1
      <3> QED BY <1>1, <3>2, AnswerViews
    <2> QED BY <1>4, <2>1, <2>2, <2>3, <2>4, <2>5, NextIs
  <1> QED BY <1>3, <1>4

\* The invariant settles what the server will believe of the first owners of ids.
LEMMA ViewsAgreeFromInv == ViewsInv /\ CoreInv => ViewsAgree
  BY DEF ViewsInv, Known, Agrees, CoreInv, Books, ViewsAgree

\* As long as the answers have room, what the server will believe about the first
\* owner of an id is what the session knows: the interleaving of the two threads,
\* lost connections and the creator's closing never part them.
THEOREM ViewsAgreeWhileRoomy == Spec /\ []Roomy => []ViewsAgree
  BY InitViews, StepViews, ViewsAgreeFromInv, CoreInvariance, PTL DEF Spec

-----------------------------------------------------------------------------
(* Rings that are large enough *)

\* The messages that the session may still come to handle, and the request at
\* the end of its loop.
Pending == Len(toSession) + (MaxRequests - requests)
AtTheEnd == IF inBatch /\ sessionBatch = 0 THEN 1 ELSE 0

\* A message makes at most MaxClients + 1 answers and one end of the loop.
PerMessage == MaxClients + 2
Needed == PerMessage * MaxRequests
Budget == Len(toServer) + PerMessage * Pending + AtTheEnd <= Needed

\* Products grow with their factors.
LEMMA Scaled ==
  ASSUME NEW K \in Nat, NEW a \in Nat, NEW b \in Nat
  PROVE  /\ K * a \in Nat /\ K * b \in Nat
         /\ b <= a => K * b <= K * a
         /\ b + 1 <= a => K * b + K <= K * a
  <1>1. K * a \in Nat /\ K * b \in Nat
    OBVIOUS
  <1>2. ASSUME NEW c \in Nat, a = b + c PROVE K * a = K * b + K * c /\ K * c \in Nat
    BY <1>2
  <1>3. ASSUME b <= a PROVE K * b <= K * a
    <2>1. a - b \in Nat /\ a = b + (a - b)
      BY <1>3
    <2> QED BY <1>1, <1>2, <2>1
  <1>4. ASSUME b + 1 <= a PROVE K * b + K <= K * a
    <2>1. a - b \in Nat /\ a = b + (a - b) /\ a - b >= 1
      BY <1>4
    <2>2. K * (a - b) >= K
      BY <2>1
    <2> QED BY <1>1, <1>2, <2>1, <2>2
  <1> QED BY <1>1, <1>3, <1>4

\* What a step may do without spending more than there is: n messages to the
\* server, a to come from the clients, e for the end of the loop.
LEMMA Spent ==
  ASSUME NEW K \in Nat, NEW top \in Nat,
         NEW n \in Nat, NEW a \in Nat, NEW e \in Nat,
         NEW m \in Nat, NEW b \in Nat, NEW f \in Nat,
         n + K * a + e <= top,
         \/ m <= n /\ b <= a /\ f <= e
         \/ m + 1 <= n + K /\ b + 1 <= a /\ f <= 1
         \/ m <= n + 1 /\ b <= a /\ e = 1 /\ f = 0
  PROVE  m + K * b + f <= top
  <1>1. /\ K * a \in Nat /\ K * b \in Nat
        /\ b <= a => K * b <= K * a
        /\ b + 1 <= a => K * b + K <= K * a
    BY Scaled
  <1> DEFINE x == K * a
             y == K * b
  <1>2. x \in Nat /\ y \in Nat /\ n + x + e <= top
        /\ (b <= a => y <= x) /\ (b + 1 <= a => y + K <= x)
    BY <1>1
  <1> HIDE DEF x, y
  <1>3. m + y + f <= top
    BY <1>2
  <1> QED BY <1>3 DEF y

\* What is counted is a number.
LEMMA BudgetTerms ==
  ASSUME CoreInv
  PROVE  /\ Len(toServer) \in Nat /\ Len(toSession) \in Nat /\ Pending \in Nat
         /\ AtTheEnd \in {0, 1} /\ PerMessage \in Nat /\ Needed \in Nat
         /\ requests \in Nat /\ MaxRequests \in Nat /\ requests <= MaxRequests
  <1>1. Len(toServer) \in Nat /\ Len(toSession) \in Nat
    BY DEF CoreInv, Rings
  <1>2. requests \in Nat /\ MaxRequests \in Nat /\ requests <= MaxRequests
    BY Parameters DEF CoreInv, Books
  <1>3. PerMessage \in Nat /\ Needed \in Nat
    <2>1. PerMessage \in Nat
      BY Parameters DEF PerMessage
    <2> QED BY <1>2, <2>1, Scaled DEF Needed
  <1>4. Pending \in Nat
    BY <1>1, <1>2 DEF Pending
  <1> QED BY <1>1, <1>2, <1>3, <1>4 DEF AtTheEnd

\* At first nothing is spent.
LEMMA InitBudget == Init => Budget
  <1> SUFFICES ASSUME Init PROVE Budget
    OBVIOUS
  <1>1. /\ Len(toServer) = 0 /\ Pending = MaxRequests /\ AtTheEnd = 0
    BY Parameters DEF Init, Pending, AtTheEnd
  <1>2. CoreInv
    BY InitCore
  <1> QED BY <1>1, <1>2, BudgetTerms DEF Budget, Needed

\* No step spends more than there is: an answer pays with the message it answers,
\* the request at the end of the loop with what its last message left for it.
LEMMA StepBudget ==
  ASSUME CoreInv, Budget, [Next]_vars
  PROVE  Budget'
  <1>1. CoreInv'
    BY StepCore
  <1>2. /\ Len(toServer) \in Nat /\ Len(toSession) \in Nat /\ Pending \in Nat
        /\ AtTheEnd \in {0, 1} /\ PerMessage \in Nat /\ Needed \in Nat
        /\ requests \in Nat /\ MaxRequests \in Nat
    BY BudgetTerms
  <1>3. Len(toServer') \in Nat /\ Len(toSession') \in Nat /\ Pending' \in Nat /\ AtTheEnd' \in {0, 1}
    <2>1. Len(toServer') \in Nat /\ Len(toSession') \in Nat
      BY <1>1 DEF CoreInv, Rings
    <2>2. requests' \in Nat /\ MaxRequests \in Nat /\ requests' <= MaxRequests
      BY <1>1, Parameters DEF CoreInv, Books
    <2> QED BY <2>1, <2>2 DEF Pending, AtTheEnd
  <1>4. SUFFICES \/ Len(toServer') <= Len(toServer) /\ Pending' <= Pending /\ AtTheEnd' <= AtTheEnd
                 \/ Len(toServer') + 1 <= Len(toServer) + PerMessage /\ Pending' + 1 <= Pending
                 \/ /\ Len(toServer') <= Len(toServer) + 1 /\ Pending' <= Pending
                    /\ AtTheEnd = 1 /\ AtTheEnd' = 0
    <2> DEFINE n == Len(toServer)
               a == Pending
               e == AtTheEnd
               m == Len(toServer')
               b == Pending'
               f == AtTheEnd'
    <2>1. n + PerMessage * a + e <= Needed
      BY DEF Budget
    <2>2. /\ n \in Nat /\ a \in Nat /\ e \in Nat /\ m \in Nat /\ b \in Nat /\ f \in Nat
          /\ f <= 1
      BY <1>2, <1>3
    <2>3. \/ m <= n /\ b <= a /\ f <= e
          \/ m + 1 <= n + PerMessage /\ b + 1 <= a /\ f <= 1
          \/ m <= n + 1 /\ b <= a /\ e = 1 /\ f = 0
      BY <1>4, <2>2
    <2>4. (m + PerMessage * b + f <= Needed) <=> Budget'
      BY DEF Budget, Needed, PerMessage
    <2> HIDE DEF n, a, e, m, b, f
    <2> QED BY <1>2, <2>1, <2>2, <2>3, <2>4, Spent
  <1>5. CASE UNCHANGED <<toServer, toSession, requests, inBatch, sessionBatch>>
    BY <1>2, <1>5 DEF Pending, AtTheEnd
  <1>6. CASE UNCHANGED vars
    BY <1>5, <1>6 DEF vars, serverVars, clientVars, sessionVars
  <1>7. CASE Next
    <2>1. ASSUME NEW q \in Players, Request(q)
          PROVE  /\ Len(toServer') <= Len(toServer) /\ Pending' <= Pending
                 /\ AtTheEnd' <= AtTheEnd
      <3>1. /\ Serving
            /\ Enrols(q) \/ Writes(q) \/ GivesUp(q)
        BY <2>1, RequestIs
      <3>2. requests' = requests + 1 /\ UNCHANGED <<toServer, inBatch, sessionBatch>>
        BY <3>1 DEF Serving, sessionVars
      <3>3. Len(toSession') <= Len(toSession) + 1
        <4>1. CASE Enrols(q)
          BY <1>2, <4>1 DEF Enrols
        <4>2. ASSUME NEW types \in SUBSET ToSession, Sends(types, q)
              PROVE  Len(toSession') <= Len(toSession) + 1
          BY <1>2, <4>2, SentIs
        <4>3. ToSession \ {"USER_UNREGISTER"} \in SUBSET ToSession
              /\ {"USER_UNREGISTER"} \in SUBSET ToSession
          BY DEF ToSession
        <4>4. CASE Writes(q)
          BY <4>2, <4>3, <4>4 DEF Writes
        <4>5. CASE GivesUp(q)
          BY <4>2, <4>3, <4>5 DEF GivesUp
        <4> QED BY <3>1, <4>1, <4>4, <4>5
      <3>4. Pending' <= Pending
        BY <1>2, <1>3, <3>2, <3>3 DEF Pending
      <3> QED BY <1>2, <3>2, <3>4 DEF AtTheEnd
    <2>2. CASE ServerBus
      <3>1. /\ UNCHANGED <<requests, toSession, inBatch, sessionBatch>>
            /\ Rereads \/ Reads
        BY <2>2, ServerBusIs DEF sessionVars
      <3>2. Len(toServer') <= Len(toServer)
        <4>1. CASE Rereads
          BY <1>2, <4>1 DEF Rereads
        <4>2. CASE Reads
          <5>1. toServer # << >> /\ toServer' = Tail(toServer)
            BY <4>2 DEF Reads
          <5>2. toServer \in Seq(ServerMessages)
            BY DEF CoreInv, Rings
          <5>3. Len(toServer') = Len(toServer) - 1
            BY <5>1, <5>2, Shifted
          <5> QED BY <1>2, <5>3
        <4> QED BY <3>1, <4>1, <4>2
      <3>3. Pending' = Pending /\ AtTheEnd' = AtTheEnd
        BY <3>1 DEF Pending, AtTheEnd
      <3> QED BY <1>2, <3>2, <3>3
    <2>3. CASE SessionRead
      <3>1. /\ toSession # << >> /\ sessionBatch' = Len(toSession)
            /\ UNCHANGED <<requests, toSession, toServer>>
        BY <2>3 DEF SessionRead, serverVars, clientVars
      <3>2. Len(toSession) # 0
        BY <3>1 DEF CoreInv, Rings
      <3>3. AtTheEnd' = 0
        BY <3>1, <3>2 DEF AtTheEnd
      <3>4. Pending' = Pending /\ Len(toServer') = Len(toServer)
        BY <3>1 DEF Pending
      <3> QED BY <1>2, <3>3, <3>4
    <2>4. CASE EndOfBatch
      <3>1. inBatch /\ ~inBatch' /\ sessionBatch = 0 /\ \E q : Closes(q)
        BY <2>4, EndOfBatchIs
      <3>2. AtTheEnd = 1 /\ AtTheEnd' = 0
        BY <3>1 DEF AtTheEnd
      <3>3. /\ UNCHANGED <<requests, toSession>>
            /\ toServer' = toServer \/ toServer' = Push(toServer, UnregisterMsg)
        BY <3>1 DEF Closes, serverVars, clientVars
      <3>4. Len(toServer') <= Len(toServer) + 1
        <4>1. toServer \in Seq(ServerMessages) /\ Len(toServer) <= Bound
          BY DEF CoreInv, Rings
        <4>2. UnregisterMsg \in ServerMessages
          BY ServerMessageIs
        <4>3. Len(Push(toServer, UnregisterMsg)) \in Len(toServer)..(Len(toServer) + 1)
          BY <4>1, <4>2, PushIs
        <4> QED BY <1>2, <3>3, <4>3
      <3>5. Pending' = Pending
        BY <3>3 DEF Pending
      <3> QED BY <1>2, <3>2, <3>4, <3>5
    <2>5. ASSUME NEW q \in Players, Answer(q)
          PROVE  /\ Len(toServer') + 1 <= Len(toServer) + PerMessage
                 /\ Pending' + 1 <= Pending
      <3>1. PICK type \in ToSession : \E t, out : Answered(type, q, t, out)
        BY <2>5, AnswerIs DEF CoreInv
      <3>2. PICK t, out : Answered(type, q, t, out)
        BY <3>1
      <3>3. /\ requests' = requests /\ Len(toSession') = Len(toSession) - 1
            /\ Len(toServer') \in Len(toServer)..(Len(toServer) + MaxClients + 1)
        BY <3>2, AnswerCore
      <3>4. Len(toServer') + 1 <= Len(toServer) + PerMessage
        BY <1>2, <1>3, <3>3, Parameters DEF PerMessage
      <3>5. Pending' + 1 <= Pending
        BY <1>2, <1>3, <3>3 DEF Pending
      <3> QED BY <3>4, <3>5
    <2> QED BY <1>7, <2>1, <2>2, <2>3, <2>4, <2>5, NextIs
  <1> QED BY <1>6, <1>7

\* Where there is room for everything that may be asked, the next answer fits.
LEMMA BudgetRoomy ==
  ASSUME Needed <= Bound, CoreInv, Budget
  PROVE  Roomy
  <1> SUFFICES ASSUME sessionBatch > 0
               PROVE  Len(toServer) + MaxClients + 1 <= Bound
    BY DEF Roomy
  <1>1. /\ Len(toServer) \in Nat /\ Len(toSession) \in Nat /\ Pending \in Nat
        /\ AtTheEnd \in {0, 1} /\ PerMessage \in Nat /\ Needed \in Nat
        /\ requests \in Nat /\ MaxRequests \in Nat /\ requests <= MaxRequests
    BY BudgetTerms
  <1>2. sessionBatch \in 0..Len(toSession)
    BY DEF CoreInv, Rings
  <1>3. Pending >= 1
    BY <1>1, <1>2 DEF Pending
  <1>4. PerMessage * Pending \in Nat /\ PerMessage * 0 + PerMessage <= PerMessage * Pending
    BY <1>1, <1>3, Scaled
  <1> DEFINE x == PerMessage * Pending
  <1>5. x \in Nat /\ PerMessage <= x /\ Len(toServer) + x + AtTheEnd <= Needed
    BY <1>1, <1>4 DEF Budget
  <1> HIDE DEF x
  <1>6. Len(toServer) + PerMessage <= Bound
    BY <1>1, <1>5, Parameters
  <1> QED BY <1>1, <1>6, Parameters DEF PerMessage

\* The ring to the server never comes to be too full for an answer, if it holds
\* MaxClients + 2 messages for every request made.
THEOREM RoomForAnswers ==
  ASSUME (MaxClients + 2) * MaxRequests <= Bound
  PROVE  Spec => []Roomy
  <1>1. Needed <= Bound
    BY DEF Needed, PerMessage
  <1>2. CoreInv /\ Budget => Roomy
    BY <1>1, BudgetRoomy
  <1> QED BY <1>2, InitBudget, StepBudget, CoreInvariance, PTL DEF Spec

\* So until that many requests have been made the server and the session agree on
\* who is in it, whatever the users, the slots and the interleaving.
THEOREM ViewsAlwaysAgree ==
  ASSUME (MaxClients + 2) * MaxRequests <= Bound
  PROVE  Spec => []ViewsAgree
  BY RoomForAnswers, ViewsAgreeWhileRoomy, PTL
=============================================================================
