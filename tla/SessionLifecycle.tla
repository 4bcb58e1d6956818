-------------------------- MODULE SessionLifecycle --------------------------
(***************************************************************************)
(* The life of one session, from PKT_SESSION_CREATE to its removal from    *)
(* the server's table: the server's thread (src/Server), the session's     *)
(* thread (src/Session) and the two directions of the bus between them.    *)
(* The session's record and what a message does to it are those of         *)
(* Session; no game is started here, since a game changes no membership.   *)
(*                                                                         *)
(* A push and its write to the eventfd are one step: SessionBus shows that *)
(* the counter and the batch account for the messages in the ring.  What   *)
(* is announced and not yet read is therefore the length of the queue less *)
(* the batch being handled and less the messages a broken batch stranded.  *)
(***************************************************************************)
EXTENDS Integers, Sequences, SequencesExt

CONSTANTS Players,      \* user ids
          MaxClients,   \* slots of the session
          Bound,        \* capacity of a ring less its unused slot
          MaxRequests   \* bound on the packets and lost connections explored

\* init_session makes 20 slots; init_game counts them in a uint8_t.
ASSUME LifecycleAssumption ==
  /\ Players \subseteq Nat \ {0}
  /\ MaxClients \in 2..254 /\ Bound \in Nat /\ MaxRequests \in Nat

VARIABLES
  registered,     \* server->registered_players
  online,         \* the players with a connection (player->conn)
  in_session,     \* the players whose player->session_id is the session's
  registrations,  \* how many times each user id was given out
  phase,          \* is the session in server->registered_sessions
  crashed,        \* the server used what unregister_session has freed
  requests,       \* packets and lost connections so far
  toSession, toServer,      \* the rings bus->read and bus->write
  serverBatch, stranded,    \* handle_bus_message: count, and those left behind
  session,                  \* session_t
  inBatch, sessionBatch     \* session_main: in the loop's body, count

clientVars == <<registered, online, in_session, registrations, requests>>
serverVars == <<clientVars, phase, crashed, serverBatch, stranded>>
sessionVars == <<session, inBatch, sessionBatch>>
vars == <<serverVars, sessionVars, toSession, toServer>>

NoClient == 0   \* the user id of a free slot

S == INSTANCE Session WITH
       Clients <- Players, GameCapacity <- MaxClients, Shuffles <- {},
       DefaultRules <- [nbrLign |-> 1, nbrCardsLign |-> 1, nbHead |-> 1,
                        nbrCardsPlayer |-> 1, nbrCards |-> 1 + MaxClients],
       RuleSets <- {},
       MaxDeals <- 0, BusMayFill <- FALSE, MidGameStart <- FALSE,
       deals <- 0, fault <- FALSE

Msg(type, user) == [type |-> type, user |-> user]
UnregisterMsg == Msg("SESSION_UNREGISTER", NoClient)

ToSession == {"JOIN", "LEAVE", "CLOSE", "USER_UNREGISTER", "USER_LEFT"}
ToServer == {"USER_CONNECTED", "USER_DISCONNECTED", "SESSION_UNREGISTER"}

Init ==
  /\ registered = {} /\ online = {} /\ in_session = {}
  /\ registrations = [p \in Players |-> 0]
  /\ phase = "none" /\ crashed = FALSE /\ requests = 0
  /\ toSession = << >> /\ toServer = << >>
  /\ serverBatch = 0 /\ stranded = 0
  /\ S!Init
  /\ inBatch = FALSE /\ sessionBatch = 0

-----------------------------------------------------------------------------
(* session_bus_push, a message that does not fit being dropped *)

Push(queue, m) == IF Len(queue) < Bound THEN Append(queue, m) ELSE queue

\* Several pushes, one after the other: those before the ring is full arrive.
PushAll(queue, ms) == queue \o SubSeq(ms, 1, Min({Len(ms), Bound - Len(queue)}))

\* send_message_to_session and send_system_message_to_session look the session
\* up first.
SendToSession(type, p) ==
  toSession' = IF phase = "registered" THEN Push(toSession, Msg(type, p))
                                       ELSE toSession

-----------------------------------------------------------------------------
(* The server's thread: packets and connections of the clients *)

\* The thread is not in the middle of a batch of the bus.
Serving == /\ ~crashed /\ serverBatch = 0
           /\ requests < MaxRequests /\ requests' = requests + 1
           /\ UNCHANGED <<crashed, serverBatch, stranded, toServer, sessionVars>>

\* PKT_REGISTER: get_new_client_id gives out the lowest free id, which may have
\* been somebody else's.
Register(p) ==
  /\ p \notin registered /\ \A q \in Players \ registered : p <= q
  /\ Serving
  /\ registered' = registered \cup {p} /\ online' = online \cup {p}
  /\ registrations' = [registrations EXCEPT ![p] = @ + 1]
  /\ UNCHANGED <<in_session, phase, toSession>>

\* PKT_SESSION_CREATE: create_new_session, then the creator's JOIN.
Create(p) ==
  /\ p \in online \ in_session /\ phase = "none"
  /\ Serving
  /\ phase' = "registered"
  /\ toSession' = Push(toSession, Msg("JOIN", p))
  /\ UNCHANGED <<registered, online, in_session, registrations>>

\* PKT_SESSION_JOIN, whether or not p is in the session already.
Join(p) ==
  /\ p \in online /\ phase = "registered"
  /\ Serving /\ SendToSession("JOIN", p)
  /\ UNCHANGED <<registered, online, in_session, registrations, phase>>

\* PKT_SESSION_LEAVE and PKT_SESSION_CLOSE, forwarded like any other packet.
Forward(p) ==
  /\ p \in online \cap in_session
  /\ Serving
  /\ \E type \in {"LEAVE", "CLOSE"} : SendToSession(type, p)
  /\ UNCHANGED <<registered, online, in_session, registrations, phase>>

\* Faulty variant: the connection keeps its player.
UnregisterKeepingConn(p) ==
  /\ p \in online
  /\ Serving
  /\ IF p \in in_session THEN SendToSession("USER_UNREGISTER", p)
                         ELSE UNCHANGED toSession
  /\ registered' = registered \ {p} /\ in_session' = in_session \ {p}
  /\ UNCHANGED <<online, registrations, phase>>

\* PKT_UNREGISTER: unregister_client.
Unregister(p) ==
  /\ p \in online
  /\ Serving
  /\ IF p \in in_session THEN SendToSession("USER_UNREGISTER", p)
                         ELSE UNCHANGED toSession
  /\ registered' = registered \ {p} /\ in_session' = in_session \ {p}
  /\ online' = online \ {p}
  /\ UNCHANGED <<registrations, phase>>

\* cleanup_connection and disconnect_client.
Disconnect(p) ==
  /\ p \in online
  /\ Serving
  /\ IF p \in in_session THEN SendToSession("USER_LEFT", p)
                         ELSE UNCHANGED toSession
  /\ online' = online \ {p}
  /\ UNCHANGED <<registered, in_session, registrations, phase>>

\* PKT_RECONNECT: reconnect_client.  A connection that p still has is cleaned
\* up; a player whose connection asks to be p loses it without a word.
Reconnect(p) ==
  /\ p \in registered
  /\ Serving
  /\ IF p \in online \cap in_session THEN SendToSession("USER_LEFT", p)
                                     ELSE UNCHANGED toSession
  /\ \E previous \in SUBSET (online \ {p}) :
       /\ \A q, r \in previous : q = r
       /\ online' = (online \ previous) \cup {p}
  /\ UNCHANGED <<registered, in_session, registrations, phase>>

-----------------------------------------------------------------------------
(* The server's thread: handle_bus_message *)

\* After unregister_session the eventfd is no longer watched.
ServerRead ==
  /\ ~crashed /\ serverBatch = 0 /\ phase = "registered"
  /\ Len(toServer) > stranded
  /\ serverBatch' = Len(toServer) - stranded
  /\ UNCHANGED <<clientVars, phase, crashed, stranded, sessionVars, toSession, toServer>>

Popping(types) == /\ ~crashed /\ serverBatch > 0
                  /\ Head(toServer).type \in types
                  /\ toServer' = Tail(toServer)
                  /\ UNCHANGED <<sessionVars, requests, registrations>>

\* SESSION_UNREGISTER: unregister_session.  It looks the session up to send it
\* SESSION_UNREGISTERED only after it has removed it, so nothing is sent, and
\* the session's case for that message is never run.
UnregisterSession ==
  /\ Popping({"SESSION_UNREGISTER"})
  /\ serverBatch' = serverBatch - 1
  /\ phase' = "unregistered"
  /\ UNCHANGED <<registered, online, in_session, crashed, stranded, toSession>>

\* USER_CONNECTED and USER_DISCONNECTED about a registered player.
UpdatePlayer ==
  LET m == Head(toServer)
  IN  /\ phase = "registered"
      /\ Popping({"USER_CONNECTED", "USER_DISCONNECTED"})
      /\ m.user \in registered
      /\ serverBatch' = serverBatch - 1
      /\ in_session' = IF m.type = "USER_CONNECTED" THEN in_session \cup {m.user}
                                                    ELSE in_session \ {m.user}
      /\ UNCHANGED <<registered, online, phase, crashed, stranded, toSession>>

\* The same about anybody else: if (!player) break.
BreakBatch ==
  /\ Popping({"USER_CONNECTED", "USER_DISCONNECTED"})
  /\ Head(toServer).user \notin registered
  /\ stranded' = stranded + (serverBatch - 1)
  /\ serverBatch' = 0
  /\ UNCHANGED <<registered, online, in_session, phase, crashed, toSession>>

\* The rest of a batch after unregister_session: the loop reads the response it
\* has freed, and session_info is null.  The read may still find the ring, in
\* which case SESSION_UNREGISTER and BreakBatch go on as above.
UseAfterUnregister ==
  /\ ~crashed /\ serverBatch > 0 /\ phase = "unregistered"
  /\ crashed' = TRUE
  /\ UNCHANGED <<clientVars, phase, serverBatch, stranded, sessionVars,
                 toSession, toServer>>

ServerBus == ServerRead \/ UnregisterSession \/ UpdatePlayer \/ BreakBatch
             \/ UseAfterUnregister

-----------------------------------------------------------------------------
(* The session's thread: session_main *)

\* Once it has asked to be unregistered the loop does not read any more.
SessionRead ==
  /\ ~crashed /\ ~inBatch /\ session.unregister_send = 0
  /\ toSession # << >>
  /\ inBatch' = TRUE /\ sessionBatch' = Len(toSession)
  /\ UNCHANGED <<serverVars, session, toSession, toServer>>

\* The next message of the batch is of that type and about p; the session's
\* record becomes s and the messages of out are sent to the server.
Turn(type, p) == /\ ~crashed /\ sessionBatch > 0
                    /\ Head(toSession) = Msg(type, p)

Handled(s, out) == /\ session' = s
                   /\ toServer' = PushAll(toServer, out)
                   /\ toSession' = Tail(toSession)
                   /\ sessionBatch' = sessionBatch - 1
                   /\ UNCHANGED <<serverVars, inBatch>>

\* USER_DISCONNECTED for every client, in the order of the slots.
DisconnectAll ==
  LET told[n \in 0..MaxClients] ==
        IF n = 0 THEN << >>
        ELSE IF session.player_id[n - 1] = NoClient THEN told[n - 1]
        ELSE Append(told[n - 1], Msg("USER_DISCONNECTED", session.player_id[n - 1]))
  IN  told[MaxClients]

\* Faulty variant: the JOIN does not take the request to be unregistered back.
HandleJoinForgetful(p) ==
  /\ Turn("JOIN", p)
  /\ IF S!Admissible(session, p)
     THEN Handled([S!AfterJoin(session, p)
                     EXCEPT !.unregister_send = session.unregister_send],
                  <<Msg("USER_CONNECTED", p)>>)
     ELSE Handled(session, << >>)

HandleJoin(p) ==
  /\ Turn("JOIN", p)
  /\ IF S!Admissible(session, p)
     THEN Handled(S!AfterJoin(session, p), <<Msg("USER_CONNECTED", p)>>)
     ELSE Handled(session, << >>)

\* remove_player returns 0 for a stranger too, so he is disconnected as well.
HandleLeave(p) ==
  /\ Turn("LEAVE", p)
  /\ Handled(S!RemovePlayer(session, p, TRUE), <<Msg("USER_DISCONNECTED", p)>>)

HandleClose(p) ==
  /\ Turn("CLOSE", p)
  /\ IF p = session.id_creator
     THEN Handled(S!AfterClose(session, TRUE),
                  IF session.unregister_send = 0
                  THEN Append(DisconnectAll, UnregisterMsg) ELSE DisconnectAll)
     ELSE Handled(session, << >>)

HandleUserUnregister(p) ==
  /\ Turn("USER_UNREGISTER", p)
  /\ Handled(S!RemovePlayer(session, p, TRUE), << >>)

\* Faulty variant: nobody is told that the last connected client has gone.
HandleUserLeftSilently(p) ==
  /\ Turn("USER_LEFT", p)
  /\ IF S!Member(session, p)
     THEN LET s == S!AfterUserLeft(session, p, TRUE)
          IN  Handled(s, IF s.number_clients = 0 THEN <<UnregisterMsg>> ELSE << >>)
     ELSE Handled(session, << >>)

HandleUserLeft(p) ==
  /\ Turn("USER_LEFT", p)
  /\ IF S!Member(session, p)
     THEN LET s == S!AfterUserLeft(session, p, TRUE)
          IN  Handled(s, IF s.number_clients = 0
                         THEN Append(DisconnectAll, UnregisterMsg) ELSE << >>)
     ELSE Handled(session, << >>)

\* Faulty variant: the empty session marks itself and sends nothing.
EndOfBatchSilent ==
  /\ ~crashed /\ inBatch /\ sessionBatch = 0
  /\ inBatch' = FALSE
  /\ session' = IF session.number_clients = 0
                THEN [session EXCEPT !.unregister_send = 1] ELSE session
  /\ UNCHANGED <<serverVars, sessionBatch, toSession, toServer>>

\* The end of the loop's body: an empty session asks to be unregistered.
EndOfBatch ==
  /\ ~crashed /\ inBatch /\ sessionBatch = 0
  /\ inBatch' = FALSE
  /\ IF session.number_clients = 0 /\ session.unregister_send = 0
     THEN /\ session' = [session EXCEPT !.unregister_send = 1]
          /\ toServer' = Push(toServer, UnregisterMsg)
     ELSE UNCHANGED <<session, toServer>>
  /\ UNCHANGED <<serverVars, sessionBatch, toSession>>

SessionThread ==
  \/ SessionRead \/ EndOfBatch
  \/ \E p \in Players : \/ HandleJoin(p) \/ HandleLeave(p) \/ HandleClose(p)
                        \/ HandleUserUnregister(p) \/ HandleUserLeft(p)

-----------------------------------------------------------------------------
ClientRequest ==
  \E p \in Players : \/ Register(p) \/ Create(p) \/ Join(p) \/ Forward(p)
                     \/ Unregister(p) \/ Disconnect(p) \/ Reconnect(p)

Next == ClientRequest \/ ServerBus \/ SessionThread

\* Both threads run; the clients need not do anything.
Fairness == WF_vars(ServerBus) /\ WF_vars(SessionThread)

Spec == Init /\ [][Next]_vars /\ Fairness

-----------------------------------------------------------------------------
(* Properties *)

TypeOK ==
  /\ registered \subseteq Players
  /\ online \subseteq registered /\ in_session \subseteq registered
  /\ registrations \in [Players -> 0..MaxRequests]
  /\ phase \in {"none", "registered", "unregistered"}
  /\ crashed \in BOOLEAN /\ requests \in 0..MaxRequests
  /\ toSession \in Seq([type : ToSession, user : Players \cup {NoClient}])
  /\ toServer \in Seq([type : ToServer, user : Players \cup {NoClient}])
  /\ Len(toSession) <= Bound /\ Len(toServer) <= Bound
  /\ sessionBatch \in 0..Len(toSession)
  /\ serverBatch + stranded \in 0..Len(toServer)
  /\ inBatch \in BOOLEAN

\* What a server for which the players of A are in the session will believe
\* about p once it has handled the messages of queue: what the last about p says.
Believed(queue, A, p) ==
  LET about == {k \in DOMAIN queue : queue[k].user = p}
  IN  IF about = {} THEN p \in A ELSE queue[Max(about)].type = "USER_CONNECTED"

Announced(p) == Believed(toServer, in_session, p)

\* The server's idea of who is in the session, brought up to date with the
\* messages under way, is the session's own, whatever the interleaving of joins,
\* leaves, closing, lost connections and reconnections: nobody's packets go to a
\* session that does not know him, nobody sits in a session unknown to the
\* server.  It holds for users whose id has had one owner and as long as no
\* message to the server was lost on a full ring.
ViewsAgree ==
  \A p \in registered :
    registrations[p] = 1 => (Announced(p) <=> S!Member(session, p))

\* The session asks to be removed only while nobody is in it, so a client that
\* joined is never in a session whose thread has stopped reading.
AsksWhenEmpty == session.unregister_send = 1 => session.number_clients = 0

\* A session that has asked to be removed is removed, unless the server left a
\* batch half read or was brought down.
UnregisterHandled ==
  session.unregister_send = 1
    ~> phase = "unregistered" \/ stranded > 0 \/ crashed

\* README.md:22, a session "gerant ses propres ressources et son cycle de vie":
\* a session that has asked to be removed is removed from the server's table.
UnregisterAlwaysHandled ==
  session.unregister_send = 1 ~> phase = "unregistered" \/ crashed

\* README.md:10, "une isolation des pannes": the end of one session does not
\* bring the server down.
ServerSurvives == ~crashed
=============================================================================
