------------------------------ MODULE Sockets ------------------------------
(* The WebSocket server (src/ws/server.ts, src/ws/registry.ts) on top of Sessions: tickets, the
   checks of an upgrade, the registry of open sockets and the plan_changed events that close
   them. An upgrade is a request of Sessions with awaits of its own. What a user's effective
   plan is comes from the subscription row, which the Billing modules describe; here it changes
   by the events that matter to a socket. *)
EXTENDS Sessions

CONSTANTS MaxSockets, MaxTickets, MaxPlanChanges

SocketIds == 1..MaxSockets

ASSUME SocketsAssumption == {MaxSockets, MaxTickets} \subseteq Nat /\ MaxPlanChanges \in Nat \ {0}

VARIABLES
    plan,        \* the plan of the subscription row, by user
    changes,     \* plan changes so far
    tickets,     \* ws_ticket keys, by the session they name
    sockets,     \* the registry: [user, st], st one of "none", "open", "closing"; late (below)
    published,   \* per user: "no", "due" (row written, publish to come), "sent" (event on its way)
    closing,     \* the users whose plan handleUserEvent has read as free, about to close
    missed,      \* (history) users whose plan ended without an event that reached the server
    server       \* "off", "starting", "on", "deaf" (subscriber connection lost), "stopping"

socketVars == <<plan, changes, tickets, sockets, published, closing, missed, server>>
vars == <<sessionsVars, socketVars>>

NoSocket == [user |-> 0, st |-> "none", late |-> FALSE]

\* getEffectivePlan: no row, no plan.
getEffectivePlan(u) == IF users[u] = NoUser THEN "free" ELSE plan[u]

-----------------------------------------------------------------------------
(* Tickets and upgrades *)

issueWsTicket == /\ "ticket" \in ops
                 /\ \E s \in Sids : /\ requireAuth(s) /\ tickets[s] < MaxTickets
                                    /\ tickets' = [tickets EXCEPT ![s] = @ + 1]
                 /\ UNCHANGED <<sessionsVars, plan, changes, sockets, published, closing, missed, server>>

TicketExpires == /\ \E s \in Sids : tickets[s] > 0 /\ tickets' = [tickets EXCEPT ![s] = @ - 1]
                 /\ UNCHANGED <<sessionsVars, plan, changes, sockets, published, closing, missed, server>>

\* authorizeUpgrade: GETDEL of the ticket, ...
UpgradeTake(p) == /\ Starts(p, "ticket") /\ server \notin {"off"}
                  /\ \E s \in Sids : /\ tickets[s] > 0
                                     /\ tickets' = [tickets EXCEPT ![s] = @ - 1]
                                     /\ Goto(p, [First("ticket", "wsSession") EXCEPT !.sid = s])
                  /\ UNCHANGED <<dbVars, redisVars, historyVars, cut, ops, plan, changes, sockets,
                                 published, closing, missed, server>>

\* ... its session, ...
UpgradeSession(p) ==
    /\ At(p, "ticket", "wsSession")
    /\ IF requireAuth(req[p].sid)
       THEN Goto(p, [req[p] EXCEPT !.at = "wsPlan", !.id = sessions[req[p].sid].user])
       ELSE Done(p)
    /\ UNCHANGED <<dbVars, redisVars, historyVars, cut, ops, socketVars>>

\* ... and the plan of the user.
UpgradePlan(p) ==
    /\ At(p, "ticket", "wsPlan")
    /\ IF getEffectivePlan(req[p].id) = "free" THEN Done(p) ELSE To(p, "wsOpen")
    /\ UNCHANGED <<dbVars, redisVars, historyVars, cut, ops, socketVars>>

\* handleConnection registers the socket. late: the plan that was checked is no longer the plan.
\* After the server has stopped there is none to take the socket, and the request dies.
handleConnection(p) ==
    /\ At(p, "ticket", "wsOpen")
    /\ \/ /\ server # "off"
          /\ \E i \in SocketIds :
               /\ sockets[i] = NoSocket
               /\ sockets' = [sockets EXCEPT ![i] =
                    [user |-> req[p].id, st |-> "open", late |-> getEffectivePlan(req[p].id) = "free"]]
       \/ server = "off" /\ UNCHANGED sockets
    /\ Done(p)
    /\ UNCHANGED <<dbVars, redisVars, historyVars, cut, ops, plan, changes, tickets, published,
                   closing, missed, server>>

\* The close event of a socket: its client left, or answered our close frame.
unregisterSocket == /\ \E i \in SocketIds : /\ sockets[i] # NoSocket
                                            /\ sockets' = [sockets EXCEPT ![i] = NoSocket]
                    /\ UNCHANGED <<sessionsVars, plan, changes, tickets, published, closing, missed, server>>

-----------------------------------------------------------------------------
(* Plans and their events *)

PlanStarts(u) == /\ "plan" \in ops /\ users[u] # NoUser /\ plan[u] = "free"
                 /\ changes < (IF "again" \in ops THEN MaxPlanChanges ELSE 1)
                 /\ plan' = [plan EXCEPT ![u] = "pro"] /\ changes' = changes + 1
                 /\ missed' = missed \ {u}
                 /\ sockets' = [i \in SocketIds |-> IF sockets[i].user = u
                                                    THEN [sockets[i] EXCEPT !.late = FALSE] ELSE sockets[i]]
                 /\ UNCHANGED <<sessionsVars, tickets, published, closing, server>>

\* The row is written (customer.subscription.deleted, .updated); its event is still to be sent.
PlanEnds(u) == /\ plan[u] = "pro" /\ published[u] = "no"
               /\ plan' = [plan EXCEPT ![u] = "free"]
               /\ published' = [published EXCEPT ![u] = "due"]
               /\ UNCHANGED <<sessionsVars, changes, tickets, sockets, closing, missed, server>>

\* The period of a cancelled plan runs out: no write, no event.
PlanLapses(u) == /\ plan[u] = "pro"
                 /\ plan' = [plan EXCEPT ![u] = "free"] /\ missed' = missed \cup {u}
                 /\ UNCHANGED <<sessionsVars, changes, tickets, sockets, published, closing, server>>

\* PUBLISH reaches a subscriber that is there, or fails, or nobody listens.
Publish(u) == /\ published[u] = "due"
              /\ \/ server = "on" /\ published' = [published EXCEPT ![u] = "sent"] /\ UNCHANGED missed
                 \/ published' = [published EXCEPT ![u] = "no"] /\ missed' = missed \cup {u}
              /\ UNCHANGED <<sessionsVars, plan, changes, tickets, sockets, closing, server>>

\* handleUserEvent: the plan is read again, and if it is free ...
UserEvent(u) == /\ published[u] = "sent"
                /\ published' = [published EXCEPT ![u] = "no"]
                /\ closing' = IF getEffectivePlan(u) = "free" THEN closing \cup {u} ELSE closing
                /\ UNCHANGED <<sessionsVars, plan, changes, tickets, sockets, missed, server>>

\* ... every open socket of the user is told and closed.
closeOneSocket(u) == IF \A i \in SocketIds : sockets[i].user # u \/ sockets[i].st # "open" THEN sockets
                     ELSE LET i == CHOOSE i \in SocketIds : sockets[i].user = u /\ sockets[i].st = "open"
                          IN  [sockets EXCEPT ![i].st = "closing"]
closeSocketsOf(u) == [i \in SocketIds |-> IF sockets[i].user = u /\ sockets[i].st = "open"
                                          THEN [sockets[i] EXCEPT !.st = "closing"] ELSE sockets[i]]
handleUserEvent(u) == /\ u \in closing
                      /\ closing' = closing \ {u}
                      /\ sockets' = closeSocketsOf(u)
                      /\ UNCHANGED <<sessionsVars, plan, changes, tickets, published, missed, server>>

-----------------------------------------------------------------------------
(* The server *)

\* startWsServer: upgrades are taken from the moment the listener is on; the subscriptions
\* follow, and when they cannot be had the listener is taken off again.
startWsServer == /\ "ticket" \in ops
                 /\ \/ server = "off" /\ changes = 0 /\ server' = "starting"
                    \/ server = "starting" /\ server' \in {"on", "off"}
                 /\ UNCHANGED <<sessionsVars, plan, changes, tickets, sockets, published, closing, missed>>

\* The subscriber's connection drops (ioredis subscribes again when it is back). What was on its
\* way is lost.
SubscriberDrops == /\ "drop" \in ops
                   /\ \/ /\ server = "on" /\ server' = "deaf"
                         /\ missed' = missed \cup {u \in UserIds : published[u] = "sent"}
                         /\ published' = [u \in UserIds |-> IF published[u] = "sent" THEN "no" ELSE published[u]]
                      \/ server = "deaf" /\ server' = "on" /\ UNCHANGED <<missed, published>>
                   /\ UNCHANGED <<sessionsVars, plan, changes, tickets, sockets, closing>>

\* stopWsServer: the registered sockets are terminated and forgotten; the listener is taken off
\* after the subscriptions have been given up.
stopWsServer == /\ "stop" \in ops
                /\ \/ /\ server \in {"on", "deaf"} /\ server' = "stopping"
                      /\ sockets' = [i \in SocketIds |-> NoSocket]
                   \/ server = "stopping" /\ server' = "off" /\ UNCHANGED sockets
                /\ UNCHANGED <<sessionsVars, plan, changes, tickets, published, closing, missed>>

Init == /\ SessionsInit
        /\ plan = [u \in UserIds |-> "free"] /\ changes = 0 /\ tickets = [s \in Sids |-> 0]
        /\ sockets = [i \in SocketIds |-> NoSocket] /\ published = [u \in UserIds |-> "no"]
        /\ closing = {} /\ missed = {} /\ server = "off"

Upgrade(p) == UpgradeTake(p) \/ UpgradeSession(p) \/ UpgradePlan(p) \/ handleConnection(p)
Events(u) == PlanStarts(u) \/ PlanEnds(u) \/ PlanLapses(u) \/ Publish(u) \/ UserEvent(u) \/ handleUserEvent(u)

Next == \/ SessionsNext /\ UNCHANGED socketVars
        \/ \E p \in Procs : Upgrade(p)
        \/ \E u \in UserIds : Events(u)
        \/ issueWsTicket \/ TicketExpires \/ unregisterSocket
        \/ startWsServer \/ SubscriberDrops \/ stopWsServer

Spec == Init /\ [][Next]_vars

-----------------------------------------------------------------------------
(* Properties *)

\* Types of both parts.
TypeOK == /\ SessionsTypeOK
          /\ plan \in [UserIds -> {"free", "pro"}] /\ changes \in 0..MaxPlanChanges
          /\ tickets \in [Sids -> 0..MaxTickets]
          /\ sockets \in [SocketIds -> [user : 0..MaxUsers, late : {TRUE, FALSE},
                                        st : {"none", "open", "closing"}]]
          /\ published \in [UserIds -> {"no", "due", "sent"}]
          /\ closing \subseteq UserIds /\ missed \subseteq UserIds
          /\ server \in {"off", "starting", "on", "deaf", "stopping"}

\* A user whose plan has ended has no open socket once the event has been handled. The excuses
\* are the ways in which an event misses a socket: it was never sent or nobody listened, or the
\* upgrade had read the old plan and registered its socket late.
FreeHasNoSocket ==
    \A u \in UserIds :
        (users[u] # NoUser /\ plan[u] = "free" /\ published[u] = "no" /\ u \notin closing \cup missed) =>
        \A i \in SocketIds : (sockets[i].user = u /\ sockets[i].st = "open") => sockets[i].late
=============================================================================
