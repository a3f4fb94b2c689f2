----------------------------- MODULE AgentLink -----------------------------
(***************************************************************************)
(* The life of an agent's link on the relay: serveConn and controlLoop of  *)
(* pkg/edge/edge.go from HELLO to teardown, the directory of               *)
(* pkg/registry/registry.go, the allocations the link's agent owns on the  *)
(* forward plane, and Drain, which sends every agent away.  A link is one  *)
(* connection; an agent that reconnects has a new link under its old URI.  *)
(* The controller is outside the relay: it may apply a call late, after    *)
(* the relay has given it up.                                              *)
(***************************************************************************)
EXTENDS Integers, FiniteSets, Functions

CONSTANTS
    Links,     \* connections agents may make
    Uris       \* the agents' URIs

VARIABLES
    uriOf,        \* link -> the URI of its certificate
    ctx,          \* is the relay's root context alive?
    conn,         \* link -> is its connection open?
    pc,           \* where serveConn of this link is
    register,     \* where the controlLoop's REGISTER of this link is
    dereg,        \* a given-up DeregisterAgent call: may be applied, was applied late
    agentConns,   \* Registry.agentConns: URI -> link
    agents,       \* Server.agents
    rows,         \* URIs with a service of this relay at the controller
    parked,       \* links with a FORWARD_RESUME half in the forwardMatcher
    allocs,       \* links for whose agent a forward allocation is held
    drain,        \* Drain: where it is, who was sent away, who remains
    overlapped    \* history: links that met another link of their agent here

vars == <<uriOf, ctx, conn, pc, register, dereg, agentConns, agents, rows, parked, allocs,
          drain, overlapped>>

Without(m, S) == Restrict(m, DOMAIN m \ S)
Put(m, k, v) == [x \in DOMAIN m \cup {k} |-> IF x = k THEN v ELSE m[x]]
Goto(l, from, to) == pc[l] = from /\ pc' = [pc EXCEPT ![l] = to]
Close(L) == [l \in Links |-> conn[l] /\ l \notin L]

Init ==
    /\ uriOf \in [Links -> Uris]
    /\ ctx = TRUE
    /\ conn = [l \in Links |-> FALSE]
    /\ pc = [l \in Links |-> "new"]
    /\ register = [l \in Links |-> "idle"]
    /\ dereg = [l \in Links |-> "none"]
    /\ agentConns = << >>
    /\ agents = {} /\ rows = {} /\ parked = {} /\ allocs = {}
    /\ drain = [pc |-> "idle", told |-> {}, todo |-> {}, remaining |-> {}]
    /\ overlapped = {}

-----------------------------------------------------------------------------
(* serveConn *)

\* The other links of this agent that are not torn down yet: an agent that
\* reconnects does not wait for the relay to notice that its old link is dead.
Others(l) == {k \in Links \ {l} : uriOf[k] = uriOf[l] /\ pc[k] \notin {"new", "gone"}}

\* The handshake, up to the HELLO_ACK.
Hello(l) ==
    /\ ctx
    /\ Goto(l, "new", "hello")
    /\ conn' = [conn EXCEPT ![l] = TRUE]
    /\ overlapped' = overlapped \cup Others(l) \cup {k \in {l} : Others(l) # {}}
    /\ UNCHANGED <<uriOf, dereg, ctx, register, agentConns, agents, rows, parked, allocs, drain>>

RegisterAgent(l) ==
    /\ Goto(l, "hello", "registered")
    /\ agentConns' = Put(agentConns, uriOf[l], l)
    /\ UNCHANGED <<uriOf, dereg, overlapped, ctx, conn, register, agents, rows, parked, allocs, drain>>

trackAgent(l) ==
    /\ Goto(l, "registered", "serving")
    /\ agents' = agents \cup {l}
    /\ UNCHANGED <<uriOf, dereg, overlapped, ctx, conn, register, agentConns, rows, parked, allocs, drain>>

\* AcceptStream fails: the link is closed, or the relay is stopping.
AcceptFails(l) ==
    /\ ~conn[l] \/ ~ctx
    /\ Goto(l, "serving", "untrack")
    /\ UNCHANGED <<uriOf, dereg, overlapped, ctx, conn, register, agentConns, agents, rows, parked, allocs, drain>>

untrackAgent(l) ==
    /\ Goto(l, "untrack", "unregister")
    /\ agents' = agents \ {l}
    /\ UNCHANGED <<uriOf, dereg, overlapped, ctx, conn, register, agentConns, rows, parked, allocs, drain>>

\* Mutant: every entry is dropped.
UnregisterAgentAll(l) ==
    /\ Goto(l, "unregister", "deregister")
    /\ agentConns' = << >>
    /\ UNCHANGED <<uriOf, dereg, overlapped, ctx, conn, register, agents, rows, parked, allocs, drain>>

\* Mutant: the local entry is left.
UnregisterAgentSkips(l) ==
    /\ Goto(l, "unregister", "deregister")
    /\ agentConns' = agentConns
    /\ UNCHANGED <<uriOf, dereg, overlapped, ctx, conn, register, agents, rows, parked, allocs, drain>>

\* UnregisterAgent, first half: the local map, by URI.
UnregisterAgent(l) ==
    /\ Goto(l, "unregister", "deregister")
    /\ agentConns' = Without(agentConns, {uriOf[l]})
    /\ UNCHANGED <<uriOf, dereg, overlapped, ctx, conn, register, agents, rows, parked, allocs, drain>>

\* Mutant: the call names the relay only.
DeregisterAgentAll(l) ==
    /\ Goto(l, "deregister", "forget")
    /\ rows' = {}
    /\ UNCHANGED <<uriOf, dereg, overlapped, ctx, conn, register, agentConns, agents, parked, allocs, drain>>

\* Second half: the call to the controller.  It is applied, or fails, which is
\* only logged: the controller may still apply it later, or never.
DeregisterAgent(l) ==
    /\ Goto(l, "deregister", "forget")
    /\ \/ ctx /\ rows' = rows \ {uriOf[l]} /\ UNCHANGED dereg
       \/ ctx /\ dereg' = [dereg EXCEPT ![l] = "gaveup"] /\ UNCHANGED rows
       \/ ~ctx /\ UNCHANGED <<rows, dereg>>
    /\ UNCHANGED <<uriOf, overlapped, ctx, conn, register, agentConns, agents, parked, allocs, drain>>

\* Mutant: every allocation is dropped.
ForgetAgentAll(l) ==
    /\ Goto(l, "forget", "gone")
    /\ allocs' = {}
    /\ conn' = Close({l})
    /\ UNCHANGED <<uriOf, dereg, overlapped, ctx, register, agentConns, agents, rows, parked, drain>>

\* The plane drops every allocation of the URI; the connection is closed.
ForgetAgent(l) ==
    /\ Goto(l, "forget", "gone")
    /\ allocs' = {k \in allocs : uriOf[k] # uriOf[l]}
    /\ conn' = Close({l})
    /\ UNCHANGED <<uriOf, dereg, overlapped, ctx, register, agentConns, agents, rows, parked, drain>>

Serve(l) ==
    \/ RegisterAgent(l) \/ trackAgent(l) \/ AcceptFails(l) \/ untrackAgent(l)
    \/ UnregisterAgent(l) \/ DeregisterAgent(l) \/ ForgetAgent(l)

\* The agent leaves, or the network drops the link.
Disconnect(l) ==
    /\ conn[l]
    /\ conn' = Close({l})
    /\ UNCHANGED <<uriOf, dereg, overlapped, ctx, pc, register, agentConns, agents, rows, parked, allocs, drain>>

-----------------------------------------------------------------------------
(* The control loop, and the controller's side of the two calls *)

handleRegister(l) ==
    /\ pc[l] = "serving" /\ conn[l] /\ register[l] = "idle"
    /\ register' = [register EXCEPT ![l] = "calling"]
    /\ UNCHANGED <<uriOf, dereg, overlapped, ctx, conn, pc, agentConns, agents, rows, parked, allocs, drain>>

\* The controller applies the call, even one whose caller has given up.
ControllerRegisters(l) ==
    /\ register[l] \in {"calling", "failed"}
    /\ rows' = rows \cup {uriOf[l]}
    /\ register' = [register EXCEPT ![l] = IF @ = "calling" THEN "applied" ELSE "idle"]
    /\ UNCHANGED <<uriOf, dereg, overlapped, ctx, conn, pc, agentConns, agents, parked, allocs, drain>>

\* The controller applies a DeregisterAgent the relay has given up.
ControllerDeregisters(l) ==
    /\ dereg[l] = "gaveup"
    /\ dereg' = [dereg EXCEPT ![l] = "late"]
    /\ rows' = rows \ {uriOf[l]}
    /\ UNCHANGED <<uriOf, overlapped, ctx, conn, pc, register, agentConns, agents, parked, allocs, drain>>

RegisterAck(l) ==
    /\ register[l] = "applied"
    /\ register' = [register EXCEPT ![l] = "acked"]
    /\ UNCHANGED <<uriOf, dereg, overlapped, ctx, conn, pc, agentConns, agents, rows, parked, allocs, drain>>

\* An error, the 15 s bound or the link's cancelled context: close the link.
RegisterFails(l) ==
    /\ register[l] \in {"calling", "applied"}
    /\ register' = [register EXCEPT ![l] = IF @ = "calling" THEN "failed" ELSE "idle"]
    /\ conn' = Close({l})
    /\ UNCHANGED <<uriOf, dereg, overlapped, ctx, pc, agentConns, agents, rows, parked, allocs, drain>>

handleForwardResume(l) ==
    /\ pc[l] = "serving" /\ conn[l] /\ l \notin allocs
    /\ parked' = parked \cup {l}
    /\ UNCHANGED <<uriOf, dereg, overlapped, ctx, conn, pc, register, agentConns, agents, rows, allocs, drain>>

\* The half is paired and its driver allocates for both agents, or it expires.
driveForwardResume(l) ==
    /\ l \in parked
    /\ parked' = parked \ {l}
    /\ allocs' \in {allocs, allocs \cup {l}}
    /\ UNCHANGED <<uriOf, dereg, overlapped, ctx, conn, pc, register, agentConns, agents, rows, drain>>

-----------------------------------------------------------------------------
(* Drain *)

DrainStart ==
    /\ drain.pc = "idle" /\ ctx
    /\ drain' = [drain EXCEPT !.pc = "goaway", !.told = agents, !.todo = agents]
    /\ UNCHANGED <<uriOf, dereg, overlapped, ctx, conn, pc, register, agentConns, agents, rows, parked, allocs>>

\* Write GOAWAY; a failed write closes the link.
DrainGoaway(l) ==
    /\ drain.pc = "goaway" /\ l \in drain.todo
    /\ drain' = [drain EXCEPT !.todo = @ \ {l}]
    /\ conn' \in {Close({l})} \cup (IF conn[l] THEN {conn} ELSE {})
    /\ UNCHANGED <<uriOf, dereg, overlapped, ctx, pc, register, agentConns, agents, rows, parked, allocs>>

DrainPoll ==
    /\ drain.pc = "goaway" /\ drain.todo = {}
    /\ drain' = [drain EXCEPT !.remaining = agents,
                              !.pc = IF agents = {} THEN "returned" ELSE "select"]
    /\ UNCHANGED <<uriOf, dereg, overlapped, ctx, conn, pc, register, agentConns, agents, rows, parked, allocs>>

\* The select is left, and the poll's `remaining' goes out of scope.
DrainLeaves(to) == drain' = [drain EXCEPT !.pc = to, !.remaining = {}]

\* Mutant: the deadline returns without closing the stragglers.
DrainSelectLenient ==
    /\ drain.pc = "select"
    /\ DrainLeaves("returned")
    /\ UNCHANGED <<uriOf, dereg, overlapped, ctx, conn, pc, register, agentConns, agents, rows, parked, allocs>>

\* The select: the next poll, the deadline, or the end of the relay.
DrainSelect ==
    /\ drain.pc = "select"
    /\ \/ DrainLeaves("goaway") /\ UNCHANGED conn
       \/ DrainLeaves("returned") /\ conn' = Close(drain.remaining)
       \/ ~ctx /\ DrainLeaves("returned") /\ UNCHANGED conn
    /\ UNCHANGED <<uriOf, dereg, overlapped, ctx, pc, register, agentConns, agents, rows, parked, allocs>>

\* A signal, or the end of the drain a signal started, stops the relay.
Cancel ==
    /\ ctx /\ ctx' = FALSE
    /\ UNCHANGED <<uriOf, dereg, overlapped, conn, pc, register, agentConns, agents, rows, parked, allocs, drain>>

Drain == DrainStart \/ DrainPoll \/ DrainSelect \/ \E l \in Links : DrainGoaway(l)

Next ==
    \/ \E l \in Links :
          \/ Hello(l) \/ Serve(l) \/ Disconnect(l)
          \/ handleRegister(l) \/ ControllerRegisters(l) \/ RegisterAck(l) \/ RegisterFails(l)
          \/ ControllerDeregisters(l) \/ handleForwardResume(l) \/ driveForwardResume(l)
    \/ Drain \/ Cancel

Spec == Init /\ [][Next]_vars

-----------------------------------------------------------------------------
\* Every variable has its declared shape.
TypeOK ==
    /\ uriOf \in [Links -> Uris] /\ ctx \in BOOLEAN /\ conn \in [Links -> BOOLEAN]
    /\ pc \in [Links -> {"new", "hello", "registered", "serving", "untrack",
                         "unregister", "deregister", "forget", "gone"}]
    /\ register \in [Links -> {"idle", "calling", "applied", "acked", "failed"}]
    /\ dereg \in [Links -> {"none", "gaveup", "late"}]
    /\ DOMAIN agentConns \subseteq Uris /\ \A u \in DOMAIN agentConns : agentConns[u] \in Links
    /\ rows \subseteq Uris
    /\ agents \cup parked \cup allocs \cup overlapped \subseteq Links
    /\ drain \in [pc : {"idle", "goaway", "select", "returned"}, told : SUBSET Links,
                  todo : SUBSET Links, remaining : SUBSET Links]

(***************************************************************************)
(* "RegisterAgent records that agentURI -> p for as long as the agent is   *)
(* connected": the directory has an entry for every agent with an open     *)
(* link that is being served.                                              *)
(***************************************************************************)
ConnectedFindable ==
    \A l \in Links : pc[l] = "serving" /\ conn[l] => uriOf[l] \in DOMAIN agentConns

\* LookupAgent and Resolve find this link under its URI.
Findable(l) == uriOf[l] \in DOMAIN agentConns /\ agentConns[uriOf[l]] = l

(***************************************************************************)
(* What the code keeps of it: a served link is findable unless it met      *)
(* another link of the same agent, whatever the links of other agents do,  *)
(* and even then, until one of the two is torn down, one of them is.       *)
(***************************************************************************)
LoneFindable ==
    \A l \in Links : pc[l] = "serving" =>
        \/ Findable(l)
        \/ l \in overlapped /\ \E k \in overlapped \ {l} :
              uriOf[k] = uriOf[l] /\ (Findable(k) \/ pc[k] \in {"deregister", "forget", "gone"})

(***************************************************************************)
(* The directory never leads to a link whose teardown has gone past        *)
(* UnregisterAgent, whatever links of the agent came and went in between.  *)
(***************************************************************************)
NoDeadProvider ==
    \A u \in DOMAIN agentConns :
        /\ uriOf[agentConns[u]] = u
        /\ pc[agentConns[u]] \in {"registered", "serving", "untrack", "unregister"}

\* A DeregisterAgent of another link of this agent was applied late: the call
\* names the agent and the relay, not the link, so it takes this link's rows.
LateDeregistered(l) == \E k \in Links \ {l} : uriOf[k] = uriOf[l] /\ dereg[k] = "late"

(***************************************************************************)
(* A provider whose REGISTER was acknowledged stays resolvable while its   *)
(* link is served and is its agent's only one: no teardown of another      *)
(* agent's link, and of its own earlier ones only a DeregisterAgent the    *)
(* relay gave up on and the controller applied late, drops its services.   *)
(***************************************************************************)
AckedResolvable ==
    \A l \in Links \ overlapped :
        register[l] = "acked" /\ pc[l] = "serving" => uriOf[l] \in rows \/ LateDeregistered(l)

\* ForgetAgent drops an agent's allocations when its own link ends, never those
\* granted over a link that is still being served and never met another of its
\* agent.
GrantKept == [][\A l \in allocs \ allocs' : pc[l] = "serving" => l \in overlapped]_vars

(***************************************************************************)
(* Drain sends everybody away: once it has returned, no agent that was on  *)
(* the relay when it began has an open link here, unless the relay itself  *)
(* is stopping.  What is left to such an agent's serveConn is to leave.    *)
(***************************************************************************)
DrainedCut ==
    drain.pc = "returned" => \A l \in drain.told \cap agents : ~conn[l] \/ ~ctx
=============================================================================
