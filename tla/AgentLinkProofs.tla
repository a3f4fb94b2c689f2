-------------------------- MODULE AgentLinkProofs --------------------------
(***************************************************************************)
(* The invariants of AgentLink and GrantKept, for any number of agents and *)
(* links.  The argument turns on one fact: two links of one agent that are *)
(* on the relay together have met (Together), so a teardown by URI can     *)
(* only harm a link that is in overlapped.  Drain needs that the links it  *)
(* told are past their registration (ToldTracked), so none comes back.     *)
(***************************************************************************)
EXTENDS AgentLink, TLAPS

Present(l) == pc[l] \notin {"new", "gone"}
Listed(l) == pc[l] \in {"registered", "serving", "untrack", "unregister"}

\* Links of one agent that are on the relay at one time are all overlapped.
Together ==
    \A k, l \in Links :
        k # l /\ uriOf[k] = uriOf[l] /\ Present(k) /\ Present(l) =>
            k \in overlapped /\ l \in overlapped

\* Another link of the agent is found in l's place, or took the entry with it.
Displaced(l) ==
    \E k \in overlapped \ {l} :
        uriOf[k] = uriOf[l] /\ (Findable(k) \/ pc[k] \in {"deregister", "forget", "gone"})

ListedFindable ==
    \A l \in Links : Listed(l) => Findable(l) \/ (l \in overlapped /\ Displaced(l))

\* A REGISTER the controller has applied, from the reply on.
AppliedResolvable ==
    \A l \in Links \ overlapped :
        register[l] \in {"applied", "acked"} /\ pc[l] = "serving" =>
            uriOf[l] \in rows \/ LateDeregistered(l)

\* A deregistration is given up only by a teardown that has run UnregisterAgent.
GaveUpLate == \A l \in Links : dereg[l] # "none" => pc[l] \in {"forget", "gone"}

Registering == \A l \in Links : register[l] # "idle" => pc[l] \notin {"new", "hello", "registered"}

Tracked == agents = {l \in Links : pc[l] \in {"serving", "untrack"}}

ToldTracked == \A l \in drain.told : pc[l] \notin {"new", "hello", "registered"}

\* What the last poll saw is all that is left of the links told to leave.
SelectCovers == drain.pc = "select" => drain.told \cap agents \subseteq drain.remaining

DirectoryInv == NoDeadProvider /\ Together /\ ListedFindable
RegisterInv == Registering /\ AppliedResolvable /\ GaveUpLate
DrainInv == Tracked /\ ToldTracked /\ SelectCovers /\ DrainedCut

IInv == TypeOK /\ DirectoryInv /\ RegisterInv /\ DrainInv

\* The invariant holds before any agent connects.
LEMMA InitIInv == Init => IInv
<1> SUFFICES ASSUME Init PROVE IInv
  OBVIOUS
<1>1. TypeOK
  BY DEF Init, TypeOK
<1>2. DirectoryInv
  BY DEF Init, DirectoryInv, NoDeadProvider, Together, ListedFindable, Present, Listed
<1>3. RegisterInv
  BY Zenon DEF Init, RegisterInv, Registering, AppliedResolvable, GaveUpLate
<1>4. DrainInv
  BY Zenon DEF Init, DrainInv, Tracked, ToldTracked, SelectCovers, DrainedCut
<1> QED
  BY <1>1, <1>2, <1>3, <1>4, Zenon DEF IInv

-----------------------------------------------------------------------------
(* Types *)

\* A link's own steps keep the types.
LEMMA ServeType ==
    ASSUME TypeOK, NEW l \in Links, Hello(l) \/ Serve(l) \/ Disconnect(l)
    PROVE  TypeOK'
<1>1. CASE Hello(l)
  BY <1>1, Zenon DEF TypeOK, Hello, Goto, Others
<1>2. CASE RegisterAgent(l)
  BY <1>2 DEF TypeOK, RegisterAgent, Goto, Put
<1>3. CASE trackAgent(l)
  BY <1>3 DEF TypeOK, trackAgent, Goto
<1>4. CASE AcceptFails(l)
  BY <1>4, Zenon DEF TypeOK, AcceptFails, Goto
<1>5. CASE untrackAgent(l)
  BY <1>5, Zenon DEF TypeOK, untrackAgent, Goto
<1>6. CASE UnregisterAgent(l)
  BY <1>6, Zenon DEF TypeOK, UnregisterAgent, Goto, Without, Restrict
<1>7. CASE DeregisterAgent(l)
  BY <1>7, Zenon DEF TypeOK, DeregisterAgent, Goto
<1>8. CASE ForgetAgent(l)
  BY <1>8, Zenon DEF TypeOK, ForgetAgent, Goto, Close
<1>9. CASE Disconnect(l)
  BY <1>9, Zenon DEF TypeOK, Disconnect, Close
<1> QED
  BY <1>1, <1>2, <1>3, <1>4, <1>5, <1>6, <1>7, <1>8, <1>9, Zenon DEF Serve

Control(l) ==
    \/ handleRegister(l) \/ ControllerRegisters(l) \/ RegisterAck(l) \/ RegisterFails(l)
    \/ ControllerDeregisters(l) \/ handleForwardResume(l) \/ driveForwardResume(l)

\* Steps of the control streams keep the types.
LEMMA ControlType ==
    ASSUME TypeOK, NEW l \in Links, Control(l)
    PROVE  TypeOK'
<1>1. CASE handleRegister(l)
  BY <1>1, Zenon DEF TypeOK, handleRegister
<1>2. CASE ControllerRegisters(l)
  BY <1>2 DEF TypeOK, ControllerRegisters
<1>3. CASE RegisterAck(l)
  BY <1>3, Zenon DEF TypeOK, RegisterAck
<1>4. CASE RegisterFails(l)
  BY <1>4, Zenon DEF TypeOK, RegisterFails, Close
<1>5. CASE handleForwardResume(l)
  BY <1>5, Zenon DEF TypeOK, handleForwardResume
<1>6. CASE driveForwardResume(l)
  BY <1>6, Zenon DEF TypeOK, driveForwardResume
<1>7. CASE ControllerDeregisters(l)
  BY <1>7, Zenon DEF TypeOK, ControllerDeregisters
<1> QED
  BY <1>1, <1>2, <1>3, <1>4, <1>5, <1>6, <1>7, Zenon DEF Control

\* Steps of the drain keep the types.
LEMMA DrainType ==
    ASSUME TypeOK, Drain \/ Cancel \/ UNCHANGED vars
    PROVE  TypeOK'
<1>1. CASE DrainStart
  BY <1>1, Zenon DEF TypeOK, DrainStart
<1>2. CASE DrainPoll
  BY <1>2, Zenon DEF TypeOK, DrainPoll
<1>3. CASE DrainSelect
  BY <1>3 DEF TypeOK, DrainSelect, DrainLeaves, Close
<1>4. ASSUME NEW l \in Links, DrainGoaway(l) PROVE TypeOK'
  BY <1>4, Zenon DEF TypeOK, DrainGoaway, Close
<1>5. CASE Cancel
  BY <1>5, Zenon DEF TypeOK, Cancel
<1>6. CASE UNCHANGED vars
  BY <1>6, Zenon DEF TypeOK, vars
<1> QED
  BY <1>1, <1>2, <1>3, <1>4, <1>5, <1>6, Zenon DEF Drain

-----------------------------------------------------------------------------
(* The directory *)

\* A step that leaves the directory and who is listed in it alone.
LEMMA DirectoryKept ==
    ASSUME TypeOK, DirectoryInv, UNCHANGED <<uriOf, overlapped, agentConns>>, NEW l \in Links,
           NEW p, pc' = [pc EXCEPT ![l] = p],
           \/ p = pc[l]
           \/ pc[l] \in {"registered", "serving", "untrack"} /\ p \in {"serving", "untrack", "unregister"}
           \/ pc[l] \in {"deregister", "forget"} /\ p \in {"forget", "gone"}
    PROVE  DirectoryInv'
<1>1. /\ \A k \in Links : Listed(k)' = Listed(k) /\ (Present(k)' => Present(k))
      /\ \A k \in Links : pc[k] \in {"deregister", "forget", "gone"} =>
                             pc'[k] \in {"deregister", "forget", "gone"}
  BY DEF TypeOK, Listed, Present
<1>2. NoDeadProvider'
  BY <1>1 DEF TypeOK, DirectoryInv, NoDeadProvider, Listed
<1>3. Together'
  BY <1>1, Zenon DEF DirectoryInv, Together
<1>4. \A k \in Links : Displaced(k) => Displaced(k)'
  BY <1>1, Zenon DEF TypeOK, Displaced, Findable
<1>5. ListedFindable'
  BY <1>1, <1>4, Zenon DEF DirectoryInv, ListedFindable, Findable
<1> QED
  BY <1>2, <1>3, <1>5, Zenon DEF DirectoryInv

\* A HELLO adds a link to the directory's picture without listing it.
LEMMA DirectoryHello ==
    ASSUME TypeOK, DirectoryInv, NEW l \in Links, Hello(l)
    PROVE  DirectoryInv'
<1>1. /\ pc[l] = "new" /\ pc'[l] = "hello" /\ \A k \in Links : k # l => pc'[k] = pc[k]
      /\ UNCHANGED <<uriOf, agentConns>> /\ overlapped \subseteq overlapped'
  BY Zenon DEF TypeOK, Hello, Goto
<1>2. NoDeadProvider'
  BY <1>1 DEF TypeOK, DirectoryInv, NoDeadProvider
<1>3. Together'
  <2> SUFFICES ASSUME NEW j \in Links, NEW k \in Links, j # k, uriOf[j] = uriOf[k],
                      Present(j)', Present(k)'
               PROVE  j \in overlapped' /\ k \in overlapped'
    BY <1>1, Zenon DEF Together
  <2>1. CASE j # l /\ k # l
    BY <1>1, <2>1, Zenon DEF DirectoryInv, Together, Present
  <2>2. CASE j = l
    <3>1. k \in Others(l)
      BY <1>1, <2>2, Zenon DEF Others, Present
    <3> QED
      BY <2>2, <3>1, Zenon DEF Hello
  <2>3. CASE k = l
    <3>1. j \in Others(l)
      BY <1>1, <2>3, Zenon DEF Others, Present
    <3> QED
      BY <2>3, <3>1, Zenon DEF Hello
  <2> QED
    BY <2>1, <2>2, <2>3, Zenon
<1>4. ListedFindable'
  <2> SUFFICES ASSUME NEW k \in Links, Listed(k)'
               PROVE  Findable(k)' \/ (k \in overlapped' /\ Displaced(k)')
    BY Zenon DEF ListedFindable
  <2>1. Listed(k)
    BY <1>1, Zenon DEF Listed
  <2>2. Displaced(k) => Displaced(k)'
    BY <1>1, Zenon DEF TypeOK, Displaced, Findable
  <2> QED
    BY <1>1, <2>1, <2>2, Zenon DEF DirectoryInv, ListedFindable, Findable
<1> QED
  BY <1>2, <1>3, <1>4, Zenon DEF DirectoryInv

\* The new link takes the agent's entry, from a link it has met.
LEMMA DirectoryRegister ==
    ASSUME TypeOK, DirectoryInv, NEW l \in Links, RegisterAgent(l)
    PROVE  DirectoryInv'
<1>1. /\ pc[l] = "hello" /\ pc'[l] = "registered" /\ \A k \in Links : k # l => pc'[k] = pc[k]
      /\ UNCHANGED <<uriOf, overlapped>> /\ agentConns' = Put(agentConns, uriOf[l], l)
  BY Zenon DEF TypeOK, RegisterAgent, Goto
<1>2. NoDeadProvider'
  BY <1>1 DEF TypeOK, DirectoryInv, NoDeadProvider, Put
<1>3. Together'
  BY <1>1, Zenon DEF DirectoryInv, Together, Present
<1>4. Findable(l)'
  BY <1>1, Zenon DEF Findable, Put
<1>5. ASSUME NEW k \in Links, k # l, Listed(k)'
      PROVE  Findable(k)' \/ (k \in overlapped' /\ Displaced(k)')
  <2>1. Listed(k) /\ Present(k) /\ Present(l)
    BY <1>1, <1>5, Zenon DEF Listed, Present
  <2>2. CASE uriOf[k] = uriOf[l]
    <3>1. k \in overlapped /\ l \in overlapped
      BY <1>5, <2>1, <2>2, Zenon DEF DirectoryInv, Together
    <3> QED
      BY <1>1, <1>4, <1>5, <2>2, <3>1, Zenon DEF Displaced
  <2>3. CASE uriOf[k] # uriOf[l]
    <3>1. \A j \in Links : uriOf[j] = uriOf[k] => (Findable(j) => Findable(j)')
      BY <1>1, <2>3, Zenon DEF Findable, Put
    <3>2. Displaced(k) => Displaced(k)'
      BY <1>1, <2>3, <3>1, Zenon DEF TypeOK, Displaced
    <3> QED
      BY <1>1, <2>1, <3>1, <3>2, Zenon DEF DirectoryInv, ListedFindable
  <2> QED
    BY <2>2, <2>3, Zenon
<1>6. ListedFindable'
  BY <1>4, <1>5, Zenon DEF ListedFindable
<1> QED
  BY <1>2, <1>3, <1>6, Zenon DEF DirectoryInv

\* The link that is torn down takes the agent's entry with it, whosever it is.
LEMMA DirectoryUnregister ==
    ASSUME TypeOK, DirectoryInv, NEW l \in Links, UnregisterAgent(l)
    PROVE  DirectoryInv'
<1>1. /\ pc[l] = "unregister" /\ pc'[l] = "deregister" /\ \A k \in Links : k # l => pc'[k] = pc[k]
      /\ UNCHANGED <<uriOf, overlapped>> /\ agentConns' = Without(agentConns, {uriOf[l]})
  BY Zenon DEF TypeOK, UnregisterAgent, Goto
<1>2. NoDeadProvider'
  BY <1>1 DEF TypeOK, DirectoryInv, NoDeadProvider, Without, Restrict
<1>3. Together'
  BY <1>1, Zenon DEF DirectoryInv, Together, Present
<1>4. ASSUME NEW k \in Links, Listed(k)'
      PROVE  Findable(k)' \/ (k \in overlapped' /\ Displaced(k)')
  <2>1. k # l /\ Listed(k) /\ Present(k) /\ Present(l)
    BY <1>1, <1>4, Zenon DEF Listed, Present
  <2>2. CASE uriOf[k] = uriOf[l]
    <3>1. k \in overlapped /\ l \in overlapped
      BY <2>1, <2>2, Zenon DEF DirectoryInv, Together
    <3> QED
      BY <1>1, <2>1, <2>2, <3>1, Zenon DEF Displaced
  <2>3. CASE uriOf[k] # uriOf[l]
    <3>1. \A j \in Links : uriOf[j] = uriOf[k] => (Findable(j) => Findable(j)')
      BY <1>1, <2>3, Zenon DEF Findable, Without, Restrict
    <3>2. Displaced(k) => Displaced(k)'
      BY <1>1, <2>3, <3>1, Zenon DEF TypeOK, Displaced
    <3> QED
      BY <1>1, <2>1, <3>1, <3>2, Zenon DEF DirectoryInv, ListedFindable
  <2> QED
    BY <2>2, <2>3, Zenon
<1>5. ListedFindable'
  BY <1>4, Zenon DEF ListedFindable
<1> QED
  BY <1>2, <1>3, <1>5, Zenon DEF DirectoryInv

\* Every step keeps the table of connections in step with the links.
LEMMA DirectoryStep ==
    ASSUME TypeOK, DirectoryInv, [Next]_vars
    PROVE  DirectoryInv'
<1>1. CASE UNCHANGED <<uriOf, overlapped, agentConns, pc>>
  <2>1. NoDeadProvider' /\ Together'
    BY <1>1, Zenon DEF DirectoryInv, NoDeadProvider, Together, Present
  <2>2. ListedFindable'
    BY <1>1 DEF DirectoryInv, ListedFindable, Listed, Findable, Displaced
  <2> QED
    BY <2>1, <2>2, Zenon DEF DirectoryInv
<1>2. ASSUME NEW l \in Links, Serve(l)
      PROVE  DirectoryInv'
  <2>1. CASE RegisterAgent(l)
    BY <2>1, DirectoryRegister, Zenon
  <2>2. CASE trackAgent(l) \/ AcceptFails(l) \/ untrackAgent(l)
    <3>1. PICK p \in {"serving", "untrack", "unregister"} : pc' = [pc EXCEPT ![l] = p]
      BY <2>2, Zenon DEF trackAgent, AcceptFails, untrackAgent, Goto
    <3>2. /\ pc[l] \in {"registered", "serving", "untrack"}
          /\ UNCHANGED <<uriOf, overlapped, agentConns>>
      BY <2>2, Zenon DEF trackAgent, AcceptFails, untrackAgent, Goto
    <3> QED
      BY <3>1, <3>2, DirectoryKept, Zenon
  <2>3. CASE UnregisterAgent(l)
    BY <2>3, DirectoryUnregister, Zenon
  <2>4. CASE DeregisterAgent(l) \/ ForgetAgent(l)
    <3>1. PICK p \in {"forget", "gone"} : pc' = [pc EXCEPT ![l] = p]
      BY <2>4, Zenon DEF DeregisterAgent, ForgetAgent, Goto
    <3>2. /\ pc[l] \in {"deregister", "forget"}
          /\ UNCHANGED <<uriOf, overlapped, agentConns>>
      BY <2>4, Zenon DEF DeregisterAgent, ForgetAgent, Goto
    <3> QED
      BY <3>1, <3>2, DirectoryKept, Zenon
  <2> QED
    BY <1>2, <2>1, <2>2, <2>3, <2>4, Zenon DEF Serve
<1>3. ASSUME NEW l \in Links, Disconnect(l) \/ Control(l)
      PROVE  DirectoryInv'
  BY <1>1, <1>3, Zenon DEF Disconnect, Control, handleRegister, ControllerRegisters, RegisterAck,
                    RegisterFails, ControllerDeregisters, handleForwardResume, driveForwardResume
<1>4. CASE Drain \/ Cancel \/ UNCHANGED vars
  BY <1>1, <1>4, Zenon DEF Drain, DrainStart, DrainPoll, DrainSelect, DrainGoaway, Cancel, vars
<1> QED
  BY <1>2, <1>3, <1>4, DirectoryHello, Zenon DEF Next, Control

-----------------------------------------------------------------------------
(* The controller's rows *)

\* What a given-up call leaves behind: the agents' links keep their marks.
Marked == UNCHANGED uriOf /\ \A k \in Links : dereg[k] = "late" => dereg'[k] = "late"

\* A link whose agent had a call applied late stays one.
LEMMA LateKept ==
    ASSUME Marked, NEW l \in Links, LateDeregistered(l)
    PROVE  LateDeregistered(l)'
BY Zenon DEF Marked, LateDeregistered

\* Only DeregisterAgent and the controller touch the marks, and none is undone.
LEMMA MarkedStep ==
    ASSUME TypeOK, RegisterInv, NEW l \in Links, DeregisterAgent(l) \/ ControllerDeregisters(l)
    PROVE  Marked
<1>1. CASE DeregisterAgent(l)
  <2>1. dereg[l] # "late" /\ UNCHANGED uriOf
    BY <1>1, Zenon DEF RegisterInv, GaveUpLate, DeregisterAgent, Goto
  <2>2. \A k \in Links : k # l => dereg'[k] = dereg[k]
    BY <1>1, Zenon DEF TypeOK, DeregisterAgent
  <2> QED
    BY <2>1, <2>2, Zenon DEF Marked
<1>2. CASE ControllerDeregisters(l)
  BY <1>2, Zenon DEF TypeOK, ControllerDeregisters, Marked
<1> QED
  BY <1>1, <1>2, Zenon

\* Only a link that is past its teardown's first half drops rows, and only
\* those of its own agent.
LEMMA RowsKept ==
    ASSUME TypeOK, DirectoryInv, RegisterInv, NEW l \in Links, DeregisterAgent(l)
    PROVE  RegisterInv'
<1>1. /\ pc[l] = "deregister" /\ pc'[l] = "forget" /\ \A k \in Links : k # l => pc'[k] = pc[k]
      /\ rows \ {uriOf[l]} \subseteq rows' /\ UNCHANGED <<uriOf, overlapped, register>>
      /\ \A k \in Links : k # l => dereg'[k] = dereg[k]
  BY Zenon DEF TypeOK, DeregisterAgent, Goto
<1>2. Registering' /\ GaveUpLate'
  BY <1>1, Zenon DEF RegisterInv, Registering, GaveUpLate
<1>3. ASSUME NEW k \in Links \ overlapped, register[k] \in {"applied", "acked"}, pc'[k] = "serving"
      PROVE  uriOf[k] \in rows' \/ LateDeregistered(k)'
  <2>1. k # l /\ pc[k] = "serving"
    BY <1>1, <1>3, Zenon
  <2>2. uriOf[k] # uriOf[l]
    BY <1>1, <1>3, <2>1, Zenon DEF DirectoryInv, Together, Present
  <2>3. uriOf[k] \in rows \/ LateDeregistered(k)
    BY <1>3, <2>1, Zenon DEF RegisterInv, AppliedResolvable
  <2> QED
    BY <1>1, <2>2, <2>3, MarkedStep, LateKept, Zenon
<1>4. AppliedResolvable'
  BY <1>1, <1>3, Zenon DEF AppliedResolvable
<1> QED
  BY <1>2, <1>4, Zenon DEF RegisterInv

\* A call applied late drops the rows of its own agent, and marks its other links.
LEMMA RowsLate ==
    ASSUME TypeOK, RegisterInv, NEW l \in Links, ControllerDeregisters(l)
    PROVE  RegisterInv'
<1>1. /\ UNCHANGED <<uriOf, overlapped, pc, register>> /\ rows' = rows \ {uriOf[l]}
      /\ dereg[l] = "gaveup" /\ dereg'[l] = "late"
      /\ \A k \in Links : k # l => dereg'[k] = dereg[k]
  BY Zenon DEF TypeOK, ControllerDeregisters
<1>2. Registering' /\ GaveUpLate'
  BY <1>1, Zenon DEF RegisterInv, Registering, GaveUpLate
<1>3. ASSUME NEW k \in Links \ overlapped, register[k] \in {"applied", "acked"}, pc[k] = "serving"
      PROVE  uriOf[k] \in rows' \/ LateDeregistered(k)'
  <2>1. k # l
    BY <1>1, <1>3, Zenon DEF RegisterInv, GaveUpLate
  <2>2. CASE uriOf[k] = uriOf[l]
    BY <1>1, <2>1, <2>2, Zenon DEF LateDeregistered
  <2>3. CASE uriOf[k] # uriOf[l]
    <3>1. uriOf[k] \in rows \/ LateDeregistered(k)
      BY <1>3, Zenon DEF RegisterInv, AppliedResolvable
    <3> QED
      BY <1>1, <2>3, <3>1, MarkedStep, LateKept, Zenon
  <2> QED
    BY <2>2, <2>3, Zenon
<1>4. AppliedResolvable'
  BY <1>1, <1>3, Zenon DEF AppliedResolvable
<1> QED
  BY <1>2, <1>4, Zenon DEF RegisterInv

\* Every step keeps what is applied resolvable while its agent is there.
LEMMA RegisterStep ==
    ASSUME TypeOK, DirectoryInv, RegisterInv, [Next]_vars
    PROVE  RegisterInv'
<1>0. UNCHANGED <<uriOf, dereg>> => \A k \in Links : LateDeregistered(k)' <=> LateDeregistered(k)
  BY Zenon DEF LateDeregistered
<1>1. CASE UNCHANGED <<uriOf, dereg, overlapped, register, rows, pc>>
  BY <1>0, <1>1, Zenon DEF RegisterInv, Registering, AppliedResolvable, GaveUpLate
<1>2. ASSUME NEW l \in Links, Hello(l)
      PROVE  RegisterInv'
  <2>1. /\ pc[l] = "new" /\ pc'[l] = "hello" /\ \A k \in Links : k # l => pc'[k] = pc[k]
        /\ UNCHANGED <<uriOf, dereg, register, rows>> /\ overlapped \subseteq overlapped'
    BY <1>2, Zenon DEF TypeOK, Hello, Goto
  <2> QED
    BY <1>0, <2>1, Zenon DEF TypeOK, RegisterInv, Registering, AppliedResolvable, GaveUpLate
<1>3. ASSUME NEW l \in Links, Serve(l)
      PROVE  RegisterInv'
  <2>1. CASE RegisterAgent(l) \/ trackAgent(l)
    <3>1. /\ pc[l] \in {"hello", "registered"} /\ \A k \in Links : k # l => pc'[k] = pc[k]
          /\ UNCHANGED <<uriOf, dereg, overlapped, register, rows>>
      BY <2>1, Zenon DEF TypeOK, RegisterAgent, trackAgent, Goto
    <3> QED
      BY <1>0, <3>1, Zenon DEF TypeOK, RegisterInv, Registering, AppliedResolvable, GaveUpLate
  <2>2. CASE AcceptFails(l) \/ untrackAgent(l) \/ UnregisterAgent(l) \/ ForgetAgent(l)
    <3>1. /\ pc'[l] \in {"untrack", "unregister", "deregister", "gone"}
          /\ pc[l] \in {"forget", "gone"} => pc'[l] = "gone"
          /\ \A k \in Links : k # l => pc'[k] = pc[k]
          /\ UNCHANGED <<uriOf, dereg, overlapped, register, rows>>
      BY <2>2, Zenon DEF TypeOK, AcceptFails, untrackAgent, UnregisterAgent, ForgetAgent, Goto
    <3> QED
      BY <1>0, <3>1, Zenon DEF TypeOK, RegisterInv, Registering, AppliedResolvable, GaveUpLate
  <2>3. CASE DeregisterAgent(l)
    BY <2>3, RowsKept, Zenon
  <2> QED
    BY <1>3, <2>1, <2>2, <2>3, Zenon DEF Serve
<1>4. ASSUME NEW l \in Links, handleRegister(l) \/ RegisterAck(l) \/ RegisterFails(l)
      PROVE  RegisterInv'
  <2>1. /\ UNCHANGED <<uriOf, dereg, overlapped, rows, pc>>
        /\ register[l] # "idle" \/ pc[l] = "serving"
        /\ register'[l] = "acked" => register[l] = "applied"
        /\ register'[l] # "applied"
        /\ \A k \in Links : k # l => register'[k] = register[k]
    BY <1>4, Zenon DEF TypeOK, handleRegister, RegisterAck, RegisterFails
  <2> QED
    BY <1>0, <2>1, Zenon DEF TypeOK, RegisterInv, Registering, AppliedResolvable, GaveUpLate
<1>5. ASSUME NEW l \in Links, ControllerRegisters(l)
      PROVE  RegisterInv'
  <2>1. /\ UNCHANGED <<uriOf, dereg, overlapped, pc>> /\ rows' = rows \cup {uriOf[l]}
        /\ register[l] # "idle"
        /\ \A k \in Links : k # l => register'[k] = register[k]
    BY <1>5, Zenon DEF TypeOK, ControllerRegisters
  <2> QED
    BY <1>0, <2>1, Zenon DEF TypeOK, RegisterInv, Registering, AppliedResolvable, GaveUpLate
<1>6. ASSUME NEW l \in Links, Disconnect(l) \/ handleForwardResume(l) \/ driveForwardResume(l)
      PROVE  RegisterInv'
  BY <1>1, <1>6, Zenon DEF Disconnect, handleForwardResume, driveForwardResume
<1>7. CASE Drain \/ Cancel \/ UNCHANGED vars
  BY <1>1, <1>7, Zenon DEF Drain, DrainStart, DrainPoll, DrainSelect, DrainGoaway, Cancel, vars
<1> QED
  BY <1>2, <1>3, <1>4, <1>5, <1>6, <1>7, RowsLate, Zenon DEF Next

-----------------------------------------------------------------------------
(* Drain *)

\* A step of serveConn: no link comes back to Server.agents, and only a link
\* nobody was told about has its connection opened.
LEMMA DrainServe ==
    ASSUME TypeOK, DrainInv, NEW l \in Links, Hello(l) \/ Serve(l)
    PROVE  DrainInv'
<1>1. /\ UNCHANGED <<ctx, drain>>
      /\ \A k \in Links : k # l => pc'[k] = pc[k]
      /\ \A k \in Links : conn'[k] => conn[k] \/ (k = l /\ pc[l] = "new")
  BY DEF TypeOK, Hello, Serve, RegisterAgent, trackAgent, AcceptFails, untrackAgent,
         UnregisterAgent, DeregisterAgent, ForgetAgent, Goto, Close
<1>2. Tracked'
  BY DEF TypeOK, DrainInv, Tracked, Hello, Serve, RegisterAgent, trackAgent, AcceptFails,
         untrackAgent, UnregisterAgent, DeregisterAgent, ForgetAgent, Goto
<1>3. pc[l] \notin {"new", "hello", "registered"} => pc'[l] \notin {"new", "hello", "registered"}
  BY DEF TypeOK, Hello, Serve, RegisterAgent, trackAgent, AcceptFails, untrackAgent,
         UnregisterAgent, DeregisterAgent, ForgetAgent, Goto
<1>4. ToldTracked'
  BY <1>1, <1>3, Zenon DEF TypeOK, DrainInv, ToldTracked
<1>5. drain.told \cap agents' \subseteq agents
  <2>1. pc'[l] = "serving" => pc[l] = "registered"
    BY Zenon DEF TypeOK, Hello, Serve, RegisterAgent, trackAgent, AcceptFails, untrackAgent,
           UnregisterAgent, DeregisterAgent, ForgetAgent, Goto
  <2>2. pc'[l] = "untrack" => pc[l] = "serving"
    BY Zenon DEF TypeOK, Hello, Serve, RegisterAgent, trackAgent, AcceptFails, untrackAgent,
           UnregisterAgent, DeregisterAgent, ForgetAgent, Goto
  <2> QED
    BY <1>1, <1>2, <2>1, <2>2, Zenon DEF TypeOK, DrainInv, Tracked, ToldTracked
<1>6. SelectCovers'
  BY <1>1, <1>5, Zenon DEF DrainInv, SelectCovers
<1>7. DrainedCut'
  BY <1>1, <1>5, Zenon DEF TypeOK, DrainInv, DrainedCut, ToldTracked
<1> QED
  BY <1>2, <1>4, <1>6, <1>7, Zenon DEF DrainInv

\* Steps that at most close connections.
LEMMA DrainQuiet ==
    ASSUME TypeOK, DrainInv, UNCHANGED <<pc, agents, drain>>,
           ctx' => ctx, \A l \in Links : conn'[l] => conn[l]
    PROVE  DrainInv'
<1>1. Tracked' /\ ToldTracked' /\ SelectCovers'
  BY Zenon DEF DrainInv, Tracked, ToldTracked, SelectCovers
<1>2. DrainedCut'
  BY Zenon DEF TypeOK, DrainInv, DrainedCut
<1> QED
  BY <1>1, <1>2, Zenon DEF DrainInv

\* The drain's own steps keep track of whom it told and whom it still has to cut.
LEMMA DrainDrains ==
    ASSUME TypeOK, DrainInv, Drain
    PROVE  DrainInv'
<1>1. CASE DrainStart
  <2>1. /\ drain' = [drain EXCEPT !.pc = "goaway", !.told = agents, !.todo = agents]
        /\ UNCHANGED <<pc, agents>>
    BY <1>1, Zenon DEF DrainStart
  <2>2. drain'.pc = "goaway" /\ drain'.told = agents
    BY <2>1, Zenon DEF TypeOK
  <2> QED
    BY <2>1, <2>2, Zenon DEF DrainInv, Tracked, ToldTracked, SelectCovers, DrainedCut
<1>2. CASE DrainPoll
  <2>1. /\ drain' = [drain EXCEPT !.remaining = agents,
                                  !.pc = IF agents = {} THEN "returned" ELSE "select"]
        /\ UNCHANGED <<pc, agents>>
    BY <1>2, Zenon DEF DrainPoll
  <2>2. /\ drain'.pc = (IF agents = {} THEN "returned" ELSE "select")
        /\ drain'.remaining = agents /\ drain'.told = drain.told
    BY <2>1, Zenon DEF TypeOK
  <2> QED
    BY <2>1, <2>2 DEF DrainInv, Tracked, ToldTracked, SelectCovers, DrainedCut
<1>3. CASE DrainSelect
  <2>1. CASE DrainLeaves("goaway") /\ UNCHANGED conn
    <3>1. drain'.pc = "goaway" /\ drain'.told = drain.told
      BY <2>1 DEF TypeOK, DrainLeaves
    <3> QED
      BY <1>3, <3>1, Zenon DEF DrainSelect, DrainInv, Tracked, ToldTracked, SelectCovers, DrainedCut
  <2>2. CASE DrainLeaves("returned") /\ conn' = Close(drain.remaining)
    <3>1. drain'.pc = "returned" /\ drain'.told = drain.told
      BY <2>2 DEF TypeOK, DrainLeaves
    <3>2. drain.told \cap agents \subseteq drain.remaining
      BY <1>3, Zenon DEF DrainSelect, DrainInv, SelectCovers
    <3>3. DrainedCut'
      BY <1>3, <2>2, <3>1, <3>2, Zenon DEF TypeOK, DrainSelect, DrainedCut, Close
    <3> QED
      BY <1>3, <3>1, <3>3, Zenon DEF DrainSelect, DrainInv, Tracked, ToldTracked, SelectCovers
  <2>3. CASE ~ctx /\ DrainLeaves("returned") /\ UNCHANGED conn
    <3>1. drain'.pc = "returned" /\ drain'.told = drain.told
      BY <2>3 DEF TypeOK, DrainLeaves
    <3> QED
      BY <1>3, <2>3, <3>1, Zenon DEF DrainSelect, DrainInv, Tracked, ToldTracked, SelectCovers, DrainedCut
  <2> QED
    BY <1>3, <2>1, <2>2, <2>3, Zenon DEF DrainSelect
<1>4. ASSUME NEW l \in Links, DrainGoaway(l)
      PROVE  DrainInv'
  <2>1. drain' = [drain EXCEPT !.todo = drain.todo \ {l}] /\ drain.pc = "goaway"
    BY <1>4, Zenon DEF DrainGoaway
  <2>2. drain'.pc = "goaway" /\ drain'.told = drain.told
    BY <2>1, Zenon DEF TypeOK
  <2> QED
    BY <1>4, <2>2, Zenon DEF DrainGoaway, DrainInv, Tracked, ToldTracked, SelectCovers, DrainedCut
<1> QED
  BY <1>1, <1>2, <1>3, <1>4, Zenon DEF Drain

\* No other step lets an agent slip past a drain.
LEMMA DrainStep ==
    ASSUME TypeOK, DrainInv, [Next]_vars
    PROVE  DrainInv'
<1>1. ASSUME NEW l \in Links, Disconnect(l) \/ Control(l)
      PROVE  DrainInv'
  <2>1. UNCHANGED <<ctx, pc, agents, drain>> /\ \A k \in Links : conn'[k] => conn[k]
    BY <1>1, Zenon DEF TypeOK, Disconnect, Control, handleRegister, ControllerRegisters, RegisterAck,
                RegisterFails, ControllerDeregisters, handleForwardResume, driveForwardResume, Close
  <2> QED
    BY <2>1, DrainQuiet, Zenon
<1>2. CASE Cancel \/ UNCHANGED vars
  <2>1. UNCHANGED <<conn, pc, agents, drain>> /\ (ctx' => ctx)
    BY <1>2 DEF Cancel, vars
  <2> QED
    BY <2>1, DrainQuiet, Zenon
<1> QED
  BY <1>1, <1>2, DrainServe, DrainDrains, Zenon DEF Next, Control

-----------------------------------------------------------------------------
\* The invariant is inductive.
LEMMA IInvStep ==
    ASSUME IInv, [Next]_vars
    PROVE  IInv'
<1>1. TypeOK'
  BY ServeType, ControlType, DrainType, Zenon DEF IInv, Next, Control
<1> QED
  BY <1>1, DirectoryStep, RegisterStep, DrainStep, Zenon DEF IInv

\* The inductive invariant holds of every behaviour of the links.
THEOREM LinkInvariant == Spec => []IInv
BY InitIInv, IInvStep, PTL DEF Spec

(***************************************************************************)
(* The directory of RegisterAgent and UnregisterAgent, for any number of   *)
(* agents and links: a served link that never met another of its agent is  *)
(* in it.                                                                  *)
(***************************************************************************)
THEOREM DirectorySound == Spec => []LoneFindable
<1>1. IInv => LoneFindable
  BY Zenon DEF IInv, DirectoryInv, ListedFindable, LoneFindable, Listed, Displaced
<1> QED
  BY <1>1, LinkInvariant, PTL

\* The directory never leads to a link whose teardown has run UnregisterAgent,
\* in whatever order links of one agent register and unregister.
THEOREM DirectoryAlive == Spec => []NoDeadProvider
<1>1. IInv => NoDeadProvider
  BY Zenon DEF IInv, DirectoryInv
<1> QED
  BY <1>1, LinkInvariant, PTL

\* A provider handleRegister acknowledged stays resolvable at the controller
\* while its link is served and has met no other link of its agent, unless the
\* controller applied, late, a DeregisterAgent an earlier link had given up.
THEOREM AckedStaysResolvable == Spec => []AckedResolvable
<1>1. IInv => AckedResolvable
  BY Zenon DEF IInv, RegisterInv, AppliedResolvable, AckedResolvable
<1> QED
  BY <1>1, LinkInvariant, PTL

\* When Drain has returned, none of the links it told to leave is still open.
THEOREM DrainCutsAll == Spec => []DrainedCut
<1>1. IInv => DrainedCut
  BY Zenon DEF IInv, DrainInv
<1> QED
  BY <1>1, LinkInvariant, PTL

\* ForgetAgent never drops what a served link was granted, unless that link has
\* met the one that is torn down.
THEOREM GrantsKept == Spec => GrantKept
<1>1. ASSUME IInv, [Next]_vars, NEW l \in allocs \ allocs', pc[l] = "serving"
      PROVE  l \in overlapped
  <2>1. PICK k \in Links : ForgetAgent(k)
    BY <1>1, Zenon DEF Next, Serve, Hello, RegisterAgent, trackAgent, AcceptFails, untrackAgent,
         UnregisterAgent, DeregisterAgent, Disconnect, handleRegister, ControllerRegisters,
         RegisterAck, RegisterFails, ControllerDeregisters, handleForwardResume, driveForwardResume,
         Drain, DrainStart, DrainPoll, DrainSelect, DrainGoaway, Cancel, vars
  <2>2. uriOf[l] = uriOf[k] /\ pc[k] = "forget" /\ l \in Links
    BY <1>1, <2>1, Zenon DEF IInv, TypeOK, ForgetAgent, Goto
  <2> QED
    BY <1>1, <2>2, Zenon DEF IInv, DirectoryInv, Together, Present
<1>2. IInv /\ [Next]_vars => [\A l \in allocs \ allocs' : pc[l] = "serving" => l \in overlapped]_vars
  BY <1>1, Zenon
<1> QED
  BY <1>2, LinkInvariant, PTL DEF Spec, GrantKept
=============================================================================
