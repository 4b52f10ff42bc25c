-------------------------- MODULE DeviceAuthProofs --------------------------
(***************************************************************************)
(* Proofs about DeviceAuth for every set of codes, logins and people and   *)
(* every limit: one agent per code, revoked tokens dead, agents within     *)
(* what their approver had, and one session per login flow.                *)
(***************************************************************************)
EXTENDS DeviceAuth, TLAPS

(* The shapes the argument needs.                                           *)
Shapes ==
    /\ config \in Configs
    /\ flows \in [Logins -> Flow \cup {None}]
    /\ sessions \in [Logins -> Session \cup {None}]
    /\ logins \in [Logins -> Nat]
    /\ devices \in [Codes -> Device \cup {None}]
    /\ agents \in Seq(Agent)
    /\ requests \subseteq Request
    /\ \A r \in requests : r.do \in {"approve", "deny"} => r.target \in Codes
    /\ clients \in [Codes -> Client \cup {None}]
    /\ approvals \in [Codes -> Principal \cup {None}]

(* A code in use is the code of a client that asked for it.                 *)
CodesAreAsked ==
    /\ \A c \in Codes : clients[c] = None => devices[c] = None
    /\ \A i \in DOMAIN agents : clients[agents[i].token] # None

(* The device of an existing agent has been redeemed.                       *)
AgentsAreIssued ==
    \A i \in DOMAIN agents :
        devices[agents[i].token] # None => devices[agents[i].token].status = "issued"

(* An approved device carries the decision of the principal on record.      *)
ApprovedOnRecord ==
    \A c \in Codes :
        (devices[c] # None /\ devices[c].status \in {"approved", "issued"})
        => /\ approvals[c] # None
           /\ approvals[c].id = devices[c].owner
           /\ Covers(approvals[c].products, devices[c].products)

(* A flow in the store or being used has not led to a session.              *)
FlowsUnused ==
    \A l \in Logins :
        /\ logins[l] <= 1
        /\ flows[l] # None => logins[l] = 0 /\ l \notin callbacks
        /\ l \in callbacks => logins[l] = 0

Enrolment == CodesAreAsked /\ AgentsAreIssued /\ ApprovedOnRecord
             /\ OneAgentPerCode /\ AgentWithinApproval

AuthInv == Shapes /\ Enrolment /\ FlowsUnused

-----------------------------------------------------------------------------
(* Records are told apart by their first field.                             *)
LEMMA NoneIsNothing ==
    /\ \A x \in Flow : x # None
    /\ \A x \in Session : x # None
    /\ \A x \in Device : x # None
    /\ \A x \in Client : x # None
BY DEF Flow, Session, Device, Client, Principal, None

LEMMA PruneOnlyRemoves ==
    ASSUME Shapes
    PROVE  /\ PruneFlows \in [Logins -> Flow \cup {None}]
           /\ PruneSessions \in [Logins -> Session \cup {None}]
           /\ PruneDevices \in [Codes -> Device \cup {None}]
           /\ \A l \in Logins : PruneFlows[l] \in {flows[l], None}
           /\ \A l \in Logins : PruneSessions[l] \in {sessions[l], None}
           /\ \A c \in Codes : PruneDevices[c] \in {devices[c], None}
BY DEF Shapes, PruneFlows, PruneSessions, PruneDevices

LEMMA AgentsTyped ==
    ASSUME Shapes
    PROVE  /\ DOMAIN agents = 1..Len(agents) /\ Len(agents) \in Nat
           /\ \A i \in DOMAIN agents : agents[i] \in Agent
<1>1. agents \in Seq(Agent)
  BY DEF Shapes
<1> QED BY <1>1

(* A step that keeps every decision, every agent's terms and every record   *)
(* of approval keeps Enrolment.                                             *)
LEMMA DecisionsKept ==
    ASSUME Shapes, Enrolment,
           \A c \in Codes :
               \/ devices'[c] = None
               \/ /\ devices[c] # None
                  /\ devices'[c].status = devices[c].status
                  /\ devices'[c].owner = devices[c].owner
                  /\ devices'[c].products = devices[c].products,
           DOMAIN agents' = DOMAIN agents,
           \A i \in DOMAIN agents :
               /\ agents'[i].token = agents[i].token
               /\ agents'[i].owner = agents[i].owner
               /\ agents'[i].products = agents[i].products,
           \A c \in Codes : clients'[c] = None => clients[c] = None,
           approvals' = approvals
    PROVE  Enrolment'
<1>0. \A i \in DOMAIN agents : agents[i].token \in Codes
  BY AgentsTyped DEF Agent
<1>1. CodesAreAsked'
  BY <1>0 DEF Enrolment, CodesAreAsked
<1>2. AgentsAreIssued'
  BY <1>0 DEF Enrolment, AgentsAreIssued
<1>3. ApprovedOnRecord'
  BY DEF Enrolment, ApprovedOnRecord
<1>4. OneAgentPerCode'
  BY DEF Enrolment, OneAgentPerCode
<1>5. AgentWithinApproval'
  BY <1>0 DEF Enrolment, AgentWithinApproval
<1> QED BY <1>1, <1>2, <1>3, <1>4, <1>5 DEF Enrolment

(* The same for the actions that leave devices to prune.                    *)
LEMMA PruneKeepsEnrolment ==
    ASSUME Shapes, Enrolment, devices' \in {devices, PruneDevices}, agents' = agents,
           \A c \in Codes : clients'[c] = None => clients[c] = None,
           approvals' = approvals
    PROVE  Enrolment'
<1>1. \A c \in Codes : devices'[c] = None \/ devices'[c] = devices[c]
  BY PruneOnlyRemoves
<1> QED BY <1>1, DecisionsKept

(* Likewise for logins.                                                     *)
LEMMA PruneKeepsFlows ==
    ASSUME Shapes, FlowsUnused, flows' \in {flows, PruneFlows}, logins' = logins,
           callbacks' \subseteq callbacks
    PROVE  FlowsUnused'
BY PruneOnlyRemoves DEF FlowsUnused

-----------------------------------------------------------------------------
(* The initial states, and one lemma per group of actions.                  *)

LEMMA InitAuthInv == Init => AuthInv
<1> SUFFICES ASSUME Init PROVE AuthInv
  OBVIOUS
<1>1. Shapes
  BY DEF Init, Shapes
<1>2. Enrolment
  BY DEF Init, Enrolment, CodesAreAsked, AgentsAreIssued, ApprovedOnRecord,
         OneAgentPerCode, AgentWithinApproval
<1>3. FlowsUnused
  BY DEF Init, FlowsUnused
<1> QED BY <1>1, <1>2, <1>3 DEF AuthInv

(* People logging in and out.                                               *)
LEMMA PeopleStep ==
    ASSUME AuthInv, NEW l \in Logins,
           \/ login(l) \/ TakeFlow(l) \/ LoginFails(l)
           \/ \E h \in Humans, role \in Roles : CreateSession(l, h, role)
    PROVE  AuthInv'
<1> USE DEF AuthInv
<1>e. Enrolment'
  <2>1. devices' \in {devices, PruneDevices} /\ agents' = agents
        /\ clients' = clients /\ approvals' = approvals
    BY DEF login, TakeFlow, LoginFails, CreateSession
  <2> QED BY <2>1, PruneKeepsEnrolment
<1>p. PruneOnlyRemoves!2
  BY PruneOnlyRemoves
<1>1. CASE login(l)
  <2>1. Shapes'
    BY <1>p, <1>1, AuthAssumption DEF login, Shapes, Flow
  <2>2. FlowsUnused'
    BY <1>p, <1>1 DEF login, FlowsUnused, Shapes
  <2> QED BY <1>e, <2>1, <2>2
<1>2. CASE TakeFlow(l)
  <2>1. Shapes'
    BY <1>p, <1>2 DEF TakeFlow, Shapes
  <2>2. FlowsUnused'
    BY <1>p, <1>2 DEF TakeFlow, FlowsUnused, Shapes
  <2> QED BY <1>e, <2>1, <2>2
<1>3. CASE LoginFails(l)
  <2>1. Shapes'
    BY <1>3 DEF LoginFails, Shapes
  <2>2. FlowsUnused'
    BY <1>3 DEF LoginFails, FlowsUnused, Shapes
  <2> QED BY <1>e, <2>1, <2>2
<1>4. ASSUME NEW h \in Humans, NEW role \in Roles, CreateSession(l, h, role)
      PROVE  AuthInv'
  <2>1. Shapes'
    BY <1>p, <1>4, AuthAssumption DEF CreateSession, Shapes, Session, Principal
  <2>2. FlowsUnused'
    BY <1>p, <1>4 DEF CreateSession, FlowsUnused, Shapes
  <2> QED BY <1>e, <2>1, <2>2
<1> QED BY <1>1, <1>2, <1>3, <1>4

(* authenticate, logout, revokeAgent, the reading updates and a restart.    *)
LEMMA RequestStep ==
    ASSUME AuthInv,
           \/ \E l \in Logins :
                \/ \E c \in Codes : authenticate(l, "approve", c) \/ authenticate(l, "deny", c)
                \/ \E i \in DOMAIN agents : authenticate(l, "revoke", i)
                \/ authenticate(l, "logout", 0)
           \/ \E r \in requests : logout(r)
           \/ ReadStore
           \/ \E C \in Configs : Restart(C)
    PROVE  AuthInv'
<1> USE DEF AuthInv
<1>p. PruneOnlyRemoves!2
  BY PruneOnlyRemoves
<1>1. ASSUME NEW l \in Logins, NEW what \in {"approve", "deny", "revoke", "logout"},
             NEW t \in Codes \cup Nat, what \in {"approve", "deny"} => t \in Codes,
             authenticate(l, what, t)
      PROVE  AuthInv'
  <2>1. sessions[l] \in Session
    BY <1>p, <1>1 DEF authenticate, Shapes
  <2>2. sessions[l].principal \in Principal
    BY <2>1 DEF Session
  <2>3. Shapes'
    BY <1>p, <1>1, <2>2 DEF authenticate, Shapes, Request
  <2>4. Enrolment'
    BY <1>1, PruneKeepsEnrolment DEF authenticate
  <2>5. FlowsUnused'
    BY <1>1, PruneKeepsFlows DEF authenticate
  <2> QED BY <2>3, <2>4, <2>5
<1>2. ASSUME NEW r \in requests, logout(r) PROVE AuthInv'
  <2>1. Shapes'
    BY <1>p, <1>2 DEF logout, Shapes
  <2>2. Enrolment'
    BY <1>2, PruneKeepsEnrolment DEF logout
  <2>3. FlowsUnused'
    BY <1>2, PruneKeepsFlows DEF logout
  <2> QED BY <2>1, <2>2, <2>3
<1>3. CASE ReadStore
  <2>1. Shapes'
    BY <1>p, <1>3 DEF ReadStore, Shapes
  <2>2. Enrolment'
    BY <1>3, PruneKeepsEnrolment DEF ReadStore
  <2>3. FlowsUnused'
    BY <1>3, PruneKeepsFlows DEF ReadStore
  <2> QED BY <2>1, <2>2, <2>3
<1>4. ASSUME NEW C \in Configs, Restart(C) PROVE AuthInv'
  <2>1. clients' \in [Codes -> Client \cup {None}]
    BY <1>4 DEF Restart, Shapes, Client
  <2>2. \A c \in Codes : clients'[c] = None => clients[c] = None
    BY <1>4 DEF Restart, None
  <2>3. Shapes'
    BY <1>p, <1>4, <2>1 DEF Restart, Shapes
  <2>4. Enrolment'
    BY <1>4, <2>2, PruneKeepsEnrolment DEF Restart
  <2>5. FlowsUnused'
    BY <1>4, PruneKeepsFlows DEF Restart
  <2> QED BY <2>3, <2>4, <2>5
<1>5. DOMAIN agents \subseteq Nat
  BY AgentsTyped
<1> QED BY <1>1, <1>2, <1>3, <1>4, <1>5

LEMMA RevokeStep ==
    ASSUME AuthInv, NEW r \in requests, revokeAgent(r)
    PROVE  AuthInv'
<1> USE DEF AuthInv
<1>p. PruneOnlyRemoves!2
  BY PruneOnlyRemoves
<1>t. AgentsTyped!2
  BY AgentsTyped
<1>1. agents' \in Seq(Agent) /\ DOMAIN agents' = DOMAIN agents
      /\ \A i \in DOMAIN agents : /\ agents'[i].token = agents[i].token
                                  /\ agents'[i].owner = agents[i].owner
                                  /\ agents'[i].products = agents[i].products
  <2>1. CASE agents' = agents
    BY <2>1 DEF Shapes
  <2>2. CASE r.target \in DOMAIN agents
             /\ agents' = [agents EXCEPT ![r.target].revoked = TRUE]
    <3>1. [agents[r.target] EXCEPT !.revoked = TRUE] \in Agent
      BY <1>t, <2>2 DEF Agent
    <3>2. agents \in Seq(Agent)
      BY DEF Shapes
    <3>3. agents' \in Seq(Agent) /\ DOMAIN agents' = DOMAIN agents
      BY <3>1, <3>2, <2>2
    <3> QED BY <3>3, <2>2, <1>t DEF Agent
  <2> QED BY <2>1, <2>2 DEF revokeAgent
<1>2. Shapes'
  BY <1>p, <1>1 DEF revokeAgent, Shapes
<1>3. \A c \in Codes : devices'[c] = None \/ devices'[c] = devices[c]
  BY <1>p DEF revokeAgent
<1>4. clients' = clients /\ approvals' = approvals
  BY DEF revokeAgent
<1>5. Enrolment'
  BY <1>1, <1>3, <1>4, DecisionsKept
<1>6. FlowsUnused'
  BY PruneKeepsFlows DEF revokeAgent
<1> QED BY <1>2, <1>5, <1>6

(* A new code: nobody has an agent of it.                                   *)
LEMMA CodeStep ==
    ASSUME AuthInv, NEW c \in Codes, NEW wanted \in SUBSET Products, deviceCode(c, wanted)
    PROVE  AuthInv'
<1> USE DEF AuthInv
<1> DEFINE products == IF wanted = {} THEN config ELSE wanted
           d == [is |-> "device", status |-> "pending", products |-> products,
                 owner |-> None, agent |-> 0, age |-> 0, since |-> Unpolled,
                 interval |-> 1, attempts |-> 0]
           k == [is |-> "client", at |-> "wait", answer |-> "none", interval |-> 1,
                 waited |-> 0, age |-> 0]
<1>p. PruneOnlyRemoves!2
  BY PruneOnlyRemoves
<1>t. AgentsTyped!2
  BY AgentsTyped
<1>1. products \in SUBSET Products
  BY DEF Shapes, Products
<1>2. d \in Device
  BY <1>1, AuthAssumption DEF Device, Unpolled
<1>3. k \in Client
  BY AuthAssumption DEF Client
<1>4. /\ clients[c] = None
      /\ devices' = [PruneDevices EXCEPT ![c] = d]
      /\ clients' = [clients EXCEPT ![c] = k]
      /\ flows' = PruneFlows /\ sessions' = PruneSessions
      /\ UNCHANGED <<config, callbacks, logins, agents, requests, approvals>>
  BY DEF deviceCode
<1> HIDE DEF d, k
<1>5. Shapes'
  BY <1>p, <1>2, <1>3, <1>4 DEF Shapes
<1>6. FlowsUnused'
  BY <1>4, PruneKeepsFlows
<1>7. \A i \in DOMAIN agents : agents[i].token \in Codes /\ agents[i].token # c
  BY <1>t, <1>4 DEF Enrolment, CodesAreAsked, Agent
<1>8. devices'[c] = d /\ clients'[c] # None /\ d.status = "pending"
      /\ \A b \in Codes \ {c} : clients'[b] = clients[b]
                               /\ devices'[b] \in {devices[b], None}
  BY <1>p, <1>3, <1>4, NoneIsNothing DEF Shapes, d
<1>9. CodesAreAsked' /\ AgentsAreIssued'
  BY <1>4, <1>7, <1>8 DEF Enrolment, CodesAreAsked, AgentsAreIssued
<1>10. ApprovedOnRecord'
  BY <1>4, <1>8 DEF Enrolment, ApprovedOnRecord
<1>11. OneAgentPerCode' /\ AgentWithinApproval'
  BY <1>4 DEF Enrolment, OneAgentPerCode, AgentWithinApproval
<1> QED BY <1>5, <1>6, <1>9, <1>10, <1>11 DEF Enrolment

(* A poll: it changes no decision, or redeems an approved code.             *)
LEMMA PollStep ==
    ASSUME AuthInv, NEW c \in Codes, deviceToken(c),
           clients' \in [Codes -> Client \cup {None}],
           \A b \in Codes : clients'[b] = None <=> clients[b] = None
    PROVE  AuthInv'
<1> USE DEF AuthInv
<1> DEFINE d == PruneDevices[c]
<1>p. PruneOnlyRemoves!2
  BY PruneOnlyRemoves
<1>t. AgentsTyped!2
  BY AgentsTyped
<1>0. /\ devices' = [PruneDevices EXCEPT ![c] = Polled(d)]
      /\ agents' = Issued(c, d)
      /\ flows' = PruneFlows /\ sessions' = PruneSessions
      /\ UNCHANGED <<config, callbacks, logins, requests, approvals>>
  BY DEF deviceToken
<1>1. d \in {devices[c], None} /\ d \in Device \cup {None}
  BY <1>p
<1> HIDE DEF d
<1>6. FlowsUnused'
  BY <1>0, PruneKeepsFlows
<1>2. CASE Answer(d) = "token" /\ d.status = "approved"
  <2> DEFINE a == [token |-> c, owner |-> d.owner, products |-> d.products, revoked |-> FALSE]
  <2>1. d # None /\ d = devices[c] /\ d \in Device
    BY <1>1, <1>2 DEF Answer
  <2>2. Polled(d) = [d EXCEPT !.since = 0, !.status = "issued", !.agent = Len(agents) + 1]
    BY <1>2 DEF Polled
  <2>3. Polled(d) \in Device /\ Polled(d).status = "issued" /\ Polled(d).owner = d.owner
        /\ Polled(d).products = d.products
    <3>1. Len(agents) + 1 \in Nat /\ 0 \in 0..Unpolled
      BY <1>t, AuthAssumption DEF Unpolled
    <3> QED BY <3>1, <2>1, <2>2 DEF Device
  <2>4. agents' = Append(agents, a)
    BY <1>0, <1>2 DEF Issued
  <2>5. approvals[c] # None /\ approvals[c].id = d.owner
        /\ Covers(approvals[c].products, d.products)
    BY <2>1, <1>2 DEF Enrolment, ApprovedOnRecord
  <2>6. a \in Agent
    <3>1. approvals[c] \in Principal
      BY <2>5 DEF Shapes
    <3>2. d.owner \in Humans
      BY <2>5, <3>1 DEF Principal
    <3>3. d.products \in SUBSET Products
      BY <2>1 DEF Device
    <3> QED BY <3>2, <3>3 DEF Agent
  <2> HIDE DEF a
  <2>7. agents \in Seq(Agent)
    BY DEF Shapes
  <2>8. agents' \in Seq(Agent) /\ DOMAIN agents' = DOMAIN agents \cup {Len(agents) + 1}
        /\ Len(agents) + 1 \notin DOMAIN agents
        /\ agents'[Len(agents) + 1] = a /\ \A i \in DOMAIN agents : agents'[i] = agents[i]
    BY <2>4, <2>6, <2>7
  <2>9. Shapes'
    BY <1>p, <1>0, <2>3, <2>8 DEF Shapes
  <2>10. \A i \in DOMAIN agents : agents[i].token \in Codes /\ agents[i].token # c
    BY <1>2, <1>t, <2>1 DEF Enrolment, AgentsAreIssued, Agent
  <2>11. a.token = c /\ a.owner = d.owner /\ a.products = d.products
    BY DEF a
  <2>12. devices'[c] = Polled(d) /\ \A b \in Codes \ {c} : devices'[b] \in {devices[b], None}
    BY <1>0, <1>p
  <2>13. CodesAreAsked'
    BY <2>1, <2>8, <2>10, <2>11, <2>12 DEF Enrolment, CodesAreAsked
  <2>14. AgentsAreIssued'
    BY <2>3, <2>8, <2>10, <2>11, <2>12 DEF Enrolment, AgentsAreIssued
  <2>15. ApprovedOnRecord'
    BY <1>0, <2>3, <2>5, <2>12 DEF Enrolment, ApprovedOnRecord
  <2>16. OneAgentPerCode'
    BY <2>8, <2>10, <2>11 DEF Enrolment, OneAgentPerCode
  <2>17. AgentWithinApproval'
    BY <1>0, <2>5, <2>8, <2>11 DEF Enrolment, AgentWithinApproval
  <2> QED BY <1>6, <2>9, <2>13, <2>14, <2>15, <2>16, <2>17 DEF Enrolment
<1>3. CASE ~(Answer(d) = "token" /\ d.status = "approved")
  <2>1. agents' = agents
    BY <1>0, <1>3 DEF Issued
  <2>2. \/ Polled(d) = d
        \/ /\ d # None /\ Polled(d) \in Device
           /\ Polled(d).status = d.status /\ Polled(d).owner = d.owner
           /\ Polled(d).products = d.products
    <3>1. CASE Answer(d) = "slow_down"
      <4>1. d \in Device /\ d # None
        BY <1>1, <3>1 DEF Answer
      <4>2. Polled(d) = [d EXCEPT !.interval = AtMost(@ + 1, MaxInterval), !.since = 0]
        BY <3>1 DEF Polled
      <4>3. AtMost(d.interval + 1, MaxInterval) \in 1..MaxInterval
        <5>1. d.interval \in 1..MaxInterval
          BY <4>1 DEF Device
        <5> QED BY <5>1, AuthAssumption DEF AtMost
      <4>4. 0 \in 0..Unpolled
        BY AuthAssumption DEF Unpolled
      <4> QED BY <4>1, <4>2, <4>3, <4>4 DEF Device
    <3>2. CASE Answer(d) = "pending"
      <4>1. d \in Device /\ d # None
        BY <1>1, <3>2 DEF Answer
      <4>2. Polled(d) = [d EXCEPT !.since = 0]
        BY <3>2 DEF Polled
      <4> QED BY <4>1, <4>2, AuthAssumption DEF Device, Unpolled
    <3>3. CASE Answer(d) \notin {"slow_down", "pending"}
      BY <1>3, <3>3 DEF Polled
    <3> QED BY <3>1, <3>2, <3>3
  <2>3. Polled(d) \in Device \cup {None}
    BY <1>1, <2>2
  <2>4. Shapes'
    BY <1>p, <1>0, <2>1, <2>3 DEF Shapes
  <2>5. \A b \in Codes :
               \/ devices'[b] = None
               \/ /\ devices[b] # None
                  /\ devices'[b].status = devices[b].status
                  /\ devices'[b].owner = devices[b].owner
                  /\ devices'[b].products = devices[b].products
    BY <1>0, <1>1, <1>p, <2>2
  <2>6. Enrolment'
    BY <1>0, <2>1, <2>5, DecisionsKept
  <2> QED BY <1>6, <2>4, <2>6
<1> QED BY <1>2, <1>3

(* A decision: only a pending code changes its status, and nobody has an    *)
(* agent of a pending code.                                                 *)
LEMMA DecisionStep ==
    ASSUME AuthInv, NEW r \in requests, deviceApprove(r)
    PROVE  AuthInv'
<1> USE DEF AuthInv
<1> DEFINE c == r.target
           d == PruneDevices[c]
           tried == [d EXCEPT !.attempts = AtMost(@ + 1, MaxAttempts + 1)]
           decided == [tried EXCEPT !.owner = r.by.id,
                          !.status = IF r.do = "deny" THEN "denied" ELSE "approved"]
           open == d # None /\ d.age < CodeTTL
           new == IF ~open THEN d ELSE IF Refused(r, d) THEN tried ELSE decided
           rec == IF open /\ ~Refused(r, d) /\ r.do = "approve" THEN r.by ELSE approvals[c]
<1>p. PruneOnlyRemoves!2
  BY PruneOnlyRemoves
<1>t. AgentsTyped!2
  BY AgentsTyped
<1>0. /\ devices' = [PruneDevices EXCEPT ![c] = new]
      /\ approvals' = [approvals EXCEPT ![c] = rec]
      /\ requests' = requests \ {r} /\ r.do \in {"approve", "deny"}
      /\ flows' = PruneFlows /\ sessions' = PruneSessions
      /\ UNCHANGED <<config, callbacks, logins, agents, clients>>
  BY DEF deviceApprove
<1>1. c \in Codes /\ d \in {devices[c], None} /\ d \in Device \cup {None}
  <2>1. c \in Codes
    BY <1>0 DEF Shapes
  <2> QED BY <1>p, <2>1
<1>2. r.by \in Principal
  BY DEF Shapes, Request
<1>3. ASSUME open
      PROVE  /\ d \in Device /\ d = devices[c]
             /\ tried \in Device /\ tried.status = d.status /\ tried.owner = d.owner
             /\ tried.products = d.products
             /\ decided \in Device /\ decided.owner = r.by.id
             /\ decided.products = d.products
             /\ r.do = "approve" => decided.status = "approved"
             /\ r.do = "deny" => decided.status = "denied"
  <2>1. d \in Device /\ d = devices[c]
    BY <1>1, <1>3
  <2>2. AtMost(d.attempts + 1, MaxAttempts + 1) \in 0..(MaxAttempts + 1)
    <3>1. d.attempts \in 0..(MaxAttempts + 1)
      BY <2>1 DEF Device
    <3> QED BY <3>1, AuthAssumption DEF AtMost
  <2> HIDE DEF d
  <2>3. tried \in Device /\ tried.status = d.status /\ tried.owner = d.owner
        /\ tried.products = d.products
    BY <2>1, <2>2 DEF Device
  <2>4. r.by.id \in Humans
    BY <1>2 DEF Principal
  <2> HIDE DEF tried
  <2>5. /\ decided \in Device /\ decided.owner = r.by.id
        /\ decided.products = tried.products
        /\ r.do = "approve" => decided.status = "approved"
        /\ r.do = "deny" => decided.status = "denied"
    BY <2>3, <2>4 DEF Device
  <2> QED BY <2>1, <2>3, <2>5
<1> HIDE DEF c, d, tried, decided
<1>4. new \in Device \cup {None} /\ rec \in Principal \cup {None}
  BY <1>1, <1>2, <1>3 DEF Shapes
<1>5. Shapes'
  BY <1>p, <1>0, <1>1, <1>4 DEF Shapes
<1>6. FlowsUnused'
  BY <1>0, PruneKeepsFlows
<1>7. CASE open /\ ~Refused(r, d)
  <2>1. d.status = "pending" /\ Covers(r.by.products, d.products)
    BY <1>7 DEF Refused
  <2>2. new = decided /\ (r.do = "approve" => rec = r.by)
    BY <1>7
  <2>3. \A i \in DOMAIN agents : agents[i].token \in Codes /\ agents[i].token # c
    BY <1>7, <1>3, <2>1, <1>t DEF Enrolment, AgentsAreIssued, Agent
  <2>4. devices'[c] = decided /\ devices[c] # None
        /\ \A b \in Codes \ {c} : devices'[b] \in {devices[b], None}
                                  /\ approvals'[b] = approvals[b]
    BY <1>0, <1>1, <1>3, <1>7, <1>p, <2>2, NoneIsNothing DEF Shapes
  <2>5. CodesAreAsked' /\ AgentsAreIssued'
    BY <1>0, <2>3, <2>4 DEF Enrolment, CodesAreAsked, AgentsAreIssued
  <2>6. r.by # None
    BY <1>2 DEF Principal, None
  <2>7. ApprovedOnRecord'
    <3>1. r.do = "approve" => approvals'[c] = r.by
      BY <1>0, <1>1, <2>2 DEF Shapes
    <3> QED BY <1>0, <1>3, <1>7, <2>1, <2>4, <2>6, <3>1 DEF Enrolment, ApprovedOnRecord
  <2>8. OneAgentPerCode'
    BY <1>0 DEF Enrolment, OneAgentPerCode
  <2>9. AgentWithinApproval'
    BY <1>0, <2>3, <2>4 DEF Enrolment, AgentWithinApproval
  <2> QED BY <1>5, <1>6, <2>5, <2>7, <2>8, <2>9 DEF Enrolment
<1>8. CASE ~(open /\ ~Refused(r, d))
  <2>1. approvals' = approvals
    <3>1. rec = approvals[c]
      BY <1>8
    <3>2. approvals \in [Codes -> Principal \cup {None}]
      BY DEF Shapes
    <3> QED BY <1>0, <1>1, <3>1, <3>2
  <2>2. new = d \/ (new = tried /\ open)
    <3>1. CASE ~open
      BY <3>1
    <3>2. CASE open
      <4>1. Refused(r, d)
        BY <3>2, <1>8
      <4> QED BY <3>2, <4>1
    <3> QED BY <3>1, <3>2
  <2>3. \A b \in Codes :
               \/ devices'[b] = None
               \/ /\ devices[b] # None
                  /\ devices'[b].status = devices[b].status
                  /\ devices'[b].owner = devices[b].owner
                  /\ devices'[b].products = devices[b].products
    BY <1>0, <1>1, <1>3, <1>p, <2>2
  <2>4. Enrolment'
    BY <1>0, <2>1, <2>3, DecisionsKept
  <2> QED BY <1>5, <1>6, <2>4
<1> QED BY <1>7, <1>8

(* The client's own steps and the clock.                                    *)
LEMMA ClientStep ==
    ASSUME AuthInv, NEW c \in Codes,
           ClientSends(c) \/ ClientReceives(c) \/ ClientStops(c) \/ limited(c)
    PROVE  AuthInv'
<1> USE DEF AuthInv
<1>0. UNCHANGED <<config, flows, callbacks, sessions, logins, devices, agents,
                  requests, approvals>>
  BY DEF ClientSends, ClientReceives, ClientStops, limited
<1>1. clients[c].is = "client" /\ clients[c] \in Client
  BY DEF ClientSends, ClientReceives, ClientStops, limited, Shapes, None
<1>2. PICK k \in Client : clients' = [clients EXCEPT ![c] = k]
  <2>1. CASE ClientSends(c)
    <3>1. [clients[c] EXCEPT !.at = "sent"] \in Client
      BY <1>1 DEF Client
    <3> QED BY <2>1, <3>1 DEF ClientSends
  <2>2. CASE ClientReceives(c)
    <3> DEFINE k == clients[c]
               slower == IF k.answer = "slow_down"
                         THEN AtMost(k.interval + 1, MaxInterval + 1) ELSE k.interval
    <3>1. k.interval \in 1..(MaxInterval + 1)
      BY <1>1 DEF Client
    <3>2. slower \in 1..(MaxInterval + 1) /\ 0 \in 0..(MaxInterval + 1)
      BY <3>1, AuthAssumption DEF AtMost
    <3>3. [k EXCEPT !.at = "wait", !.waited = 0, !.interval = slower] \in Client
      BY <1>1, <3>2 DEF Client
    <3>4. \A as \in {"saved", "denied", "expired", "failed", "stopped"} :
             [is |-> "ended", as |-> as] \in Client
      BY DEF Client
    <3> QED BY <2>2, <3>3, <3>4 DEF ClientReceives
  <2>3. CASE ClientStops(c)
    <3>1. [is |-> "ended", as |-> "stopped"] \in Client
      BY DEF Client
    <3> QED BY <2>3, <3>1 DEF ClientStops
  <2>4. CASE limited(c)
    <3>1. [clients[c] EXCEPT !.at = "answered", !.answer = "slow_down"] \in Client
      BY <1>1 DEF Client
    <3> QED BY <2>4, <3>1 DEF limited
  <2> QED BY <2>1, <2>2, <2>3, <2>4
<1>3. Shapes'
  BY <1>0, <1>2 DEF Shapes
<1>4. \A b \in Codes : clients'[b] = None => clients[b] = None
  BY <1>2, NoneIsNothing DEF Shapes
<1>5. Enrolment'
  BY <1>0, <1>4, PruneKeepsEnrolment
<1>6. FlowsUnused'
  BY <1>0, PruneKeepsFlows
<1> QED BY <1>3, <1>5, <1>6

LEMMA ClockStep ==
    ASSUME AuthInv, Tick
    PROVE  AuthInv'
<1> USE DEF AuthInv
<1>a. \A n, m \in Nat : n \in 0..m => AtMost(n + 1, m) \in 0..m
  BY DEF AtMost
<1>1. flows' \in [Logins -> Flow \cup {None}]
      /\ \A l \in Logins : flows'[l] # None => flows[l] # None
  <2>1. \A x \in Flow : [x EXCEPT !.age = AtMost(@ + 1, FlowTTL)] \in Flow
    BY <1>a, AuthAssumption DEF Flow
  <2> QED BY <2>1 DEF Tick, Shapes
<1>2. sessions' \in [Logins -> Session \cup {None}]
  <2>1. \A x \in Session : [x EXCEPT !.age = AtMost(@ + 1, SessionTTL)] \in Session
    BY <1>a, AuthAssumption DEF Session
  <2> QED BY <2>1 DEF Tick, Shapes
<1>3. ASSUME NEW c \in Codes
      PROVE  \/ devices'[c] = None
             \/ /\ devices[c] # None /\ devices'[c] \in Device
                /\ devices'[c].status = devices[c].status
                /\ devices'[c].owner = devices[c].owner
                /\ devices'[c].products = devices[c].products
  <2>1. CASE devices[c] = None
    BY <2>1 DEF Tick
  <2>2. CASE devices[c] # None
    <3> DEFINE d == devices[c]
               since == IF d.since = Unpolled THEN d.since ELSE AtMost(d.since + 1, MaxInterval)
               age == AtMost(d.age + 1, CodeTTL + Grace + 1)
    <3>1. d \in Device
      BY <2>2 DEF Shapes
    <3>2. d.age \in 0..(CodeTTL + Grace + 1) /\ d.since \in 0..Unpolled
      BY <3>1 DEF Device
    <3>3. age \in 0..(CodeTTL + Grace + 1)
      BY <3>2, AuthAssumption DEF AtMost
    <3>4. since \in 0..Unpolled
      BY <3>2, AuthAssumption DEF AtMost, Unpolled
    <3>5. devices'[c] = [d EXCEPT !.age = age, !.since = since]
      BY <2>2 DEF Tick
    <3> HIDE DEF age, since
    <3> QED BY <2>2, <3>1, <3>3, <3>4, <3>5 DEF Device
  <2> QED BY <2>1, <2>2
<1>4. devices' \in [Codes -> Device \cup {None}]
  <2>1. devices' = [c \in Codes |-> devices'[c]]
    BY DEF Tick
  <2> QED BY <1>3, <2>1
<1>5. ASSUME NEW c \in Codes
      PROVE  clients'[c] \in Client \cup {None} /\ (clients'[c] = None => clients[c] = None)
  <2>1. CASE clients[c].is # "client"
    BY <2>1 DEF Tick, Shapes
  <2>2. CASE clients[c].is = "client"
    <3> DEFINE k == clients[c]
               age == AtMost(k.age + 1, CodeTTL)
               waited == AtMost(k.waited + 1, MaxInterval + 1)
    <3>1. k \in Client
      BY <2>2 DEF Shapes, None
    <3>2. k.age \in 0..CodeTTL /\ k.waited \in 0..(MaxInterval + 1)
      BY <2>2, <3>1 DEF Client
    <3>3. age \in 0..CodeTTL /\ waited \in 0..(MaxInterval + 1)
      BY <3>2, AuthAssumption DEF AtMost
    <3>4. clients'[c] = [k EXCEPT !.age = age, !.waited = waited]
      BY <2>2 DEF Tick
    <3> HIDE DEF age, waited
    <3>5. clients'[c] \in Client
      BY <2>2, <3>1, <3>3, <3>4 DEF Client
    <3> QED BY <3>5, NoneIsNothing
  <2> QED BY <2>1, <2>2
<1>6. clients' \in [Codes -> Client \cup {None}]
  <2>1. clients' = [c \in Codes |-> clients'[c]]
    BY DEF Tick
  <2> QED BY <1>5, <2>1
<1>7. UNCHANGED <<config, callbacks, logins, agents, requests, approvals>>
  BY DEF Tick
<1>8. Shapes'
  BY <1>1, <1>2, <1>4, <1>6, <1>7 DEF Shapes
<1>9. Enrolment'
  BY <1>3, <1>5, <1>7, DecisionsKept
<1>10. FlowsUnused'
  BY <1>1, <1>7 DEF FlowsUnused
<1> QED BY <1>8, <1>9, <1>10

LEMMA PollsStep ==
    ASSUME AuthInv, NEW c \in Codes, ClientPoll(c) \/ StrayPoll(c)
    PROVE  AuthInv'
<1>1. CASE StrayPoll(c)
  BY <1>1, PollStep DEF StrayPoll, AuthInv, Shapes
<1>2. CASE ClientPoll(c)
  <2> DEFINE x == Answer(PruneDevices[c])
             k == [clients[c] EXCEPT !.at = "answered", !.answer = x]
  <2>1. x \in {"token", "pending", "slow_down", "expired_token", "access_denied",
                "invalid_grant"}
    BY DEF Answer
  <2>2. clients[c] \in Client /\ clients[c].is = "client"
    BY <1>2 DEF ClientPoll, AuthInv, Shapes, None
  <2>3. clients' = [clients EXCEPT ![c] = k]
    BY <1>2 DEF ClientPoll
  <2> HIDE DEF x
  <2>4. k \in Client
    BY <2>1, <2>2 DEF Client
  <2>5. clients' \in [Codes -> Client \cup {None}]
        /\ \A b \in Codes : clients'[b] = None <=> clients[b] = None
    BY <2>2, <2>3, <2>4, NoneIsNothing DEF AuthInv, Shapes
  <2> QED BY <1>2, <2>5, PollStep DEF ClientPoll
<1> QED BY <1>1, <1>2

LEMMA NextAuthInv == AuthInv /\ [Next]_authVars => AuthInv'
<1> SUFFICES ASSUME AuthInv, [Next]_authVars PROVE AuthInv'
  OBVIOUS
<1>1. CASE Next
  BY <1>1, PeopleStep, RequestStep, RevokeStep, DecisionStep, CodeStep, PollsStep,
     ClientStep, ClockStep DEF Next
<1>2. CASE UNCHANGED authVars
  BY <1>2 DEF authVars, AuthInv, Shapes, Enrolment, CodesAreAsked, AgentsAreIssued,
     ApprovedOnRecord, OneAgentPerCode, AgentWithinApproval, FlowsUnused
<1> QED BY <1>1, <1>2

(* The inductive invariant holds in every reachable state of the store.     *)
THEOREM AuthInvariant == AuthSpec => []AuthInv
BY InitAuthInv, NextAuthInv, PTL DEF AuthSpec

(* deviceToken makes one agent per device code, however often and from      *)
(* wherever it is called.                                                   *)
THEOREM AgentIsUnique == AuthSpec => []OneAgentPerCode
<1>1. AuthInv => OneAgentPerCode
  BY DEF AuthInv, Enrolment
<1> QED BY <1>1, AuthInvariant, PTL

(* After revokeAgent the token is accepted by no later authenticate.        *)
THEOREM RevocationIsFinal == AuthSpec => []RevokedTokenIsDead
<1>1. AuthInv => RevokedTokenIsDead
  BY DEF AuthInv, Enrolment, OneAgentPerCode, RevokedTokenIsDead, TokenAccepted
<1> QED BY <1>1, AuthInvariant, PTL

(* An agent belongs to the person who approved it, and has no product that  *)
(* person's session did not have (deviceApprove's subset check).            *)
THEOREM AgentsAreApproved == AuthSpec => []AgentWithinApproval
<1>1. AuthInv => AgentWithinApproval
  BY DEF AuthInv, Enrolment
<1> QED BY <1>1, AuthInvariant, PTL

(* callback turns a login flow into one session at most.                    *)
THEOREM OneSessionPerFlow == AuthSpec => []FlowLogsInOnce
<1>1. AuthInv => FlowLogsInOnce
  BY DEF AuthInv, FlowsUnused, FlowLogsInOnce
<1> QED BY <1>1, AuthInvariant, PTL
=============================================================================
