----------------------------- MODULE DeviceAuth -----------------------------
(***************************************************************************)
(* The authentication boundary (internal/auth): people log in through an   *)
(* identity provider, agents enrol with a device code that a person        *)
(* approves, and agents keep their own revocable token.  The client side   *)
(* of the enrolment (internal/agentconnect, RunLogin) is modelled as well. *)
(*                                                                         *)
(* Every handler is one update of the encrypted store, serialised by the   *)
(* row lock or by bolt; each update prunes first.  Two handlers leave the  *)
(* store in between: callback talks to the identity provider after it used *)
(* up the login flow, and Wrap authenticates a request in one update while *)
(* the handler acts in a later one, on the principal it was given.         *)
(*                                                                         *)
(* Times are ages: ticks since a record was made, capped where the code    *)
(* stops telling them apart.  A tick is five seconds of polling interval.  *)
(* The rate limiter may refuse any login, callback, code or poll: one not  *)
(* made, except that a client whose poll is refused waits longer.          *)
(* Every human may read, write and deploy, and deviceCode refuses other    *)
(* scopes, so that the check of permissions can never fail: only the       *)
(* products of a grant are kept.                                           *)
(***************************************************************************)
EXTENDS Naturals, Sequences, FiniteSets

CONSTANTS
    Codes,        \* device codes; deviceCode draws a fresh one each time
    Logins,       \* states of login flows, equally fresh
    Humans,       \* subjects of the identity provider
    Roles,        \* the roles they may have: a subset of {"member", "admin"}
    Configs,      \* the product lists the server may be configured with
    All,          \* the product "*"
    Capacity,     \* limit of flows, sessions and devices (4096)
    MaxAttempts,  \* limit of decisions tried on one code (10)
    MaxInterval,  \* limit of the polling interval (60 s)
    FlowTTL,      \* life of a login flow (10 min)
    SessionTTL,   \* life of a session
    CodeTTL,      \* life of a device code (10 min)
    Grace,        \* how long an expired device is kept (1 h)
    MaxRequests,  \* requests authenticated and not yet handled, a bound
    OtherPollers  \* whether others than the client poll with its code

Products == UNION Configs

ASSUME AuthAssumption ==
    /\ All \in Products
    /\ \A C \in Configs : C # {}
    /\ Roles \subseteq {"member", "admin"}
    /\ {Capacity, MaxAttempts, FlowTTL, SessionTTL, CodeTTL} \subseteq Nat \ {0}
    /\ {Grace, MaxRequests} \subseteq Nat
    /\ MaxInterval \in Nat \ {0}
    /\ OtherPollers \in BOOLEAN

VARIABLES
    config,     \* the products of the running server's configuration
    flows,      \* authState.Flows
    callbacks,  \* callbacks between the provider's answer and their session
    sessions,   \* authState.Sessions, under the flow they came from
    logins,     \* how many sessions a flow led to (history)
    devices,    \* authState.Devices
    agents,     \* authState.Agents in order of creation
    requests,   \* requests of people, authenticated and not yet handled
    clients,    \* the login command that waits for each code
    approvals   \* the principal that approved a code (history)

authVars == <<config, flows, callbacks, sessions, logins, devices, agents,
              requests, clients, approvals>>

None == [is |-> "none"]

Principal == [id : Humans, role : Roles, products : Configs]

Flow == [is : {"flow"}, age : 0..FlowTTL]

Session == [is : {"session"}, principal : Principal, age : 0..SessionTTL]

(* LastPoll is kept as the ticks since then, Unpolled when it is zero.      *)
Unpolled == MaxInterval + 1

Device == [is : {"device"}, status : {"pending", "approved", "denied", "issued"},
           products : SUBSET Products, owner : Humans \cup {None},
           agent : Nat, age : 0..(CodeTTL + Grace + 1), since : 0..Unpolled,
           interval : 1..MaxInterval, attempts : 0..(MaxAttempts + 1)]

(* The token is computed from the device code: the code stands for it.      *)
Agent == [token : Codes, owner : Humans, products : SUBSET Products,
          revoked : BOOLEAN]

Request == [by : Principal, session : Logins,
            do : {"approve", "deny", "revoke", "logout"}, target : Codes \cup Nat]

Client == [is : {"client"}, at : {"wait", "sent", "answered"},
           answer : {"none", "token", "pending", "slow_down", "expired_token",
                     "access_denied", "invalid_grant"},
           interval : 1..(MaxInterval + 1), waited : 0..(MaxInterval + 1),
           age : 0..CodeTTL]
    \cup [is : {"ended"}, as : {"saved", "denied", "expired", "failed", "stopped"}]

Present(f) == {k \in DOMAIN f : f[k] # None}

AtMost(n, m) == IF n > m THEN m ELSE n

(* prune, at the head of every update.                                      *)
PruneFlows == [l \in Logins |->
    IF flows[l] # None /\ flows[l].age >= FlowTTL THEN None ELSE flows[l]]

PruneSessions == [l \in Logins |->
    IF sessions[l] # None /\ sessions[l].age >= SessionTTL THEN None ELSE sessions[l]]

(* Mutant: only codes that were never decided are removed.                  *)
PruneUndecided == [c \in Codes |->
    IF devices[c] # None /\ devices[c].age > CodeTTL + Grace /\ devices[c].status = "pending"
    THEN None ELSE devices[c]]

PruneDevices == [c \in Codes |->
    IF devices[c] # None /\ devices[c].age > CodeTTL + Grace THEN None ELSE devices[c]]

(* subset: a list that contains "*" allows everything.                      *)
Covers(allowed, want) == want # {} /\ (All \in allowed \/ want \subseteq allowed)

-----------------------------------------------------------------------------
(* People log in.                                                           *)

login(l) ==
    /\ logins[l] = 0 /\ flows[l] = None /\ l \notin callbacks
    /\ Cardinality(Present(PruneFlows)) < Capacity
    /\ flows' = [PruneFlows EXCEPT ![l] = [is |-> "flow", age |-> 0]]
    /\ sessions' = PruneSessions /\ devices' = PruneDevices
    /\ UNCHANGED <<config, callbacks, logins, agents, requests, clients, approvals>>

(* callback, first update: the flow is used up, whether or not the          *)
(* provider's answer will be accepted.                                      *)
TakeFlow(l) ==
    /\ PruneFlows[l] # None
    /\ flows' = [PruneFlows EXCEPT ![l] = None]
    /\ sessions' = PruneSessions /\ devices' = PruneDevices
    /\ callbacks' = callbacks \cup {l}
    /\ UNCHANGED <<config, logins, agents, requests, clients, approvals>>

(* callback, second update: exchange, identity and role were accepted.      *)
CreateSession(l, h, role) ==
    /\ l \in callbacks
    /\ Cardinality(Present(PruneSessions)) < Capacity
    /\ sessions' = [PruneSessions EXCEPT ![l] =
           [is |-> "session", age |-> 0,
            principal |-> [id |-> h, role |-> role, products |-> config]]]
    /\ logins' = [logins EXCEPT ![l] = @ + 1]
    /\ callbacks' = callbacks \ {l}
    /\ flows' = PruneFlows /\ devices' = PruneDevices
    /\ UNCHANGED <<config, agents, requests, clients, approvals>>

(* A failed exchange, a foreign identity, a missing role or no room left.   *)
LoginFails(l) ==
    /\ l \in callbacks
    /\ callbacks' = callbacks \ {l}
    /\ UNCHANGED <<config, flows, sessions, logins, devices, agents, requests, clients, approvals>>

(* Wrap and authenticate: a session that has not expired names the          *)
(* principal of the request.                                                *)
authenticate(l, what, target) ==
    /\ PruneSessions[l] # None
    /\ Cardinality(requests) < MaxRequests
    /\ requests' = requests \cup
         {[by |-> sessions[l].principal, session |-> l, do |-> what, target |-> target]}
    /\ flows' = PruneFlows /\ sessions' = PruneSessions /\ devices' = PruneDevices
    /\ UNCHANGED <<config, callbacks, logins, agents, clients, approvals>>

logout(r) ==
    /\ r \in requests /\ r.do = "logout"
    /\ requests' = requests \ {r}
    /\ sessions' = [PruneSessions EXCEPT ![r.session] = None]
    /\ flows' = PruneFlows /\ devices' = PruneDevices
    /\ UNCHANGED <<config, callbacks, logins, agents, clients, approvals>>

-----------------------------------------------------------------------------
(* Device codes.                                                            *)

(* deviceCode's limit of codes not yet pruned.                              *)
RoomForCode == Cardinality(Present(PruneDevices)) < Capacity

(* deviceCode: an empty list of products asks for all that is configured.   *)
deviceCode(c, wanted) ==
    LET products == IF wanted = {} THEN config ELSE wanted IN
    /\ clients[c] = None
    /\ Covers(config, products)
    /\ RoomForCode
    /\ devices' = [PruneDevices EXCEPT ![c] =
           [is |-> "device", status |-> "pending", products |-> products,
            owner |-> None, agent |-> 0, age |-> 0, since |-> Unpolled,
            interval |-> 1, attempts |-> 0]]
    /\ clients' = [clients EXCEPT ![c] =
           [is |-> "client", at |-> "wait", answer |-> "none", interval |-> 1,
            waited |-> 0, age |-> 0]]
    /\ flows' = PruneFlows /\ sessions' = PruneSessions
    /\ UNCHANGED <<config, callbacks, logins, agents, requests, approvals>>

(* deviceToken's answer, from the device as prune left it.                  *)
TooSoon(d) == d.since # Unpolled /\ d.since < d.interval

Answer(d) ==
    IF d = None THEN "invalid_grant"
    ELSE IF d.age >= CodeTTL THEN "expired_token"
    ELSE IF d.status = "denied" \/ (d.status = "issued" /\ agents[d.agent].revoked)
         THEN "access_denied"
    ELSE IF d.status = "issued" THEN "token"
    ELSE IF TooSoon(d) THEN "slow_down"
    ELSE IF d.status = "approved" THEN "token" ELSE "pending"

(* Mutant: the code stays approved.                                         *)
PolledStaysApproved(d) ==
    IF Answer(d) \in {"slow_down", "pending"} THEN [d EXCEPT !.since = 0] ELSE d

(* What a poll leaves behind: a slower interval, the time of the poll, or   *)
(* the one agent of an approved code.                                       *)
Polled(d) ==
    CASE Answer(d) = "slow_down" ->
            [d EXCEPT !.interval = AtMost(@ + 1, MaxInterval), !.since = 0]
      [] Answer(d) = "pending" -> [d EXCEPT !.since = 0]
      [] Answer(d) = "token" /\ d.status = "approved" ->
            [d EXCEPT !.since = 0, !.status = "issued", !.agent = Len(agents) + 1]
      [] OTHER -> d

Issued(c, d) ==
    IF Answer(d) = "token" /\ d.status = "approved"
    THEN Append(agents, [token |-> c, owner |-> d.owner, products |-> d.products,
                         revoked |-> FALSE])
    ELSE agents

deviceToken(c) ==
    LET d == PruneDevices[c] IN
    /\ devices' = [PruneDevices EXCEPT ![c] = Polled(d)]
    /\ agents' = Issued(c, d)
    /\ flows' = PruneFlows /\ sessions' = PruneSessions
    /\ UNCHANGED <<config, callbacks, logins, requests, approvals>>

(* The poll of the waiting client ...                                       *)
ClientPoll(c) ==
    /\ clients[c].is = "client" /\ clients[c].at = "sent"
    /\ deviceToken(c)
    /\ clients' = [clients EXCEPT ![c].at = "answered",
                                  ![c].answer = Answer(PruneDevices[c])]

(* ... which the rate limiter may refuse before the store is asked ...      *)
limited(c) ==
    /\ clients[c].is = "client" /\ clients[c].at = "sent"
    /\ clients' = [clients EXCEPT ![c].at = "answered", ![c].answer = "slow_down"]
    /\ UNCHANGED <<config, flows, callbacks, sessions, logins, devices, agents, requests, approvals>>

(* ... one whose client has given up, or one of somebody else who was       *)
(* shown the code.                                                          *)
StrayPoll(c) ==
    /\ clients[c].is = "ended" \/ (OtherPollers /\ clients[c].is = "client")
    /\ deviceToken(c)
    /\ UNCHANGED clients

(* Mutant: the approver's products are not looked at.                        *)
RefusedWhenDecided(r, d) == d.status # "pending" \/ d.attempts >= MaxAttempts

(* deviceApprove, for /auth/device/approve and /auth/device/deny.           *)
Refused(r, d) ==
    \/ d.status # "pending"
    \/ d.attempts >= MaxAttempts
    \/ ~Covers(r.by.products, d.products)

deviceApprove(r) ==
    LET c == r.target
        d == PruneDevices[c]
        tried == [d EXCEPT !.attempts = AtMost(@ + 1, MaxAttempts + 1)]
        open == d # None /\ d.age < CodeTTL
        refused == Refused(r, d)
    IN
    /\ r \in requests /\ r.do \in {"approve", "deny"}
    /\ requests' = requests \ {r}
    /\ devices' = [PruneDevices EXCEPT ![c] =
           IF ~open THEN d ELSE IF refused THEN tried
           ELSE [tried EXCEPT !.owner = r.by.id,
                     !.status = IF r.do = "deny" THEN "denied" ELSE "approved"]]
    /\ approvals' = [approvals EXCEPT ![c] =
           IF open /\ ~refused /\ r.do = "approve" THEN r.by ELSE @]
    /\ flows' = PruneFlows /\ sessions' = PruneSessions
    /\ UNCHANGED <<config, callbacks, logins, agents, clients>>

(* revokeAgent: the owner, or an administrator.                             *)
revokeAgent(r) ==
    LET i == r.target
        may == i \in DOMAIN agents
               /\ (agents[i].owner = r.by.id \/ r.by.role = "admin")
    IN
    /\ r \in requests /\ r.do = "revoke"
    /\ requests' = requests \ {r}
    /\ agents' = IF may THEN [agents EXCEPT ![i].revoked = TRUE] ELSE agents
    /\ flows' = PruneFlows /\ sessions' = PruneSessions /\ devices' = PruneDevices
    /\ UNCHANGED <<config, callbacks, logins, clients, approvals>>

(* authenticate with a token: does some agent's verifier match?             *)
TokenAccepted(c) == \E i \in DOMAIN agents : agents[i].token = c /\ ~agents[i].revoked

(* The updates that change no record: devicePage, listAgents, authenticate  *)
(* with a token.                                                            *)
ReadStore ==
    /\ flows' = PruneFlows /\ sessions' = PruneSessions /\ devices' = PruneDevices
    /\ UNCHANGED <<config, callbacks, logins, agents, requests, clients, approvals>>

(* The server stops and starts with another configuration: requests and     *)
(* callbacks under way are gone, sessions keep the products they had.       *)
Restart(C) ==
    /\ config' = C
    /\ callbacks' = {} /\ requests' = {}
    /\ clients' = [c \in Codes |->
           IF clients[c].is = "client" /\ clients[c].at # "wait"
           THEN [is |-> "ended", as |-> "failed"] ELSE clients[c]]
    /\ flows' = PruneFlows /\ sessions' = PruneSessions /\ devices' = PruneDevices
    /\ UNCHANGED <<logins, agents, approvals>>

-----------------------------------------------------------------------------
(* The login command: pollDevice and saveCredential.                        *)

ClientSends(c) ==
    /\ clients[c].is = "client" /\ clients[c].at = "wait"
    /\ clients[c].waited >= clients[c].interval
    /\ clients[c].age < CodeTTL
    /\ clients' = [clients EXCEPT ![c].at = "sent"]
    /\ UNCHANGED <<config, flows, callbacks, sessions, logins, devices, agents, requests, approvals>>

(* On "slow_down" the client waits longer, without a limit; every answer    *)
(* other than "pending" and "slow_down" ends the loop.                      *)
ClientReceives(c) ==
    LET k == clients[c] IN
    /\ k.is = "client" /\ k.at = "answered"
    /\ clients' = [clients EXCEPT ![c] =
           CASE k.answer \in {"pending", "slow_down"} ->
                  [k EXCEPT !.at = "wait", !.waited = 0,
                     !.interval = IF k.answer = "slow_down"
                                  THEN AtMost(@ + 1, MaxInterval + 1) ELSE @]
             [] k.answer = "token" -> [is |-> "ended", as |-> "saved"]
             [] k.answer = "expired_token" -> [is |-> "ended", as |-> "expired"]
             [] k.answer = "access_denied" -> [is |-> "ended", as |-> "denied"]
             [] OTHER -> [is |-> "ended", as |-> "failed"]]
    /\ UNCHANGED <<config, flows, callbacks, sessions, logins, devices, agents, requests, approvals>>

(* A failed request ends the loop, and so does the context, at the latest   *)
(* when the code has expired.                                               *)
ClientStops(c) ==
    /\ clients[c].is = "client"
    /\ clients' = [clients EXCEPT ![c] = [is |-> "ended", as |-> "stopped"]]
    /\ UNCHANGED <<config, flows, callbacks, sessions, logins, devices, agents, requests, approvals>>

ClientExpires(c) == ClientStops(c) /\ clients[c].age >= CodeTTL

(* A tick of the clock; a stray poll may come at any later time.            *)
Tick ==
    /\ flows' = [l \in Logins |-> IF flows[l] = None THEN None
           ELSE [flows[l] EXCEPT !.age = AtMost(@ + 1, FlowTTL)]]
    /\ sessions' = [l \in Logins |-> IF sessions[l] = None THEN None
           ELSE [sessions[l] EXCEPT !.age = AtMost(@ + 1, SessionTTL)]]
    /\ devices' = [c \in Codes |-> IF devices[c] = None THEN None
           ELSE [devices[c] EXCEPT !.age = AtMost(@ + 1, CodeTTL + Grace + 1),
                   !.since = IF @ = Unpolled THEN @ ELSE AtMost(@ + 1, MaxInterval)]]
    /\ clients' = [c \in Codes |-> IF clients[c].is # "client" THEN clients[c]
           ELSE [clients[c] EXCEPT !.age = AtMost(@ + 1, CodeTTL),
                   !.waited = AtMost(@ + 1, MaxInterval + 1)]]
    /\ UNCHANGED <<config, callbacks, logins, agents, requests, approvals>>

Init ==
    /\ config \in Configs
    /\ flows = [l \in Logins |-> None] /\ sessions = [l \in Logins |-> None]
    /\ callbacks = {} /\ logins = [l \in Logins |-> 0]
    /\ devices = [c \in Codes |-> None] /\ agents = <<>> /\ requests = {}
    /\ clients = [c \in Codes |-> None] /\ approvals = [c \in Codes |-> None]

Next ==
    \/ \E l \in Logins :
          \/ login(l) \/ TakeFlow(l) \/ LoginFails(l)
          \/ \E h \in Humans, role \in Roles : CreateSession(l, h, role)
          \/ \E c \in Codes : authenticate(l, "approve", c) \/ authenticate(l, "deny", c)
          \/ \E i \in DOMAIN agents : authenticate(l, "revoke", i)
          \/ authenticate(l, "logout", 0)
    \/ \E r \in requests : deviceApprove(r) \/ revokeAgent(r) \/ logout(r)
    \/ \E c \in Codes :
          \/ \E wanted \in SUBSET Products : deviceCode(c, wanted)
          \/ ClientSends(c) \/ ClientPoll(c) \/ ClientReceives(c) \/ ClientStops(c)
          \/ StrayPoll(c) \/ limited(c)
    \/ ReadStore
    \/ \E C \in Configs : Restart(C)
    \/ Tick

AuthSpec == Init /\ [][Next]_authVars

(* The clock runs, the server answers what the client sent, the client      *)
(* goes on with its loop or with its end, and now and then somebody uses    *)
(* the store.                                                               *)
AuthFairSpec ==
    /\ AuthSpec
    /\ WF_authVars(Tick) /\ WF_authVars(ReadStore)
    /\ \A c \in Codes :
         /\ WF_authVars(ClientSends(c)) /\ WF_authVars(ClientPoll(c))
         /\ WF_authVars(ClientReceives(c))
         /\ WF_authVars(ClientExpires(c))

-----------------------------------------------------------------------------
(* Properties.                                                              *)

(* Repeated and concurrent polls of an approved code make one agent         *)
(* (deviceToken; docs/AUTHENTICATION.md: "atomically creates one agent").   *)
OneAgentPerCode ==
    \A i, k \in DOMAIN agents : agents[i].token = agents[k].token => i = k

(* A token is dead from the moment its agent was revoked, whatever polls    *)
(* of its code were under way then or come later.                           *)
RevokedTokenIsDead ==
    \A i \in DOMAIN agents : agents[i].revoked => ~TokenAccepted(agents[i].token)

(* Every agent was approved by the person it belongs to, and has no         *)
(* product that person's session did not have, although the server may      *)
(* have been reconfigured since the code or the session was made.           *)
AgentWithinApproval ==
    \A i \in DOMAIN agents :
        /\ approvals[agents[i].token] # None
        /\ approvals[agents[i].token].id = agents[i].owner
        /\ Covers(approvals[agents[i].token].products, agents[i].products)

(* A login flow leads to one session at most, however often the browser     *)
(* repeats the callback.                                                    *)
FlowLogsInOnce == \A l \in Logins : logins[l] <= 1

(* The login command ends, and the tables are emptied: no code holds its    *)
(* place for ever, so that a full table takes new codes again.              *)
CodesEnd ==
    \A c \in Codes : (clients[c].is = "client")
                     ~> (clients[c].is = "ended" /\ devices[c] = None)
=============================================================================
