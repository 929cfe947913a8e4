------------------------------ MODULE Routing ------------------------------
(* How calls find the server they are for: a client's resolver, its balancer *)
(* and its connections, against servers that come and go and, for the        *)
(* control plane, against ControlService, which swaps its role (leader or    *)
(* follower) when Raft changes its leader, drains the calls of the old role  *)
(* and stops it. The client of a behaviour is of one kind: "control", "data",*)
(* "api" or "proxy" (an API client whose servers run in proxy mode).         *)
EXTENDS Balancers, FiniteSets

CONSTANTS Servers,   \* ids of the servers the client talks to
          Address,   \* the addresses each of them may have
          Scenarios  \* the client, and what may happen in a behaviour: see MCRouting

ASSUME RoutingAssumption ==
    /\ 0 \in Parts /\ Nobody \notin Servers
    /\ \A sc \in Scenarios : sc.kind \in {"control", "data", "api", "proxy"} /\ sc.left \in [{"moves", "faults", "races"} -> Nat]

VARIABLES clu,   \* the cluster as it is: address of every server, leader and replicas of every partition
          srv,   \* per server: up, what it answers to Discover (view), and of ControlService LeaderChan, isLeader, roles
          bal,   \* the client's balancer
          res,   \* the client's resolver: resolving, and the servers it asks
          call,  \* the client's session with the control plane
          left   \* how many moves, faults and delays inside connectNow are still to come; how many there were

vars == <<clu, srv, bal, res, call, left>>

Kind == bal.kind

Cfg(addr, parts, etag) == [addr |-> addr, parts |-> parts, etag |-> etag]

NoCfg == Cfg(<<>>, <<>>, NoETag)

(* The roles of a server in the order they were created; the last one is the *)
(* one ControlService refers to while it serves.                             *)
NewRole(leads) == [leads |-> leads, stage |-> "starting", inFlight |-> 0]

NoCall == [phase |-> "none", server |-> Nobody, role |-> 0, counted |-> FALSE]

(* A client that is connected as it should be.                               *)
Settled(kind, cfg, addrs) ==
    LET cc == [NewClientConn EXCEPT !.conns = [a \in addrs |-> [real |-> "Ready", state |-> "Ready", timer |-> "no"]]]
    IN  updateState([NewBalancer(kind) EXCEPT !.cc = cc, !.etag = cfg.etag, !.leader = LeaderAddress(cfg),
                                              !.parts = IF kind = "data" THEN updatePartitions(<<>>, cfg) ELSE <<>>])

(* A client that just started knows the address of one server; one that has  *)
(* run for a while is connected and, to the control plane, has its session.  *)
Init ==
    \E sc \in Scenarios :
        LET lead == CHOOSE s \in sc.servers : TRUE
            addr == [s \in sc.servers |-> CHOOSE a \in Address[s] : TRUE]
            parts == [p \in IF sc.kind = "control" THEN {0} ELSE Parts |-> [etag |-> 1, leader |-> lead, replicas |-> sc.servers]]
            cfg == Cfg(addr, parts, 1)
            session == sc.kind = "control" /\ ~sc.fresh
            role(s) == [leads |-> s = lead, stage |-> "serving", inFlight |-> IF session /\ s = lead THEN 1 ELSE 0]
        IN  /\ clu = cfg
            /\ srv = [s \in Servers |->
                        [up |-> s \in sc.servers, view |-> IF s \in sc.servers THEN cfg ELSE NoCfg,
                         leaderChan |-> <<>>, isLeader |-> s = lead,
                         roles |-> IF sc.kind = "control" THEN <<role(s)>> ELSE <<>>]]
            /\ bal = IF sc.fresh THEN NewBalancer(sc.kind)
                     ELSE Settled(sc.kind, cfg, IF sc.kind = "control" THEN {addr[lead]} ELSE Range(addr))
            /\ res = [resolving |-> FALSE, target |-> IF sc.fresh THEN {lead} ELSE sc.servers]
            /\ call = IF session THEN [phase |-> "live", server |-> lead, role |-> 1, counted |-> TRUE] ELSE NoCall
            /\ left = ("raced" :> FALSE) @@ sc.left

-----------------------------------------------------------------------------
(* The cluster.                                                              *)

Move == left.moves > 0 /\ left' = [left EXCEPT !.moves = @ - 1]

Fault == left.faults > 0 /\ left' = [left EXCEPT !.faults = @ - 1]

(* raft.LeaderCh holds the last notification only. The new leader knows.     *)
Notify(sv, cfg, old, new) ==
    [s \in Servers |->
        CASE s = new -> [sv[s] EXCEPT !.leaderChan = <<TRUE>>, !.view = cfg]
          [] s = old -> [sv[s] EXCEPT !.leaderChan = <<FALSE>>]
          [] OTHER -> sv[s]]

(* The partitions of the cluster; the control plane is one to its client.    *)
Led == IF Kind = "control" THEN {0} ELSE Parts

WithLeader(cfg, ps, s) ==
    [cfg EXCEPT !.parts = [p \in DOMAIN @ |-> IF p \in ps THEN [@[p] EXCEPT !.leader = s, !.etag = @ + 1] ELSE @[p]],
                !.etag = @ + 1]

(* Server s takes over partitions ps, that one other server led.             *)
Elect(ps, s, sv) ==
    /\ clu' = WithLeader(clu, ps, s)
    /\ srv' = IF Kind = "control" THEN Notify(sv, clu', clu.parts[0].leader, s) ELSE sv

MoveLeader ==
    /\ Kind \in {"control", "data"} /\ Move
    /\ \E p \in Led, s \in DOMAIN clu.addr :
        s # clu.parts[p].leader /\ srv[s].up /\ Elect({p}, s, srv)
    /\ UNCHANGED <<bal, res, call>>

(* A server registers. The lists that name it are made anew.                 *)
AddServer ==
    /\ Kind \in {"data", "api", "proxy"} /\ Move
    /\ \E s \in Servers \ DOMAIN clu.addr, a \in UNION Range(Address) :
        /\ a \in Address[s]
        /\ clu' = [clu EXCEPT !.addr = (s :> a) @@ @, !.etag = @ + 1]
        /\ srv' = [srv EXCEPT ![s].up = TRUE]
    /\ UNCHANGED <<bal, res, call>>

(* Raft tells a control server who leads; an API server gets its list over   *)
(* its session.                                                              *)
Learn(s) ==
    /\ Kind # "data" /\ srv[s].up /\ srv[s].view # clu
    /\ srv' = [srv EXCEPT ![s].view = clu]
    /\ UNCHANGED <<clu, bal, res, call, left>>

-----------------------------------------------------------------------------
(* ControlService and its roles.                                             *)

RoleIn(s, stage) == {i \in DOMAIN srv[s].roles : srv[s].roles[i].stage = stage}

setRoleUnswapped(sv, leads) ==
    [sv EXCEPT !.isLeader = leads, !.roles = Append(@, NewRole(leads))]

(* setRole takes the old role away and stops it in the background; calls are *)
(* refused until the new role has started.                                   *)
setRole(sv, leads) ==
    [sv EXCEPT !.isLeader = leads,
               !.roles = Append([i \in DOMAIN @ |-> IF @[i].stage = "serving" THEN [@[i] EXCEPT !.stage = "draining"]
                                                    ELSE @[i]],
                                NewRole(leads))]

LeaderChan(s) ==
    /\ srv[s].up /\ RoleIn(s, "starting") = {} /\ srv[s].leaderChan # <<>>
    /\ LET next == Head(srv[s].leaderChan)
           sv == [srv[s] EXCEPT !.leaderChan = <<>>]
       IN  srv' = [srv EXCEPT ![s] = IF next # sv.isLeader THEN setRole(sv, next) ELSE sv]
    /\ UNCHANGED <<clu, bal, res, call, left>>

Started(s) ==
    /\ \E i \in RoleIn(s, "starting") : srv' = [srv EXCEPT ![s].roles[i].stage = "serving"]
    /\ UNCHANGED <<clu, bal, res, call, left>>

(* roleDrainer.Stop: the drainer waits for the calls in flight, then the     *)
(* role's components stop, and the tracker ends what sessions it still has.  *)
Drained(s) ==
    /\ \E i \in RoleIn(s, "draining") :
        /\ srv[s].roles[i].inFlight = 0
        /\ srv' = [srv EXCEPT ![s].roles[i].stage = "stopped"]
        /\ call' = IF call.phase = "live" /\ call.server = s /\ call.role = i THEN NoCall ELSE call
    /\ UNCHANGED <<clu, bal, res, left>>

(* Discover, on the leader and on followers.                                 *)
Discovers(s) ==
    /\ srv[s].up /\ srv[s].view # NoCfg
    /\ Kind = "control" => RoleIn(s, "serving") # {} /\ LeaderAddress(srv[s].view) # Nobody

-----------------------------------------------------------------------------
(* The client: resolver, balancer, connections.                              *)

Updating == \E i \in DOMAIN bal.cc.evts : bal.cc.evts[i].op = "update"

Queue(cfg) == [bal EXCEPT !.cc.evts = Append(@, [op |-> "update", cfg |-> cfg])]

(* The ticker, or gRPC after a connection was lost; one resolve at a time.   *)
Resolve ==
    /\ Kind # "data" /\ ~res.resolving
    /\ res' = [res EXCEPT !.resolving = TRUE]
    /\ UNCHANGED <<clu, srv, bal, call, left>>

(* resolveNow dials one of the servers it knows that is there to answer. On  *)
(* an error it gives up until the next tick.                                 *)
ResolveNow ==
    /\ res.resolving /\ ~Updating
    /\ LET there == {s \in res.target : srv[s].up}
       IN  \/ \E s \in there :
                /\ Discovers(s)
                /\ bal' = Queue(srv[s].view)
                /\ res' = IF Kind = "proxy" THEN res ELSE [res EXCEPT !.target = DOMAIN srv[s].view.addr]
           \/ /\ there = {} \/ \E s \in there : ~Discovers(s)
              /\ res' = [res EXCEPT !.resolving = FALSE]
              /\ UNCHANGED bal
    /\ UNCHANGED <<clu, srv, call, left>>

(* The data client gets its list from the session of its server.             *)
TakeList ==
    /\ Kind = "data" /\ ~Updating /\ bal.etag # clu.etag
    /\ bal' = Queue(clu)
    /\ UNCHANGED <<clu, srv, res, call, left>>

(* The balancer's goroutine. The resolver waits for its update to be taken.  *)
Balance ==
    /\ bal.cc.evts # <<>>
    /\ LET e == Head(bal.cc.evts)
       IN  /\ bal' \in HandleEvent([bal EXCEPT !.cc.evts = Tail(@)], e)
           /\ res' = IF e.op = "update" THEN [res EXCEPT !.resolving = FALSE] ELSE res
    /\ UNCHANGED <<clu, srv, call, left>>

(* The goroutine of connect, when the reconnect interval has passed. It may  *)
(* be held up between its two steps.                                         *)
TimerFires(a) ==
    /\ bal.cc.conns[a].timer = "wait"
    /\ \/ bal' = [bal EXCEPT !.cc = connectNow(@, a)] /\ UNCHANGED left
       \/ /\ left.races > 0
          /\ left' = [left EXCEPT !.races = @ - 1, !.raced = TRUE]
          /\ bal' = [bal EXCEPT !.cc = [GrpcConnect(@, a) EXCEPT !.conns[a].timer = "sent"]]
    /\ UNCHANGED <<clu, srv, res, call>>

TimerDone(a) ==
    /\ bal.cc.conns[a].timer = "sent"
    /\ bal' = [bal EXCEPT !.cc.conns[a].timer = "no"]
    /\ UNCHANGED <<clu, srv, res, call, left>>

(* The server that listens at an address.                                    *)
At(a) == {s \in DOMAIN clu.addr : clu.addr[s] = a /\ srv[s].up}

(* gRPC's side of a connection.                                              *)
Connected(a) ==
    /\ bal.cc.conns[a].real = "Connecting" /\ At(a) # {}
    /\ bal' = [bal EXCEPT !.cc = Becomes(@, a, "Ready", FALSE)]
    /\ UNCHANGED <<clu, srv, res, call, left>>

Refused(a) ==
    /\ bal.cc.conns[a].real = "Connecting"
    /\ IF At(a) = {} THEN UNCHANGED left ELSE Fault
    /\ bal' = [bal EXCEPT !.cc = Becomes(@, a, "TransientFailure", TRUE)]
    /\ UNCHANGED <<clu, srv, res, call>>

(* The backoff, of a second at least, outlasts what the balancer has to do.  *)
BackedOff(a) ==
    /\ bal.cc.conns[a].real = "TransientFailure"
    /\ \A i \in DOMAIN bal.cc.evts : bal.cc.evts[i].op = "update"
    /\ bal' = [bal EXCEPT !.cc = Becomes(@, a, "Idle", FALSE)]
    /\ UNCHANGED <<clu, srv, res, call, left>>

-----------------------------------------------------------------------------
(* The client's session with the control plane.                              *)

InRole(c) == srv[c.server].roles[c.role]

(* A stream ends: the drainer counts it no longer.                           *)
EndCall(sv, c) ==
    IF c.phase # "none" /\ c.counted THEN [sv EXCEPT ![c.server].roles[c.role].inFlight = @ - 1] ELSE sv

(* The call reaches the leader's role. Without a role, or on a follower, it  *)
(* is refused and the client tries again.                                    *)
NewSession ==
    /\ Kind = "control" /\ call.phase = "none"
    /\ \E a \in ControlPick(bal), s \in Servers :
        /\ bal.cc.conns[a].real = "Ready" /\ s \in At(a)
        /\ \E i \in RoleIn(s, "serving") :
            /\ srv[s].roles[i].leads
            /\ call' = [NoCall EXCEPT !.phase = "loaded", !.server = s, !.role = i]
    /\ UNCHANGED <<clu, srv, bal, res, left>>

(* WithDrain counts the call unless the role drains already; either way it   *)
(* goes on to the tracker, which takes it, refuses it while it shuts down,   *)
(* or never answers once it is gone.                                         *)
WithDrain ==
    /\ call.phase = "loaded"
    /\ LET counts == InRole(call).stage = "serving"
           entered == [call EXCEPT !.counted = counts, !.phase = "live"]
       IN  /\ srv' = IF counts THEN [srv EXCEPT ![call.server].roles[call.role].inFlight = @ + 1] ELSE srv
           /\ call' \in IF InRole(call).stage = "stopped" THEN {NoCall, [entered EXCEPT !.phase = "hung"]} ELSE {entered}
    /\ UNCHANGED <<clu, bal, res, left>>

(* The stream's deadline.                                                    *)
StreamTimeout ==
    /\ call.phase \in {"live", "hung"}
    /\ srv' = EndCall(srv, call) /\ call' = NoCall
    /\ UNCHANGED <<clu, bal, res, left>>

-----------------------------------------------------------------------------
(* Faults.                                                                   *)

Dropped(a) == IF bal.cc.conns[a].real = "Ready" THEN Becomes(bal.cc, a, "Idle", FALSE) ELSE bal.cc

(* A connection is lost, and a session on it.                                *)
Drop(a) ==
    /\ bal.cc.conns[a].real = "Ready" /\ Fault
    /\ bal' = [bal EXCEPT !.cc = Dropped(a)]
    /\ IF call.server \in At(a) THEN srv' = EndCall(srv, call) /\ call' = NoCall ELSE UNCHANGED <<srv, call>>
    /\ UNCHANGED <<clu, res>>

(* A server comes back under another address. No partition changes.          *)
Readdress(s) ==
    /\ Kind = "data" /\ Move /\ s \in DOMAIN clu.addr
    /\ \E a \in Address[s] \ {clu.addr[s]} : clu' = [clu EXCEPT !.addr[s] = a, !.etag = @ + 1]
    /\ bal' = IF clu.addr[s] \in Addrs(bal.cc) THEN [bal EXCEPT !.cc = Dropped(clu.addr[s])] ELSE bal
    /\ UNCHANGED <<srv, res, call>>

(* A server stops. Another one leads what it led.                            *)
Crash(s) ==
    /\ srv[s].up /\ Fault
    /\ LET sv == [srv EXCEPT ![s].up = FALSE, ![s].view = NoCfg, ![s].leaderChan = <<>>, ![s].roles = <<>>]
           led == {p \in Led : clu.parts[p].leader = s}
       IN  IF led = {} THEN srv' = sv /\ UNCHANGED clu
           ELSE \E t \in DOMAIN clu.addr \ {s} : srv[t].up /\ Elect(led, t, sv)
    /\ bal' = IF clu.addr[s] \in Addrs(bal.cc) THEN [bal EXCEPT !.cc = Dropped(clu.addr[s])] ELSE bal
    /\ call' = IF call.server = s THEN NoCall ELSE call
    /\ UNCHANGED res

(* mainLoop after the start: the store is bootstrapped, the role is Raft's.  *)
Restart(s) ==
    /\ ~srv[s].up /\ s \in DOMAIN clu.addr
    /\ srv' = [srv EXCEPT ![s].up = TRUE,
                          ![s].isLeader = clu.parts[0].leader = s,
                          ![s].roles = IF Kind = "control" THEN <<NewRole(clu.parts[0].leader = s)>> ELSE <<>>]
    /\ UNCHANGED <<clu, bal, res, call, left>>

-----------------------------------------------------------------------------
Cluster == MoveLeader \/ AddServer

Server(s) == Learn(s) \/ LeaderChan(s) \/ Started(s) \/ Drained(s) \/ Restart(s)

Resolver == Resolve \/ ResolveNow \/ TakeList

Connection(a) == TimerFires(a) \/ TimerDone(a) \/ Connected(a) \/ Refused(a) \/ BackedOff(a)

Session == NewSession \/ WithDrain \/ StreamTimeout

Next ==
    \/ Cluster \/ Resolver \/ Balance \/ Session
    \/ \E s \in Servers : Server(s) \/ Crash(s) \/ Readdress(s)
    \/ \E a \in Addrs(bal.cc) : Connection(a) \/ Drop(a)

Spec == Init /\ [][Next]_vars

Calm(a) == TimerFires(a) \/ TimerDone(a) \/ Connected(a) \/ (At(a) = {} /\ Refused(a)) \/ BackedOff(a)

(* Every goroutine, timer and connection attempt goes on. Nothing is assumed *)
(* of the choice between the steps of one group.                             *)
Fairness ==
    /\ WF_vars(Resolver)
    /\ WF_vars(Balance)
    /\ WF_vars(Session)
    /\ WF_vars(\E s \in Servers : Server(s))
    /\ WF_vars(\E a \in Addrs(bal.cc) : Calm(a))

FairSpec == Spec /\ Fairness

-----------------------------------------------------------------------------
(* The addresses a client of its kind should be connected to.                *)
Wanted ==
    CASE Kind = "control" -> {LeaderAddress(clu)}
      [] Kind = "proxy" -> {Proxy}
      [] OTHER -> AllAddresses(clu)

(* The picker gRPC was given sends calls where they belong.                  *)
PicksRight ==
    CASE Kind = "control" -> ControlPick(bal) = {LeaderAddress(clu)}
      [] Kind = "data" -> \A p \in Led :
            DataPick(bal, p, FALSE) = {AddressOf(clu, clu.parts[p].leader)}
      [] OTHER -> ApiPick(bal) = Wanted

(* A partition keeps the addresses it was made with as long as its ETag, so  *)
(* that a leader which moved to another address is not found.                *)
StaleAddress ==
    \E p \in DOMAIN bal.parts : /\ bal.parts[p].etag = clu.parts[p].etag
                                /\ bal.parts[p].leader # AddressOf(clu, clu.parts[p].leader)

(* A connection that went idle while connectNow was held up between Connect  *)
(* and the reset of its flag is not connected again.                         *)
WakeupLost == left.raced /\ \E a \in Addrs(bal.cc) : bal.cc.conns[a] = [real |-> "Idle", state |-> "Idle", timer |-> "no"]

(* Once the cluster is quiet the client's balancer is connected to exactly   *)
(* the servers it is for, has told gRPC that it is ready, and its picker     *)
(* sends every call to the right one, although listeners find a connection   *)
(* by its address and attempts to connect are throttled. The two exceptions  *)
(* are the ways in which the code does lose a connection.                    *)
ConnectionsSettle ==
    <>[](\/ Addrs(bal.cc) = Wanted /\ SubConnReady(bal.cc) = Wanted /\ bal.pub.state = "Ready" /\ PicksRight
         \/ StaleAddress
         \/ WakeupLost)

(* A leader's components act until its role has drained.                     *)
ActsAsLeader(s) == {i \in DOMAIN srv[s].roles : srv[s].roles[i].leads /\ srv[s].roles[i].stage # "stopped"}

(* A deposed leader's tracker and assigner go on while the role drains, but  *)
(* in the end the role that serves on the leader is the only one that acts   *)
(* as leader.                                                                *)
RolesSettle ==
    <>[](Kind = "control" =>
            \A s \in Servers : ActsAsLeader(s) = IF s = clu.parts[0].leader THEN {Len(srv[s].roles)} ELSE {})

(* The client's session is renewed again and again with the role that leads, *)
(* also when it was with a leader that was deposed and went on running.      *)
SessionFollows ==
    Kind = "control" ~> (call.phase = "live" /\ call.server = clu.parts[0].leader /\ InRole(call).stage = "serving")
=============================================================================
