------------------------------ MODULE Sessions ------------------------------
(***************************************************************************)
(* How what the control plane knows reaches the servers: the session       *)
(* tracker of the control server that leads, the session streams with      *)
(* their send buffers, the servers' end of the streams and the in-process  *)
(* event bus behind it.  A data server follows its configuration, an API   *)
(* server the list of data servers, from which its balancer routes calls   *)
(* to the leader of a partition.                                           *)
(*                                                                         *)
(*   truth     whether data servers have registered, the assignments that  *)
(*             were committed, the term of the partition leader            *)
(*   trk       the tracker: what it knows of these, the list and the       *)
(*             version of the configurations it sends, debounced updates   *)
(*             to come, and the events the store left on the bus           *)
(*   ses[s]    its latest session with server s                            *)
(*   dones     sessionLoopDone messages of the loops of ended streams      *)
(*   cli[s]    server s: its stream, the ETag of what it follows, messages *)
(*             on their way to the tracker, what the bus holds for the     *)
(*             subscriber and what the subscriber uses                     *)
(*   left      how many assignments, moves of the partition leader, and    *)
(*             broken streams or lost control leaders are still to come    *)
(***************************************************************************)
EXTENDS Naturals, Sequences, FiniteSets, Functions

CONSTANTS
    DataServers,     \* ids of data servers
    ApiServers,      \* ids of API servers
    Scenarios,       \* what it starts with: the servers with sessions, whether data servers
                     \* have registered, term, version, and the assignments, moves of the
                     \* leader and faults to come
    LeaderIn,        \* a sequence: the server that leads the partition in each term
    SendBufferSize,  \* of a session, as trySend meets it
    SessionIds       \* ids of sessions, used again when no loop of the old session is left

VARIABLES truth, trk, ses, dones, cli, left

vars == <<truth, trk, ses, dones, cli, left>>

(* The servers whose sessions are modelled *)
Servers == DOMAIN cli

(* 0 is no server, no version and no ETag: an empty channel *)
None == 0

Msg(kind, val) == [kind |-> kind, val |-> val]

NoMsg == Msg("none", None)

NoBeat == [tag |-> None, term |-> 0]

(* What a server uses of the messages it is sent *)
Follows(s) == IF s \in DataServers THEN "config" ELSE "list"

NewSession(id, config, kinds) ==
    [id |-> id, live |-> TRUE, config |-> config, buf |-> <<>>, todo |-> kinds, held |-> NoMsg, reply |-> NoMsg]

NoSession(id) == [NewSession(id, None, <<>>) EXCEPT !.live = FALSE]

(* updateDataServerList: the list names the leader's server.  The ETag of   *)
(* the list is that of its partitions, which is made of the leader and the  *)
(* replicas: a list is its own ETag.  A list may have no data servers, and  *)
(* servers but no leader.                                                   *)
EmptyList == 100

LeaderlessList == 101

ListOf(registered, term) ==
    IF ~registered THEN EmptyList ELSE IF term = 0 THEN LeaderlessList ELSE LeaderIn[term]

(* A subscriber of the event bus has room for one event: tryPublish drops   *)
(* what comes while it is there.                                            *)
tryPublish(slot, event) == IF slot = None THEN event ELSE slot

(* DebounceChan: what was asked for several times before the delay passed   *)
(* is done once.                                                            *)
Debounced(due, kinds) == due \cup kinds

newTracker(registered, version, term) ==
    [reg |-> registered, asg |-> version, term |-> term, list |-> ListOf(registered, term),
     config |-> version, due |-> {}, regEvent |-> FALSE, event |-> None]

Init ==
    /\ \E start \in Scenarios :
         /\ truth = [reg |-> start.reg, asg |-> start.asg, term |-> start.term]
         /\ left = [assigns |-> start.assigns, moves |-> start.moves, faults |-> start.faults]
         /\ trk = newTracker(start.reg, start.asg, start.term)
         /\ ses = [s \in start.servers |-> NoSession(0)]
         /\ cli = [s \in start.servers |->
                     [on |-> FALSE, hello |-> FALSE, tag |-> None, beat |-> NoBeat, refresh |-> IF s \in ApiServers THEN "asked" ELSE "never",
                      get |-> None, slot |-> None, used |-> None]]
    /\ dones = {}

-----------------------------------------------------------------------------
(* The cluster around the sessions *)

(* The first data server registers *)
Register ==
    /\ ~truth.reg
    /\ truth' = [truth EXCEPT !.reg = TRUE]
    /\ trk' = [trk EXCEPT !.regEvent = TRUE]
    /\ UNCHANGED <<ses, dones, cli, left>>

(* An assignment is committed; the leader's store publishes it, in vain     *)
(* while the tracker has not taken the last event.                          *)
Assign ==
    /\ truth.reg /\ left.assigns > 0
    /\ truth' = [truth EXCEPT !.asg = @ + 1]
    /\ trk' = [trk EXCEPT !.event = tryPublish(@, truth.asg + 1)]
    /\ left' = [left EXCEPT !.assigns = @ - 1]
    /\ UNCHANGED <<ses, dones, cli>>

MoveLeader ==
    /\ truth.asg > 0 /\ left.moves > 0
    /\ truth' = [truth EXCEPT !.term = @ + 1]
    /\ left' = [left EXCEPT !.moves = @ - 1]
    /\ UNCHANGED <<trk, ses, dones, cli>>

Fault == left.faults > 0 /\ left' = [left EXCEPT !.faults = @ - 1]

-----------------------------------------------------------------------------
(* The tracker's main loop *)

trySend(se, msg) == IF Len(se.buf) < SendBufferSize THEN [se EXCEPT !.buf = Append(@, msg)] ELSE se

(* What a session is sent first *)
Greeting(s) == IF s \in DataServers THEN <<"hello", "config", "list">> ELSE <<"hello", "config", "list", "apis">>

(* Only the configuration of a data server changes *)
ConfigOf(s) == IF s \in DataServers THEN trk.config ELSE 1

(* A stream is opened: NewSession, and the main loop's startSession.  The   *)
(* list is due to be made anew unless the server had a session with the     *)
(* same address.  The new stream's subscription replays the last refresh.   *)
StartSession(s) ==
    /\ ~cli[s].on
    /\ LET free == {id \in SessionIds \ {ses[s].id} : \A d \in dones : <<d[1], d[2]>> # <<s, id>>}
       IN  /\ free # {}
           /\ ses' = [ses EXCEPT ![s] = NewSession(CHOOSE id \in free : TRUE, ConfigOf(s), Greeting(s))]
    /\ trk' = [trk EXCEPT !.due = IF s \in DataServers /\ ~ses[s].live THEN Debounced(@, {"list"}) ELSE @]
    /\ cli' = [cli EXCEPT ![s].on = TRUE, ![s].hello = FALSE,
                          ![s].refresh = IF @ = "never" THEN @ ELSE "asked"]
    /\ UNCHANGED <<truth, dones, left>>

(* The loops of the stream of session id end, the client's end is closed *)
EndStream(s) ==
    /\ cli' = [cli EXCEPT ![s].on = FALSE, ![s].beat = NoBeat, ![s].get = None]
    /\ dones' = dones \cup {<<s, ses[s].id, loop>> : loop \in {"send", "recv"}}

(* Mutant of closeSession: the session is found by its server *)
closeSessionOfServer(s, id) == ses[s].live

(* closeSession has something to close: the session is found by its id *)
closeSession(s, id) == ses[s].live /\ ses[s].id = id

LoopDone(s, id, loop) ==
    /\ <<s, id, loop>> \in dones
    /\ IF closeSession(s, id)
       THEN /\ ses' = [ses EXCEPT ![s] = NoSession(ses[s].id)]
            /\ cli' = [cli EXCEPT ![s].on = FALSE, ![s].beat = NoBeat, ![s].get = None]
       ELSE UNCHANGED <<ses, cli>>
    /\ dones' = dones \ {<<s, id, loop>>}
    /\ UNCHANGED <<truth, trk, left>>

(* The list is made, kept and sent to every session, unless it is the same *)
updateDataServerList(registered, term) ==
    LET new == ListOf(registered, term)
    IN  ses' = IF new = trk.list THEN ses
               ELSE [s \in Servers |-> IF ses[s].live THEN trySend(ses[s], Msg("list", new)) ELSE ses[s]]

(* serversSub *)
TakeServers ==
    /\ trk.regEvent
    /\ trk' = [trk EXCEPT !.regEvent = FALSE, !.reg = TRUE, !.list = ListOf(TRUE, trk.term)]
    /\ updateDataServerList(TRUE, trk.term)
    /\ UNCHANGED <<truth, dones, cli, left>>

(* partitionsSub *)
TakePartitions ==
    /\ trk.event # None
    /\ trk' = [trk EXCEPT !.event = None, !.asg = trk.event,
                          !.due = IF trk.event = trk.asg THEN @ ELSE Debounced(@, {"list", "config"})]
    /\ UNCHANGED <<truth, ses, dones, cli, left>>

(* updateDataServerList, when its debounced update arrives *)
UpdateList ==
    /\ "list" \in trk.due
    /\ trk' = [trk EXCEPT !.due = @ \ {"list"}, !.list = ListOf(trk.reg, trk.term)]
    /\ updateDataServerList(trk.reg, trk.term)
    /\ UNCHANGED <<truth, dones, cli, left>>

(* updateDataServerConfigs *)
UpdateConfigs ==
    /\ "config" \in trk.due
    /\ trk' = [trk EXCEPT !.due = @ \ {"config"}, !.config = trk.asg]
    /\ ses' = [s \in Servers |->
                 IF s \in DataServers /\ ses[s].live /\ ses[s].config # trk.asg
                 THEN trySend([ses[s] EXCEPT !.config = trk.asg], Msg("config", trk.asg))
                 ELSE ses[s]]
    /\ UNCHANGED <<truth, dones, cli, left>>

(* Mutant of recordReplicaStatus: a new leader is recorded and not sent *)
recordReplicaStatusQuietly(term) ==
    trk' = IF term > trk.term THEN [trk EXCEPT !.term = term] ELSE trk

(* recordReplicaStatus: a leader is known by the highest term reported *)
recordReplicaStatus(term) ==
    trk' = IF term > trk.term THEN [trk EXCEPT !.term = term, !.due = Debounced(@, {"list"})] ELSE trk

(* The heartbeat of a leader whose session is not modelled *)
OtherHeartbeat ==
    /\ truth.term > trk.term
    /\ LeaderIn[truth.term] \notin Servers
    /\ recordReplicaStatus(truth.term)
    /\ UNCHANGED <<truth, ses, dones, cli, left>>

-----------------------------------------------------------------------------
(* The loops of a session *)

(* sessionSendLoop enqueues its first messages.  What a configuration or a  *)
(* list says is read before it is enqueued.                                 *)
Load(s) ==
    LET kind == Head(ses[s].todo)
    IN  /\ ses[s].live /\ ses[s].todo # <<>> /\ ses[s].held = NoMsg
        /\ kind \in {"config", "list"}
        /\ ses' = [ses EXCEPT ![s].held = Msg(kind, IF kind = "config" THEN ses[s].config ELSE trk.list)]
        /\ UNCHANGED <<truth, trk, dones, cli, left>>

Enqueue(s) ==
    /\ ses[s].live /\ ses[s].todo # <<>>
    /\ ses[s].held.kind = Head(ses[s].todo) \/ Head(ses[s].todo) \in {"hello", "apis"}
    /\ ses' = [ses EXCEPT ![s].buf = Append(@, IF ses[s].held # NoMsg THEN ses[s].held ELSE Msg(Head(ses[s].todo), 1)),
                          ![s].held = NoMsg, ![s].todo = Tail(@)]
    /\ UNCHANGED <<truth, trk, dones, cli, left>>

(* The client's publish: an ETag it has is not news; the bus drops what the *)
(* subscriber has no room for, and the ETag is set all the same.            *)
publish(c, val) ==
    IF c.tag = val THEN c ELSE [c EXCEPT !.tag = val, !.slot = tryPublish(@, val)]

(* DataServers.Validate, which the client's end of the stream calls on      *)
(* every message: a list without servers is an error.                       *)
Valid(msg) == msg.val # EmptyList

(* The validating interceptor and recvLoop: all messages must be valid, and *)
(* the first one must be the hello.                                         *)
Accepts(c, msg) == Valid(msg) /\ (c.hello \/ msg.kind = "hello")

(* sessionSendLoop sends a message and the client's recvLoop handles it, or *)
(* gives up the stream if it cannot accept it.                              *)
Send(s) ==
    /\ ses[s].live /\ ses[s].todo = <<>> /\ ses[s].buf # <<>> /\ cli[s].on
    /\ LET msg == Head(ses[s].buf)
       IN  /\ ses' = [ses EXCEPT ![s].buf = Tail(@)]
           /\ IF ~Accepts(cli[s], msg)
              THEN EndStream(s)
              ELSE /\ cli' = [cli EXCEPT ![s] = CASE msg.kind = "hello" -> [@ EXCEPT !.hello = TRUE]
                                                  [] msg.kind = Follows(s) -> publish(@, msg.val)
                                                  [] OTHER -> @]
                   /\ UNCHANGED dones
    /\ UNCHANGED <<truth, trk, left>>

(* Mutant of HandleHeartbeat: only the status is looked at *)
HandleHeartbeatStatus(s) ==
    /\ ses[s].live /\ cli[s].beat # NoBeat /\ ses[s].reply = NoMsg
    /\ cli' = [cli EXCEPT ![s].beat = NoBeat]
    /\ recordReplicaStatus(cli[s].beat.term)
    /\ UNCHANGED <<truth, ses, dones, left>>

(* sessionRecvLoop, handleHeartbeat: the configuration of the session is    *)
(* compared and read, then it is sent.                                      *)
HandleHeartbeat(s) ==
    LET beat == cli[s].beat
    IN  /\ ses[s].live /\ beat # NoBeat /\ ses[s].reply = NoMsg
        /\ cli' = [cli EXCEPT ![s].beat = NoBeat]
        /\ ses' = [ses EXCEPT ![s].reply = IF beat.tag # ses[s].config THEN Msg("config", ses[s].config) ELSE NoMsg]
        /\ recordReplicaStatus(beat.term)
        /\ UNCHANGED <<truth, dones, left>>

(* handleGetDataServers *)
HandleGet(s) ==
    /\ ses[s].live /\ cli[s].get # None /\ ses[s].reply = NoMsg
    /\ cli' = [cli EXCEPT ![s].get = None]
    /\ ses' = [ses EXCEPT ![s].reply = IF cli[s].get # trk.list THEN Msg("list", trk.list) ELSE NoMsg]
    /\ UNCHANGED <<truth, trk, dones, left>>

(* The reply is sent.  That it overtakes the first messages, whose loop     *)
(* started at the same time, happens as often as faults do.                 *)
Reply(s) ==
    /\ ses[s].reply # NoMsg
    /\ ses' = [ses EXCEPT ![s] = [trySend(@, ses[s].reply) EXCEPT !.reply = NoMsg]]
    /\ \/ ses[s].todo = <<>> /\ UNCHANGED left
       \/ ses[s].todo # <<>> /\ Fault
    /\ UNCHANGED <<truth, trk, dones, cli>>

-----------------------------------------------------------------------------
(* The servers *)

(* newHeartbeat: the ETag of the configuration, and the term of the replica *)
(* if it leads.                                                             *)
Heartbeat(s) ==
    /\ s \in DataServers /\ cli[s].on /\ cli[s].tag # None /\ cli[s].beat = NoBeat
    /\ cli' = [cli EXCEPT ![s].beat = [tag |-> cli[s].tag, term |-> IF ListOf(TRUE, truth.term) = s THEN truth.term ELSE 0]]
    /\ UNCHANGED <<truth, trk, ses, dones, left>>

(* The subscriber takes what the bus holds: the controller a configuration, *)
(* the resolver a list its balancer routes by.                              *)
Use(s) ==
    /\ cli[s].slot # None
    /\ cli' = [cli EXCEPT ![s].used = cli[s].slot, ![s].slot = None]
    /\ UNCHANGED <<truth, trk, ses, dones, left>>

(* A connection of the data client fails and gRPC asks the resolver, which  *)
(* asks for a refresh (both throttled).  Nothing else asks: rpcDone, after  *)
(* a call that went to a server that does not lead, compares a status error *)
(* with errors it never equals.                                             *)
ResolveNow(s) ==
    /\ s \in ApiServers /\ cli[s].used # None /\ cli[s].refresh # "asked"
    /\ cli' = [cli EXCEPT ![s].refresh = "asked"]
    /\ UNCHANGED <<truth, trk, ses, dones, left>>

(* runSessionStream takes the refresh, and asks if it has an ETag *)
Refresh(s) ==
    /\ cli[s].on /\ cli[s].refresh = "asked" /\ cli[s].get = None
    /\ cli' = [cli EXCEPT ![s].refresh = "sent", ![s].get = cli[s].tag]
    /\ UNCHANGED <<truth, trk, ses, dones, left>>

-----------------------------------------------------------------------------
(* Faults *)

Break(s) ==
    /\ Fault
    /\ cli[s].on
    /\ EndStream(s)
    /\ UNCHANGED <<truth, trk, ses>>

(* The control server that leads is lost with its tracker.  The next one    *)
(* has the assignments and the last status that was written.                *)
LoseLeader ==
    /\ Fault
    /\ \E term \in 0 .. trk.term : trk' = newTracker(truth.reg, truth.asg, term)
    /\ ses' = [s \in Servers |-> NoSession(0)]
    /\ dones' = {}
    /\ cli' = [s \in Servers |-> [cli[s] EXCEPT !.on = FALSE, !.beat = NoBeat, !.get = None]]
    /\ UNCHANGED truth

-----------------------------------------------------------------------------
TakeDone == \E d \in dones : LoopDone(d[1], d[2], d[3])

MainLoop == TakeServers \/ TakePartitions \/ UpdateList \/ UpdateConfigs \/ OtherHeartbeat \/ TakeDone

SendLoop(s) == Load(s) \/ Enqueue(s) \/ Send(s)

RecvLoop(s) == HandleHeartbeat(s) \/ HandleGet(s) \/ Reply(s)

Client(s) == StartSession(s) \/ Heartbeat(s) \/ Use(s) \/ ResolveNow(s) \/ Refresh(s)

Next ==
    \/ Register \/ Assign \/ MoveLeader \/ LoseLeader
    \/ MainLoop
    \/ \E s \in Servers : SendLoop(s) \/ RecvLoop(s) \/ Client(s) \/ Break(s)

Spec == Init /\ [][Next]_vars

(* Every loop goes on, and a loop that selects takes each case that stays   *)
(* ready.                                                                   *)
Fairness ==
    /\ WF_vars(TakeServers) /\ WF_vars(TakePartitions) /\ WF_vars(UpdateList) /\ WF_vars(UpdateConfigs)
    /\ WF_vars(OtherHeartbeat) /\ WF_vars(TakeDone)
    /\ \A s \in DataServers \cup ApiServers :
         /\ WF_vars(s \in Servers /\ SendLoop(s)) /\ WF_vars(s \in Servers /\ RecvLoop(s))
         /\ WF_vars(s \in Servers /\ StartSession(s)) /\ WF_vars(s \in Servers /\ Use(s))
         /\ WF_vars(s \in Servers /\ Refresh(s))
    /\ \A s \in DataServers : WF_vars(s \in Servers /\ Heartbeat(s))

FairSpec == Spec /\ Fairness
-----------------------------------------------------------------------------
(* The event of the last assignment was dropped on the control server's bus *)
EventLost == trk.event = None /\ trk.asg # truth.asg

(* The last message the session published was dropped on the server's bus *)
PublishLost(s) == cli[s].slot = None /\ cli[s].used # cli[s].tag

(* Whatever is dropped by a full send buffer or sent in the wrong order, a  *)
(* data server ends with the configuration last assigned (handleHeartbeat   *)
(* compares ETags), unless a bus dropped the last event.                    *)
ConfigArrives ==
    <>[](\A s \in Servers \cap DataServers : cli[s].used = truth.asg \/ EventLost \/ PublishLost(s))

(* The partition has no leader yet, or the balancer of s has it *)
RoutesRight(s) == cli[s].used = ListOf(TRUE, truth.term) \/ truth.term = 0

(* The list the tracker has was dropped by the full send buffer of s *)
ListDropped(s) ==
    /\ cli[s].tag # trk.list
    /\ "list" \notin Range(ses[s].todo) \cup {ses[s].held.kind, ses[s].reply.kind}
    /\ \A i \in DOMAIN ses[s].buf : ses[s].buf[i].kind # "list"

(* The balancer of an API server ends with the partition's leader: the term *)
(* a heartbeat reports makes its way through the tracker, whichever session *)
(* ended or control server was lost meanwhile, unless a full send buffer or *)
(* the bus dropped the last list.                                           *)
RoutesArrive ==
    <>[](\A s \in Servers \cap ApiServers :
            RoutesRight(s) \/ PublishLost(s) \/ ListDropped(s))

(* RefreshDataServers "notifies the current session to retreive the latest  *)
(* version of DataServers from the control plane": calls that go to the     *)
(* wrong server end.                                                        *)
RefreshRetrieves == <>[](\A s \in Servers \cap ApiServers : RoutesRight(s))

(* The tracker closes a session only when its stream has ended: the late    *)
(* sessionLoopDone of an earlier stream never ends the session that         *)
(* replaced it.                                                             *)
ClosedForCause ==
    [][\A s \in Servers :
         ses[s].live /\ ~ses'[s].live /\ ses'[s].id = ses[s].id =>
            \E loop \in {"send", "recv"} : <<s, ses[s].id, loop>> \in dones]_vars
=============================================================================
