------------------------- MODULE GatewayConnection -------------------------
(***************************************************************************)
(* The class of src/src/discord-api/gateway/connection.ts, with the        *)
(* network and the gateway server it talks to.  Every callback of the      *)
(* class (timers, WebSocket events, the end of an await) is a step.        *)
(*                                                                         *)
(* Sockets are numbered as they are made; 0 is undefined.  Each carries    *)
(* payloads to the client in order, and may deliver what is under way      *)
(* after the client closed it.  Payloads to the server take no time: what  *)
(* the server answers does.  Each socket has its own zlib stream, of which *)
(* the HELLO is the beginning: the decoder goes on with the one it began,  *)
(* and once it was given a message of another it decodes nothing more.  An *)
(* exception ends the process: the archiver handles none.                  *)
(***************************************************************************)
EXTENDS Integers, Sequences

CONSTANTS
    Null,
    reidentify,   \* start a new session when the old one cannot be resumed
    MaxSockets,   \* bound on the connections made
    MaxSessions,  \* bound on the sessions the server starts
    MaxSeq,       \* bound on the events of a session
    MaxTrouble,   \* bound on what the network and the server do on their own
    MayDestroy    \* whether destroy() may be called

Socket == 1..MaxSockets
Session == 1..MaxSessions

ASSUME GatewayAssumption ==
    /\ {reidentify, MayDestroy} \subseteq BOOLEAN
    /\ {MaxSockets, MaxSessions, MaxTrouble} \subseteq Nat /\ MaxSeq \in Nat \ {0}
    /\ Null \notin [session: Session, seq: 0..MaxSeq]

VARIABLES
    client,     \* the fields of the class, its timers and its awaits
    alive,      \* no exception has ended the process
    destroyed,  \* destroy() was called
    emitted,    \* the "dispatch" events of each session
    sockets,    \* how many sockets were made
    up,         \* the sockets through which the server hears the client
    down,       \* the payloads on their way to the client
    server,     \* what the server knows of its sessions
    trouble

vars == <<client, alive, destroyed, emitted, sockets, up, down, server, trouble>>

\* connecting: calls of #connect that wait for their decoder.
\* reconnectTimers: the timeouts of #onClose that have not fired.
\* decoder: the socket whose stream it decodes, the one it was made for unless
\* another's began before; 0 after an error.  begun: whether it has decoded
\* anything.  crossed (history): a decoder began with another's stream.
Client ==
    [state: {"CONNECTING", "IDENTIFYING", "READY", "DESTROYED"},
     ws: {0} \cup Socket, decoder: {0} \cup Socket,
     resumeState: [session: Session, seq: 0..MaxSeq] \cup {Null},
     begun: BOOLEAN, crossed: BOOLEAN,
     live: BOOLEAN, wasHeartbeatAcknowledged: BOOLEAN, heartbeatTimer: BOOLEAN,
     connecting: Nat, reconnectTimers: Nat]

\* sessions: how many were started.  session: the one that can be resumed, or
\* 0.  produced: the number of its last event.  attached: the socket that gets
\* its events, or 0.
Server == [sessions: {0} \cup Session, session: {0} \cup Session,
           produced: 0..MaxSeq, attached: {0} \cup Socket]

Event == [s: 1..MaxSeq, replay: BOOLEAN, live: BOOLEAN]

\* "close" is the end of the socket, no payload.
Payload ==
    [op: {"Dispatch"}, t: {"READY", "RESUMED", "event"}, session: Session, s: 1..MaxSeq,
     replay: BOOLEAN]
    \cup [op: {"InvalidSession"}, d: BOOLEAN]
    \cup [op: {"Hello", "HeartbeatAck", "Reconnect"}]
    \cup [op: {"close"}, fatal: BOOLEAN]

TypeOK ==
    /\ client \in Client /\ server \in Server
    /\ {alive, destroyed} \subseteq BOOLEAN
    /\ emitted \in [Session -> Seq(Event)]
    /\ sockets \in {0} \cup Socket
    /\ up \subseteq 1..sockets
    /\ down \in [Socket -> Seq(Payload)]
    /\ trouble \in 0..MaxTrouble

\* process.nextTick has called #connect for the first time.
Init ==
    /\ client = [state |-> "CONNECTING", ws |-> 0, decoder |-> 0, begun |-> FALSE,
                 crossed |-> FALSE, resumeState |-> Null, live |-> TRUE,
                 wasHeartbeatAcknowledged |-> TRUE, heartbeatTimer |-> FALSE, connecting |-> 1, reconnectTimers |-> 0]
    /\ alive = TRUE /\ destroyed = FALSE
    /\ emitted = [x \in Session |-> <<>>]
    /\ sockets = 0 /\ up = {} /\ down = [x \in Socket |-> <<>>]
    /\ server = [sessions |-> 0, session |-> 0, produced |-> 0, attached |-> 0]
    /\ trouble = 0

-----------------------------------------------------------------------------
(* What the server does with IDENTIFY and RESUME from a socket it hears. *)
Dispatch(t, x, s, replay) ==
    [op |-> "Dispatch", t |-> t, session |-> x, s |-> s, replay |-> replay]
InvalidSession(d) == [op |-> "InvalidSession", d |-> d]

Identified(x) ==
    [server EXCEPT !.sessions = @ + 1, !.session = server.sessions + 1,
                   !.produced = 1, !.attached = x]

Replay(resume) ==
    [k \in 1..(server.produced - resume.seq) |->
        Dispatch("event", resume.session, resume.seq + k, TRUE)]

CanResume(resume) ==
    server.session = resume.session /\ server.produced < MaxSeq

\* Its answer, which follows in the socket: READY; the missed events and then
\* RESUMED; or INVALID_SESSION.
ServerAnswers(x, resume, taken) ==
    CASE x \notin up \/ (resume = Null /\ server.sessions = MaxSessions) ->
            UNCHANGED server /\ down' = taken
      [] x \in up /\ resume = Null /\ server.sessions < MaxSessions ->
            /\ server' = Identified(x)
            /\ down' = [taken EXCEPT ![x] =
                            Append(@, Dispatch("READY", server'.session, 1, FALSE))]
      [] x \in up /\ resume # Null /\ CanResume(resume) ->
            /\ server' = [server EXCEPT !.produced = @ + 1, !.attached = x]
            /\ down' = [taken EXCEPT ![x] = @ \o Replay(resume) \o
                    <<Dispatch("RESUMED", resume.session, server'.produced, TRUE)>>]
      [] x \in up /\ resume # Null /\ ~CanResume(resume) ->
            /\ server' = [server EXCEPT !.session = 0]
            /\ down' = [taken EXCEPT ![x] = Append(@, InvalidSession(FALSE))]

-----------------------------------------------------------------------------
(* The methods of the class: the fields they leave behind.  taken is what  *)
(* is still on its way once the current payload is taken.                  *)
\* Mutant: null is not undefined.
DisconnectedNull(c) == [c EXCEPT !.ws = Null, !.heartbeatTimer = FALSE]

Disconnected(c) == [c EXCEPT !.ws = 0, !.heartbeatTimer = FALSE]

\* #connect up to its await
Connecting(c) ==
    [c EXCEPT !.state = "CONNECTING", !.wasHeartbeatAcknowledged = TRUE,
              !.connecting = @ + 1]

\* The server hears no more of socket x.
HangUp(x) ==
    /\ up' = up \ {x}
    /\ server' = [server EXCEPT !.attached = IF @ = x THEN 0 ELSE @]

\* #reconnect on the fields c.
Reconnect(c, taken) ==
    /\ client' = Connecting(Disconnected(c))
    /\ HangUp(c.ws)
    /\ down' = taken
    /\ UNCHANGED <<alive, destroyed, emitted>>

\* #error: the listener of the archiver throws; or, before the account is ready,
\* it rejects a promise, which ends the process right after the disconnection.
Error(c, taken) ==
    /\ alive' = FALSE
    /\ \/ client' = c /\ UNCHANGED <<up, server>>
       \/ client' = Disconnected(c) /\ HangUp(c.ws)
    /\ down' = taken
    /\ UNCHANGED <<destroyed, emitted>>

\* Mutant: everything is taken for live.
ResumeOrIdentifyLive(c, taken) ==
    /\ client' = [c EXCEPT !.state = "IDENTIFYING", !.live = TRUE]
    /\ alive' = (c.ws # 0)
    /\ ServerAnswers(c.ws, c.resumeState, taken)
    /\ UNCHANGED <<destroyed, emitted, up>>

\* #resumeOrIdentify on the fields c; without a socket #sendPayload throws.
ResumeOrIdentify(c, taken) ==
    /\ client' = [c EXCEPT !.state = "IDENTIFYING", !.live = c.resumeState = Null]
    /\ alive' = (c.ws # 0)
    /\ ServerAnswers(c.ws, c.resumeState, taken)
    /\ UNCHANGED <<destroyed, emitted, up>>

\* destroy()
Destroyed(c, taken) ==
    /\ client' = [Disconnected(c) EXCEPT !.state = "DESTROYED"]
    /\ destroyed' = TRUE
    /\ HangUp(c.ws)
    /\ down' = taken
    /\ UNCHANGED <<alive, emitted>>

\* Mutant: seq is only set by READY.
OnDispatchSeqKept(c, p, taken) ==
    /\ client' = IF p.t # "READY" THEN c
                 ELSE [c EXCEPT !.state = "READY",
                            !.resumeState = [session |-> p.session, seq |-> p.s]]
    /\ emitted' = [emitted EXCEPT ![p.session] =
            Append(@, [s |-> p.s, replay |-> p.replay, live |-> c.live])]
    /\ down' = taken
    /\ UNCHANGED <<alive, destroyed, up, server>>

OnDispatch(c, p, taken) ==
    /\ client' = [c EXCEPT
            !.state = IF p.t = "READY" THEN "READY" ELSE @,
            !.resumeState = IF p.t = "READY" THEN [session |-> p.session, seq |-> p.s]
                            ELSE [@ EXCEPT !.seq = p.s]]
    /\ emitted' = [emitted EXCEPT ![p.session] =
            Append(@, [s |-> p.s, replay |-> p.replay, live |-> c.live])]
    /\ down' = taken
    /\ UNCHANGED <<alive, destroyed, up, server>>

\* #onPayload, c being the fields after the payload was decoded.
OnPayload(c, p, taken) ==
    \/ /\ c.state = "DESTROYED"
       /\ client' = c
       /\ down' = taken
       /\ UNCHANGED <<alive, destroyed, emitted, up, server>>
    \/ /\ c.state # "DESTROYED"
       /\ CASE p.op = "Dispatch" ->
                IF c.resumeState = Null /\ p.t # "READY" THEN Error(c, taken)
                ELSE OnDispatch(c, p, taken)
            [] p.op = "Hello" ->
                IF c.state # "CONNECTING" THEN Error(c, taken)
                ELSE ResumeOrIdentify([c EXCEPT !.heartbeatTimer = TRUE], taken)
            [] p.op = "HeartbeatAck" ->
                /\ client' = [c EXCEPT !.wasHeartbeatAcknowledged = TRUE]
                /\ down' = taken
                /\ UNCHANGED <<alive, destroyed, emitted, up, server>>
            [] p.op = "InvalidSession" ->
                LET d == IF p.d THEN c ELSE [c EXCEPT !.resumeState = Null]
                IN IF p.d \/ reidentify THEN ResumeOrIdentify(d, taken)
                   ELSE Destroyed(d, taken)
            [] p.op = "Reconnect" -> Reconnect(c, taken)

OnClose(fatal, taken) ==
    IF fatal THEN Error(client, taken)
    ELSE /\ client' = [Disconnected(client) EXCEPT !.reconnectTimers = @ + 1]
         /\ down' = taken
         /\ UNCHANGED <<alive, destroyed, emitted, up, server>>

-----------------------------------------------------------------------------
(* The client's steps. *)

\* #connect after its await: the decoder and the socket are new.
Connected ==
    /\ alive /\ client.connecting > 0 /\ sockets < MaxSockets
    /\ sockets' = sockets + 1
    /\ client' = [client EXCEPT !.connecting = @ - 1, !.ws = sockets',
                             !.decoder = sockets', !.begun = FALSE]
    /\ up' = up \cup {sockets'}
    /\ down' = [down EXCEPT ![sockets'] = <<[op |-> "Hello"]>>]
    /\ UNCHANGED <<alive, destroyed, emitted, server, trouble>>

\* A new decoder takes the beginning of any socket's stream.
Decodable(x, p) ==
    \/ x = client.decoder
    \/ client.decoder # 0 /\ ~client.begun /\ p.op = "Hello"

\* The fields after #decodePayload has decoded a message of socket x.
Decoded(x) ==
    [client EXCEPT !.decoder = x, !.begun = TRUE, !.crossed = @ \/ x # client.decoder]

\* The "message" and "close" events of a socket.
Receive(x) ==
    /\ alive /\ down[x] # <<>>
    /\ LET p == Head(down[x])
           taken == [down EXCEPT ![x] = Tail(@)]
       IN \/ p.op = "close" /\ x = client.ws /\ OnClose(p.fatal, taken)
          \/ /\ p.op = "close" /\ x # client.ws
             /\ down' = taken
             /\ UNCHANGED <<client, alive, destroyed, emitted, up, server>>
          \/ p.op # "close" /\ Decodable(x, p) /\ OnPayload(Decoded(x), p, taken)
          \/ /\ p.op # "close" /\ ~Decodable(x, p)  \* decodingError
             /\ Reconnect([client EXCEPT !.decoder = 0], taken)
    /\ UNCHANGED <<sockets, trouble>>

\* The timeout of #onClose.
ReconnectTimeout ==
    /\ alive /\ client.reconnectTimers > 0
    /\ client' = [Connecting(client) EXCEPT !.reconnectTimers = @ - 1]
    /\ UNCHANGED <<alive, destroyed, emitted, sockets, up, down, server, trouble>>

\* Mutant: missing acknowledgements go unnoticed.
HeartbeatUnchecked ==
    /\ alive /\ client.heartbeatTimer
    /\ client' = [client EXCEPT !.wasHeartbeatAcknowledged = FALSE]
    /\ down' = IF client.ws \notin up THEN down
               ELSE [down EXCEPT ![client.ws] = Append(@, [op |-> "HeartbeatAck"])]
    /\ UNCHANGED <<alive, destroyed, emitted, sockets, up, server, trouble>>

Heartbeat ==
    /\ alive /\ client.heartbeatTimer
    /\ \/ /\ client.wasHeartbeatAcknowledged
          /\ client' = [client EXCEPT !.wasHeartbeatAcknowledged = FALSE]
          /\ down' = IF client.ws \notin up THEN down
                     ELSE [down EXCEPT ![client.ws] = Append(@, [op |-> "HeartbeatAck"])]
          /\ UNCHANGED <<alive, destroyed, emitted, up, server>>
       \/ ~client.wasHeartbeatAcknowledged /\ Reconnect(client, down)
    /\ UNCHANGED <<sockets, trouble>>

Destroy ==
    /\ alive /\ MayDestroy /\ ~destroyed
    /\ Destroyed(client, down)
    /\ UNCHANGED <<sockets, trouble>>

-----------------------------------------------------------------------------
(* The server and the network on their own. *)
UnchangedClient == UNCHANGED <<client, alive, destroyed, emitted, sockets>>

SendTo(x, payload) == IF x = 0 THEN down ELSE [down EXCEPT ![x] = Append(@, payload)]

Produce ==
    /\ alive /\ server.session # 0 /\ server.produced < MaxSeq - 1
    /\ server' = [server EXCEPT !.produced = @ + 1]
    /\ down' = SendTo(server.attached, Dispatch("event", server.session, server'.produced, FALSE))
    /\ UnchangedClient /\ UNCHANGED <<up, trouble>>

Trouble == alive /\ trouble < MaxTrouble /\ trouble' = trouble + 1 /\ UnchangedClient

\* The server closes a socket, or it breaks and loses what is on its way.
Close(x) ==
    /\ Trouble
    /\ x \in up /\ HangUp(x)
    /\ \E kept \in {down[x], <<>>}, fatal \in BOOLEAN :
        down' = [down EXCEPT ![x] = Append(kept, [op |-> "close", fatal |-> fatal])]

\* The connection goes dead and neither end is told.
FallSilent(x) ==
    /\ Trouble
    /\ x \in up /\ HangUp(x)
    /\ down' = [down EXCEPT ![x] = <<>>]

AskReconnect ==
    /\ Trouble
    /\ server.attached # 0
    /\ down' = SendTo(server.attached, [op |-> "Reconnect"])
    /\ UNCHANGED <<up, server>>

\* The server drops the session, or asks the client to resume it.
EndSession(resumable) ==
    /\ Trouble
    /\ server.session # 0
    /\ server' = [server EXCEPT !.session = IF resumable THEN @ ELSE 0, !.attached = 0]
    /\ down' = SendTo(server.attached, InvalidSession(resumable))
    /\ UNCHANGED up

-----------------------------------------------------------------------------
Next ==
    \/ Connected \/ ReconnectTimeout \/ Heartbeat \/ Destroy
    \/ \E x \in Socket : Receive(x) \/ Close(x) \/ FallSilent(x)
    \/ Produce \/ AskReconnect
    \/ \E resumable \in BOOLEAN : EndSession(resumable)

Spec == Init /\ [][Next]_vars

\* Timers fire, awaits end and what is on its way arrives.
Fairness ==
    /\ WF_vars(Connected) /\ WF_vars(ReconnectTimeout) /\ WF_vars(Heartbeat)
    /\ \A x \in Socket : WF_vars(Receive(x))

FairSpec == Spec /\ Fairness

-----------------------------------------------------------------------------
(* The listener gets every event of a session exactly once and in order,   *)
(* across lost connections, reconnects and resumes, as long as destroy()   *)
(* was not called: a connection that comes back after that has a gap; and  *)
(* as long as no new decoder began with the stream of an old socket, whose *)
(* events may have been passed on by then.                                 *)
DispatchedInOrder ==
    ~destroyed /\ ~client.crossed => \A x \in Session : \A k \in DOMAIN emitted[x] : emitted[x][k].s = k

(* An event replayed after a resume is never passed on as live, so that it *)
(* is not recorded with a realtime timestamp.                              *)
ReplayNotLive ==
    \A x \in Session : \A k \in DOMAIN emitted[x] :
        emitted[x][k].replay => ~emitted[x][k].live

(* A connection that was lost is replaced, even one that went dead without *)
(* a word, if heartbeats had begun; unless destroy() was called or an      *)
(* exception ended the process.                                            *)
Recovers ==
    client.ws \notin up /\ (client.heartbeatTimer \/ client.reconnectTimers > 0)
    ~> client.ws \in up \/ destroyed \/ ~alive \/ sockets = MaxSockets
=============================================================================
