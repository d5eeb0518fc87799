----------------------------- MODULE RtmpCommand -----------------------------
(* From the end of the handshake to a stream that is played or published:    *)
(* the commands a client and the server exchange (RtmpContext), the callbacks *)
(* of RtmpClient and RtmpServer that carry them, and what LiveService decides *)
(* when a stream is asked for. Messages arrive whole and in order, as        *)
(* RtmpChunk shows.                                                          *)
(*                                                                           *)
(* A client is this code ("own": RtmpClient) or another one ("peer": an      *)
(* encoder or a player). A URL is the sequence of its parts between slashes; *)
(* a part is the sequence of its pieces, <<host, port>> or <<name, param>>.  *)
EXTENDS Amf, FiniteSets

CONSTANTS
    Conns,          \* connections
    Roles,          \* clients: [own, wants, host, app, name]
    Apps,           \* <<domain, app>> pairs of the configuration
    ConnectObjects, \* what else another client says in connect
    MaxExtra,       \* bound on pings, media and unknown commands of a peer
    None

ASSUME RolesAssumption ==
    \A r \in Roles : r.own \in BOOLEAN /\ r.wants \in {"play", "publish"}

VARIABLES
    role,       \* the client of each connection
    phase,      \* "new", "open" or why the connection was closed or never made
    toServer,   \* messages on their way to the server
    toClient,   \* messages on their way to the client
    server,     \* RtmpContext of the server
    client,     \* RtmpContext of an own client, or how far a peer is
    user,       \* kUserDefineContext: None or kind and session
    extra,      \* messages beyond the necessary ones that a peer has sent
    exited      \* the process of the server ended

vars == <<role, phase, toServer, toClient, server, client, user, extra, exited>>

NoContext ==
    [tc_url |-> <<>>, app |-> <<>>, name |-> <<>>, param |-> <<>>, session |-> <<>>,
     amf3 |-> FALSE, is_player |-> FALSE, step |-> 0]

-----------------------------------------------------------------------------
(* Messages. A command carries what it means; nothing reads that but a       *)
(* property.                                                                 *)
Command(method, tran, body) ==
    [kind |-> "amf", amf3 |-> FALSE, method |-> <<method>>, tran |-> tran, name |-> <<>>,
     body |-> EncodeString(<<method>>) \o EncodeNumber(Whole(tran)) \o body]
Other(kind) == [kind |-> kind]
Event(body) == [kind |-> "event", body |-> body]

StringProperty(name, s) == <<<<name>>, "string", s>>
NumberProperty(name, n) == <<<<name>>, "number", Whole(n)>>

Connect(ctx, more) ==
    Command("connect", 1, EncodeObject(
        <<StringProperty("app", ctx.app), StringProperty("tcUrl", <<"url", ctx.tc_url>>)>> \o more))
SendConnect(ctx) ==
    <<Other("chunksize"),
      Connect(ctx, <<<<<<"fpad">>, "boolean", FALSE>>, NumberProperty("capabilities", 31)>>)>>
ConnectResult(amf3) ==
    Command("_result", 1, EncodeObject(<<NumberProperty("capabilities", 31)>>)
        \o EncodeObject(<<StringProperty("code", <<"Success">>),
                          NumberProperty("objectEncoding", IF amf3 THEN 3 ELSE 0)>>))
SendCreateStream(tran) == <<Command("createStream", tran, EncodeNull)>>
CreateStreamResult(tran) == <<Command("_result", tran, EncodeNull \o EncodeNumber(Whole(1)))>>
SendStatus(code) ==
    <<Command("onStatus", 0, EncodeNull \o EncodeObject(<<StringProperty("code", <<code>>)>>))>>
SendPlay(name) ==
    <<[Command("play", 0, EncodeNull \o EncodeString(name) \o EncodeNumber(Whole(-1000)))
        EXCEPT !.name = name]>>
SendPublish(name) ==
    <<[Command("publish", 5, EncodeNull \o EncodeString(name) \o EncodeString(<<"live">>))
        EXCEPT !.name = name]>>

(* An AMF3 message starts with one more byte.                                *)
AsAmf3(m) == [m EXCEPT !.amf3 = TRUE, !.body = <<Tok("zero", 0)>> \o @]
Typed(c, ms) == IF client[c].amf3 THEN [i \in DOMAIN ms |-> AsAmf3(ms[i])] ELSE ms

(* User control events in units of two bytes: the type, then the value, high *)
(* and low. SendUserCtrlMessage writes the value where it wrote the type;    *)
(* the rest of the packet is zero.                                           *)
StreamBegin == 0
SetBufferLength == 3
PingRequest == 5
PingResponse == 6
PeerPingRequest == 6
SendUserCtrlMessage(type, value) == <<Event(<<value[1], value[2], 0>>)>>

-----------------------------------------------------------------------------
(* HandleAmfCommand: what a body says.                                       *)
Read(m) == Decode(IF m.amf3 THEN Tail(m.body) ELSE m.body, FALSE)
Props(m) == Read(m).props
Method(m) == StringOf(PropertyAt(Props(m), 0))
Tran(m) == NumberOf(PropertyAt(Props(m), 1))
Name(m) == StringOf(PropertyAt(Props(m), 3))

(* A handler that asks for a property which is not there reads through a     *)
(* null pointer.                                                             *)
Needs(m) ==
    LET object == PropertyAt(Props(m), 2) IN
    /\ PropertyAt(Props(m), 0) # <<>>
    /\ Method(m) = <<"connect">> =>
        /\ PropertyNamed(Props(m), <<"tcUrl">>) # <<>>
        /\ object # <<>>
        /\ object[2] = "object" => PropertyNamed(object[3], <<"app">>) # <<>>
    /\ Method(m) \in {<<"createStream">>, <<"play">>, <<"publish">>} => PropertyAt(Props(m), 1) # <<>>
    /\ Method(m) \in {<<"play">>, <<"publish">>} => PropertyAt(Props(m), 3) # <<>>

(* Mutant: a URL must name the stream.                                       *)
CompleteWithName(ctx) == Len(ctx.tc_url) > 4

(* A URL of fewer than four parts ends the process.                          *)
Complete(ctx) == Len(ctx.tc_url) >= 4

(* A name around its "?".                                                    *)
Stem(name) == IF name = <<>> THEN <<>> ELSE <<name[1]>>
Param(name) == IF Len(name) > 1 THEN <<name[2]>> ELSE <<>>

(* Mutant: the parameters stay in the name.                                  *)
ParseNameAndTcUrlWhole(ctx) ==
    LET name == IF Len(ctx.tc_url) > 4 THEN ctx.tc_url[5] ELSE ctx.name
    IN  [ctx EXCEPT !.param = Param(ctx.name), !.name = name, !.app = ctx.tc_url[4],
                    !.session = <<Head(ctx.tc_url[3]), Head(ctx.tc_url[4]), name>>]

(* The name in front of its parameters, or all of the fifth part of the URL; *)
(* the domain without its port.                                              *)
ParseNameAndTcUrl(ctx) ==
    LET name == IF Len(ctx.tc_url) > 4 THEN ctx.tc_url[5] ELSE Stem(ctx.name)
    IN  [ctx EXCEPT !.param = Param(ctx.name), !.name = name, !.app = ctx.tc_url[4],
                    !.session = <<Head(ctx.tc_url[3]), Head(ctx.tc_url[4]), name>>]

-----------------------------------------------------------------------------
Reply(c, ms) == toClient' = [toClient EXCEPT ![c] = @ \o ms]
Took(c) == toServer' = [toServer EXCEPT ![c] = Tail(@)]
Send(c, ms) == toServer' = [toServer EXCEPT ![c] = IF phase[c] = "open" THEN @ \o ms ELSE @]

(* forceClose, and OnConnectionDestroy, which takes the user. What was       *)
(* written before may still arrive.                                          *)
Close(c, why) ==
    /\ phase' = [phase EXCEPT ![c] = why]
    /\ toServer' = [toServer EXCEPT ![c] = <<>>]
    /\ user' = [user EXCEPT ![c] = None]

HandleConnect(c, m) ==
    LET tcUrl == StringOf(PropertyNamed(Props(m), <<"tcUrl">>))
        command == PropertyAt(Props(m), 2)
        encoding == PropertyNamed(ObjectOf(command), <<"objectEncoding">>)
        amf3 == encoding # <<>> /\ NumberOf(encoding) = 3
    IN  /\ server' = [server EXCEPT
             ![c].tc_url = tcUrl[2],
             ![c].app = IF command[2] = "object" THEN StringOf(PropertyNamed(command[3], <<"app">>)) ELSE @]
        /\ Reply(c, <<Other("window"), Other("bandwidth"), Other("chunksize"), ConnectResult(amf3)>>)
        /\ Took(c)
        /\ UNCHANGED <<phase, user, exited>>

HandleCreateStream(c, m) ==
    /\ Reply(c, CreateStreamResult(Tran(m)))
    /\ Took(c)
    /\ UNCHANGED <<phase, server, user, exited>>

(* LiveService::OnPlay and OnPublish: a session exists only for a domain and *)
(* an application of the configuration and a name.                           *)
Configured(session) == <<session[1], session[2]>> \in Apps /\ session[3] # <<>>

Refuse(c) == Close(c, "refused")

(* SetPublisher closes the connection of the publisher before.               *)
Publisher(session) == {d \in Conns : user[d] = [kind |-> "publish", session |-> session]}
Begin(c, kind, session) ==
    LET gone == IF kind = "publish" THEN Publisher(session) \ {c} ELSE {}
    IN  /\ user' = [d \in Conns |-> IF d = c THEN [kind |-> kind, session |-> session]
                                    ELSE IF d \in gone THEN None ELSE user[d]]
        /\ phase' = [d \in Conns |-> IF d \in gone THEN "replaced" ELSE phase[d]]
        /\ toServer' = [d \in Conns |-> IF d \in gone THEN <<>>
                                        ELSE IF d = c THEN Tail(toServer[c]) ELSE toServer[d]]

(* The client is told that the stream starts before LiveService is asked.    *)
HandleStream(c, m, kind, ms) ==
    LET named == [server[c] EXCEPT !.name = Name(m)]
        ctx == [ParseNameAndTcUrl(named) EXCEPT !.is_player = (kind = "play")]
    IN  IF ~Complete(named)
        THEN exited' = TRUE /\ UNCHANGED <<phase, toServer, toClient, server, user>>
        ELSE /\ server' = [server EXCEPT ![c] = ctx]
             /\ Reply(c, ms)
             /\ IF Configured(ctx.session) THEN Begin(c, kind, ctx.session) ELSE Refuse(c)
             /\ UNCHANGED exited

HandlePlay(c, m) ==
    HandleStream(c, m, "play", SendUserCtrlMessage(StreamBegin, <<0, 1>>) \o SendStatus("Play.Start"))

HandlePublish(c, m) == HandleStream(c, m, "publish", SendStatus("Publish.Start"))

(* HandleUserMessage answers a ping request and otherwise nothing.           *)
HandleUserMessage(c, m) ==
    /\ Took(c)
    /\ IF Len(m.body) >= 3 /\ m.body[1] = PingRequest
       THEN Reply(c, SendUserCtrlMessage(PingResponse, <<m.body[2], m.body[3]>>))
       ELSE UNCHANGED toClient
    /\ UNCHANGED <<phase, server, user, exited>>

(* LiveService::OnRecv wants a user; the packet goes to the user's stream.   *)
OnRecv(c) ==
    /\ IF user[c] = None THEN Close(c, "no user") ELSE Took(c) /\ UNCHANGED <<phase, user>>
    /\ UNCHANGED <<toClient, server, exited>>

Ignore(c) == Took(c) /\ UNCHANGED <<phase, toClient, server, user, exited>>

(* RtmpServer::OnMessage, one message at a time: MessageComplete and the map *)
(* of commands. A body that does not decode is dropped.                      *)
ServerRead(c) ==
    /\ ~exited
    /\ toServer[c] # <<>>
    /\ LET m == Head(toServer[c]) IN
        CASE m.kind = "event" -> HandleUserMessage(c, m)
          [] m.kind = "media" -> OnRecv(c)
          [] m.kind = "amf" ->
               (CASE Read(m).status # "ok" -> Ignore(c)
                  [] ~Needs(m) -> exited' = TRUE /\ UNCHANGED <<phase, toServer, toClient, server, user>>
                  [] Method(m) = <<"connect">> -> HandleConnect(c, m)
                  [] Method(m) = <<"createStream">> -> HandleCreateStream(c, m)
                  [] Method(m) = <<"play">> -> HandlePlay(c, m)
                  [] Method(m) = <<"publish">> -> HandlePublish(c, m)
                  [] OTHER -> Ignore(c))
          [] OTHER -> Ignore(c)
    /\ UNCHANGED <<role, client, extra>>

-----------------------------------------------------------------------------
Url(c) == SelectSeq(<<<<"rtmp:">>, <<"">>, role[c].host, role[c].app, role[c].name>>, LAMBDA p : p # <<>>)

(* RtmpClient::ParseUrl wants something after the host.                      *)
ParseUrl(url) == Len(url) > 3 \/ Len(url[3]) > 1

(* RtmpContext::Play and Publish.                                            *)
PlayOrPublish(url, playing) ==
    ParseNameAndTcUrl([NoContext EXCEPT !.tc_url = url, !.is_player = playing])

(* OnConnection of the client makes its context, Play or Publish, which ends *)
(* the client's own process when the URL is too short, and the handshake     *)
(* ends with SendConnect.                                                    *)
OwnConnect(c) ==
    /\ phase[c] = "new" /\ role[c].own
    /\ LET ctx == PlayOrPublish(Url(c), role[c].wants = "play")
           ends == IF ~ParseUrl(Url(c)) THEN "bad url" ELSE "client exited"
       IN  IF ParseUrl(Url(c)) /\ Complete([NoContext EXCEPT !.tc_url = Url(c)])
           THEN /\ client' = [client EXCEPT ![c] = ctx]
                /\ toServer' = [toServer EXCEPT ![c] = SendConnect(ctx)]
                /\ phase' = [phase EXCEPT ![c] = "open"]
           ELSE phase' = [phase EXCEPT ![c] = ends] /\ UNCHANGED <<client, toServer>>
    /\ UNCHANGED <<role, toClient, server, user, extra, exited>>

(* Mutant: the answer to createStream is expected under another number.      *)
HandleResultOfFive(c, m) ==
    CASE Tran(m) = 1 -> SendCreateStream(4)
      [] Tran(m) = 5 -> IF client[c].is_player THEN SendPlay(client[c].name) ELSE SendPublish(client[c].name)
      [] OTHER -> <<>>

(* HandleResult. 5 would be the answer to publish.                           *)
HandleResult(c, m) ==
    CASE Tran(m) = 1 -> SendCreateStream(4)
      [] Tran(m) = 4 -> IF client[c].is_player THEN SendPlay(client[c].name) ELSE SendPublish(client[c].name)
      [] OTHER -> <<>>

OwnRead(c) ==
    /\ role[c].own
    /\ toClient[c] # <<>>
    /\ LET m == Head(toClient[c]) IN
        /\ toClient' = [toClient EXCEPT ![c] = Tail(@)]
        /\ Send(c, IF m.kind = "amf" /\ Method(m) = <<"_result">> THEN HandleResult(c, m) ELSE <<>>)
    /\ UNCHANGED <<role, phase, server, client, user, extra, exited>>

(* Another client: connect without the name in the URL, perhaps commands     *)
(* this server does not know, createStream under a number of its choice, and *)
(* when that is answered play or publish. After publish it sends media once  *)
(* it was told to start.                                                     *)
PeerConnect(c, object) ==
    /\ phase[c] = "new" /\ ~role[c].own
    /\ phase' = [phase EXCEPT ![c] = "open"]
    /\ client' = [client EXCEPT ![c].amf3 = (NumberProperty("objectEncoding", 3) \in ToSet(object)),
                                    ![c].step = 1]
    /\ toServer' = [toServer EXCEPT ![c] =
         <<Connect([NoContext EXCEPT !.tc_url = SubSeq(Url(c), 1, 4), !.app = role[c].app], object)>>]
    /\ UNCHANGED <<role, toClient, server, user, extra, exited>>

PeerAnswer(c, m) ==
    CASE client[c].step = 1 /\ m.method = <<"_result">> ->
           Typed(c, <<Command("releaseStream", 2, EncodeNull \o EncodeString(role[c].name))>>
                    \o SendCreateStream(3))
      [] client[c].step = 2 /\ m.method = <<"_result">> ->
           Typed(c, IF role[c].wants = "play" THEN SendPlay(role[c].name) ELSE SendPublish(role[c].name))
      [] OTHER -> <<>>

PeerRead(c) ==
    /\ ~role[c].own
    /\ toClient[c] # <<>>
    /\ LET m == Head(toClient[c]) IN
        /\ toClient' = [toClient EXCEPT ![c] = Tail(@)]
        /\ IF m.kind # "amf" THEN UNCHANGED <<toServer, client>>
           ELSE /\ Send(c, PeerAnswer(c, m))
                /\ client' = [client EXCEPT ![c].step = @ + 1]
    /\ UNCHANGED <<role, phase, server, user, extra, exited>>

(* A ping, the length of the buffer of a player, media of a publisher.       *)
PeerExtra(c) ==
    /\ ~role[c].own
    /\ phase[c] = "open" /\ extra[c] < MaxExtra
    /\ extra' = [extra EXCEPT ![c] = @ + 1]
    /\ \E m \in {Event(<<PeerPingRequest, 0, 7>>)} \cup
                (IF role[c].wants = "play"
                 THEN {Event(<<SetBufferLength, 0, 1, 0, 3>>)}
                 ELSE IF client[c].step > 3 THEN {Other("media")} ELSE {}) :
         toServer' = [toServer EXCEPT ![c] = Append(@, m)]
    /\ UNCHANGED <<role, phase, toClient, server, client, user, exited>>

(* The client goes away: OnConnectionDestroy takes its user.                 *)
Leave(c) ==
    /\ phase[c] = "open"
    /\ Close(c, "left")
    /\ toClient' = [toClient EXCEPT ![c] = <<>>]
    /\ UNCHANGED <<role, server, client, extra, exited>>

-----------------------------------------------------------------------------
Init ==
    /\ role \in [Conns -> Roles]
    /\ phase = [c \in Conns |-> "new"]
    /\ toServer = [c \in Conns |-> <<>>]
    /\ toClient = [c \in Conns |-> <<>>]
    /\ server = [c \in Conns |-> NoContext]
    /\ client = [c \in Conns |-> NoContext]
    /\ user = [c \in Conns |-> None]
    /\ extra = [c \in Conns |-> 0]
    /\ exited = FALSE

Next ==
    \E c \in Conns :
        \/ OwnConnect(c)
        \/ OwnRead(c)
        \/ \E object \in ConnectObjects : PeerConnect(c, object)
        \/ PeerRead(c)
        \/ PeerExtra(c)
        \/ Leave(c)
        \/ ServerRead(c)

Spec == Init /\ [][Next]_vars

-----------------------------------------------------------------------------
InTransit == UNION {ToSet(toServer[c]) \cup ToSet(toClient[c]) : c \in Conns}

(* What a command says is what its handler reads: its name, its number, the  *)
(* name of the stream and the URL are found where the handlers look for      *)
(* them, by index or by name, whatever else the body has (AMFAny against     *)
(* AMFObject::Decode and Property).                                          *)
CommandsDecode ==
    \A m \in {x \in InTransit : x.kind = "amf"} :
        /\ Read(m).status = "ok"
        /\ Method(m) = m.method /\ Tran(m) = m.tran
        /\ m.method \in {<<"play">>, <<"publish">>} => Name(m) = m.name
        /\ m.method = <<"connect">> => StringOf(PropertyNamed(Props(m), <<"tcUrl">>))[1] = "url"

(* Clients meet in a session exactly when they name the same stream, whether *)
(* they say the port or not and whether the name is in the URL or in the     *)
(* command, and whatever parameters follow the name of a peer. An own client *)
(* has its parameters in the URL, where ParseNameAndTcUrl leaves them.       *)
StreamOf(r) == <<Head(r.host), r.app, Stem(r.name)>>
Plain(r) == ~r.own \/ Len(r.name) <= 1
SameStreamSameSession ==
    \A c, d \in {x \in Conns : user[x] # None /\ Plain(role[x])} :
        (user[c].session = user[d].session) <=> (StreamOf(role[c]) = StreamOf(role[d]))

(* No client that keeps to the order of the commands and has a domain and an *)
(* application in its URL ends the server: exit(-1) in ParseNameAndTcUrl and *)
(* the null pointers of Property stay out of reach.                          *)
ServerKeepsRunning == ~exited

(* A client that connects comes to its stream or its connection ends: when   *)
(* everything that was sent has been read, nobody is left waiting for an     *)
(* answer (HandleConnect, HandleResult, HandleCreateStream and the numbers   *)
(* by which they know each other), and no publisher is thrown out for media  *)
(* it was told to send, although it is told before LiveService is asked.     *)
(* Every behaviour is finite.                                                *)
NobodyLeftWaiting ==
    exited \/ \A c \in Conns :
        /\ phase[c] # "no user"
        /\ (phase[c] = "open" /\ toServer[c] = <<>> /\ toClient[c] = <<>>) => user[c] # None
=============================================================================
