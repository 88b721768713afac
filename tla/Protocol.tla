------------------------------ MODULE Protocol ------------------------------
(***************************************************************************)
(* What one connection does with the bytes it receives: ProtocolLayer      *)
(* (src/src/core/protocol.hpp), which collects segments and calls a layer  *)
(* again and again; HttpLayer and WebsocketLayer with their parsers;       *)
(* ConcreteRouter, which owns the processors and, after a websocket        *)
(* handshake, makes the protocol layer continue the same loop with the     *)
(* other layer. Everything runs in the connection's worker, but for the    *)
(* parts that a streaming processor sends from the capturer's thread.      *)
(*                                                                         *)
(* The bytes are grouped into units, at whose borders a segment may end: a *)
(* word of the request line, a space, an end of line, a header's field     *)
(* with its colon, its value, the fixed part of a websocket frame, one     *)
(* byte of a body or of a payload.                                         *)
(***************************************************************************)
EXTENDS Integers, Sequences, SequencesExt, FiniteSetsExt

CONSTANTS
  HttpRoutes,     \* HttpRouteMapping: <<[method, uris, kind], ...>>
  WebsocketUris,  \* the URIs that some route of WebsocketRouteMapping matches
  Requests,       \* HTTP requests the client may send
  Frames,         \* websocket frames the client may send
  None,           \* a null pointer
  MaxMessages,    \* bound: messages sent by the client
  MaxSegment,     \* bound: units in one segment
  MaxParts        \* bound: parts sent by streaming processors

HttpMethod == {"GET", "PUT", "POST", "DELETE"}
opClose == 8

\* A unit of the stream: what it is, and the text and the number it stands for.
Texts == {"", "HTTP/1.1", "upgrade", "sec-websocket-key", "content-length"}
           \cup {m.method : m \in Requests} \cup {m.uri : m \in Requests}
Units == [u : {"word", "space", "eol", "field", "value", "byte", "frame"},
          name : Texts, n : Int]

\* Text that std::stoul and std::stoi refuse.
NotANumber == -1

ASSUME RoutesAssumption ==
  HttpRoutes \in Seq([method : HttpMethod, uris : SUBSET STRING, kind : {"lambda", "stream"}])
ASSUME MessagesAssumption ==
  /\ Requests \subseteq [method : STRING, uri : STRING, skip : Nat \cup {NotANumber},
                        headers : SUBSET {"upgrade", "sec-websocket-key"},
                        length : Nat \cup {NotANumber}]
  /\ Frames \subseteq [opcode : 0..15, length : Nat]
ASSUME ProtocolBounds ==
  MaxMessages \in Nat /\ MaxSegment \in Nat \ {0} /\ MaxParts \in Nat
ASSUME NoneAssumption ==
  /\ None \notin {"lambda", "stream"} /\ None \notin Requests \cup Frames
  /\ None \notin Seq(Units) /\ None \notin Seq(Seq(Units))

VARIABLES
  messages,            \* history: the messages sent by the client
  inflight,            \* units sent and not yet received
  buffer,              \* ProtocolLayer::buffer, the bytes not yet consumed
  looping,             \* inside the loop of ProtocolLayer::Process
  terminated,          \* nobody caught an exception
  processor,           \* the layer ProtocolLayer::processor points to
  httpProcessor,       \* the router's member: None, "lambda" or "stream"
  websocketProcessor,  \* the router's member: None or "lambda"
  handled,             \* history: what the layers handed to the router
  out                  \* history: what was given to the TcpSender

clientVars == <<messages, inflight>>
routerVars == <<processor, httpProcessor, websocketProcessor>>
vars == <<clientVars, buffer, looping, terminated, routerVars, handled, out>>

-----------------------------------------------------------------------------
(* Units, and the encoding of the client's messages.                       *)

Unit(u, name, n) == [u |-> u, name |-> name, n |-> n]
Word(w, n)   == Unit("word", w, n)
Space        == Unit("space", "", 0)
EndOfLine    == Unit("eol", "", 0)
Field(name)  == Unit("field", name, 0)
Value(n)     == Unit("value", "", n)
Byte         == Unit("byte", "", 0)
FrameHead(f) == Unit("frame", "", f.length * 16 + f.opcode)

Bytes(n) == [i \in 1..n |-> Byte]

IsFrame(m) == m \in Frames

HeaderLine(name, n, names) ==
  IF name \in names THEN <<Field(name), Value(n), EndOfLine>> ELSE <<>>

HeaderLines(m) ==
  LET names == m.headers \cup (IF m.length # 0 THEN {"content-length"} ELSE {}) IN
    HeaderLine("upgrade", 0, names) \o HeaderLine("sec-websocket-key", 0, names)
      \o HeaderLine("content-length", m.length, names)

\* The URI's unit has the number of its query, 0 if there is none.
Encode(m) ==
  IF IsFrame(m)
    THEN <<FrameHead(m)>> \o Bytes(m.length)
    ELSE <<Word(m.method, 0), Space, Word(m.uri, m.skip), Space, Word("HTTP/1.1", 0), EndOfLine>>
         \o HeaderLines(m) \o <<EndOfLine>> \o Bytes(m.length)

\* The units of several messages.
Encoding(ms) == FlattenSeq([i \in DOMAIN ms |-> Encode(ms[i])])

-----------------------------------------------------------------------------
(* The HTTP parser. Each function takes something from the beginning of    *)
(* the payload, or fails.                                                  *)

Failed == [value |-> None, rest |-> <<>>]
From(b, i) == SubSeq(b, i, Len(b))

SkipWhiteSpaces(b) ==
  LET text == {i \in DOMAIN b : b[i].u # "space"}
  IN IF text = {} THEN <<>> ELSE From(b, Min(text))

ParseToken(b) ==
  LET payload == SkipWhiteSpaces(b)
      ends == {i \in DOMAIN payload : payload[i].u \in {"space", "eol"}}
  IN IF ends = {} THEN Failed
     ELSE [value |-> SubSeq(payload, 1, Min(ends) - 1),
           rest |-> SkipWhiteSpaces(From(payload, Min(ends)))]

\* Consume(payload, "\r\n"): what is left, None if it is not there.
ConsumeEndOfLine(b) == IF b # <<>> /\ b[1].u = "eol" THEN Tail(b) ELSE None

\* ParseHeaders, ParseHeader, ParseLine, ParseHeaderField: up to the empty
\* line, which stays. Every line before it must have a field.
ParseHeaders(b) ==
  LET starts == {i \in DOMAIN b : i = 1 \/ b[i - 1].u = "eol"}
      empty == {i \in starts : b[i].u = "eol"}
      head == {i \in starts : i < Min(empty)}
  IN IF empty = {} \/ \E i \in head : b[i].u # "field" THEN Failed
     ELSE [value |-> [k \in 1..Cardinality(head) |-> SubSeq(b, 3 * k - 2, 3 * k - 1)],
           rest |-> From(b, Min(empty))]

\* Mutant: the field is looked up in another spelling than ToLower leaves.
FindContentLengthNever(headers) == 0

\* emplace has kept the first of several.
FindContentLength(headers) ==
  LET found == {i \in DOMAIN headers : headers[i][1].name = "content-length"}
  IN IF found = {} THEN 0 ELSE headers[Min(found)][2].n

Nothing == [message |-> None, rest |-> <<>>]

\* ConcreteHttpParser::Parse. The answer to a length that is not a number is
\* an exception; here it is a message of that length.
HttpParse(b) ==
  LET method == ParseToken(b)
      uri == ParseToken(method.rest)
      version == ParseToken(uri.rest)
      headers == ParseHeaders(ConsumeEndOfLine(version.rest))
      bodyRemaining == FindContentLength(headers.value)
      payload == ConsumeEndOfLine(headers.rest)
  IN IF \/ method = Failed
        \/ method.value \notin {<<Word(m, 0)>> : m \in HttpMethod}
        \/ uri = Failed
        \/ version = Failed
        \/ ConsumeEndOfLine(version.rest) = None
        \/ headers = Failed
        \/ Len(payload) < bodyRemaining
       THEN Nothing
       ELSE [message |-> [method  |-> method.value[1].name,
                          uri     |-> uri.value[1].name,
                          skip    |-> uri.value[1].n,
                          headers |-> {h[1].name : h \in ToSet(headers.value)} \ {"content-length"},
                          length  |-> bodyRemaining],
             rest |-> From(payload, Max({bodyRemaining, 0}) + 1)]

\* ConcreteWebsocketParser::Parse
WebsocketParse(b) ==
  IF b = <<>> \/ b[1].u # "frame" \/ Len(b) - 1 < b[1].n \div 16
    THEN Nothing
    ELSE [message |-> [opcode |-> b[1].n % 16, length |-> b[1].n \div 16],
          rest |-> From(b, 2 + b[1].n \div 16)]

\* HttpRouteMapping::Get: the kind of the first route that matches.
HttpEntry(method, uri) ==
  LET hits == {i \in DOMAIN HttpRoutes :
                 HttpRoutes[i].method = method /\ uri \in HttpRoutes[i].uris}
  IN IF hits = {} THEN None
     ELSE HttpRoutes[CHOOSE i \in hits : \A j \in hits : i <= j].kind

\* WebsocketHandshakeBuilder::Build succeeds.
Handshake(r) == {"upgrade", "sec-websocket-key"} \subseteq r.headers

Upgrades(r) == r.uri \in WebsocketUris /\ Handshake(r)

\* stoul on the content-length, and stoi on the "skip" of a request for a
\* stream: the worker calls the parser and the processor, and nobody catches.
Throws(r) ==
  \/ r.length = NotANumber
  \/ r.skip = NotANumber /\ ~Upgrades(r) /\ HttpEntry(r.method, r.uri) = "stream"

-----------------------------------------------------------------------------
Init ==
  /\ messages = <<>> /\ inflight = <<>>
  /\ buffer = <<>> /\ looping = FALSE /\ terminated = FALSE
  /\ processor = "http" /\ httpProcessor = None /\ websocketProcessor = None
  /\ handled = <<>> /\ out = <<>>

(* The client may send a request before the answer to the last one, and    *)
(* frames right behind its handshake. It sends frames only after a         *)
(* handshake that a websocket route accepts, and then nothing else.        *)
Upgraded ==
  \E i \in DOMAIN messages : LET m == messages[i] IN ~IsFrame(m) /\ ~Throws(m) /\ Upgrades(m)

ClientSend(m) ==
  /\ Len(messages) < MaxMessages /\ ~terminated
  /\ IsFrame(m) = Upgraded
  /\ messages' = Append(messages, m)
  /\ inflight' = inflight \o Encode(m)
  /\ UNCHANGED <<buffer, looping, terminated, routerVars, handled, out>>

\* ProtocolLayer::Process begins: buffer += payload.
Receive(n) ==
  /\ ~looping /\ ~terminated
  /\ n <= Len(inflight)
  /\ buffer' = buffer \o SubSeq(inflight, 1, n)
  /\ inflight' = SubSeq(inflight, n + 1, Len(inflight))
  /\ looping' = TRUE
  /\ UNCHANGED <<messages, terminated, routerVars, handled, out>>

Parsed == IF processor = "http" THEN HttpParse(buffer) ELSE WebsocketParse(buffer)

HasMessage == looping /\ Parsed # Nothing

\* HttpLayer::TryProcess and WebsocketLayer::TryProcess with a message.
Consume ==
  /\ HasMessage
  /\ processor = "http" => ~Throws(Parsed.message)
  /\ buffer' = Parsed.rest
  /\ handled' = Append(handled, Parsed.message)
  /\ UNCHANGED <<clientVars, terminated>>

Terminate ==
  /\ HasMessage
  /\ processor = "http" /\ Throws(Parsed.message)
  /\ terminated' = TRUE /\ looping' = FALSE
  /\ UNCHANGED <<clientVars, buffer, routerVars, handled, out>>

Reply(item) == out' = Append(out, item)

\* Mutant: the HTTP processor stays.
UpgradeKeepsProcessor ==
  /\ processor = "http"
  /\ Consume
  /\ Upgrades(Parsed.message)
  /\ processor' = "websocket"
  /\ websocketProcessor' = "lambda"
  /\ Reply("switching")
  /\ UNCHANGED <<looping, httpProcessor>>

\* TryUpgrade returns true.
Upgrade ==
  /\ processor = "http"
  /\ Consume
  /\ Upgrades(Parsed.message)
  /\ httpProcessor' = None
  /\ processor' = "websocket"
  /\ websocketProcessor' = "lambda"
  /\ Reply("switching")
  /\ UNCHANGED looping

\* ConcreteRouter::Process(HttpRequest) with a route: the processor answers
\* in Process, and a streaming one has subscribed when it returns.
Route ==
  /\ processor = "http"
  /\ Consume
  /\ LET r == Parsed.message IN
       /\ ~Upgrades(r)
       /\ HttpEntry(r.method, r.uri) # None
       /\ httpProcessor' = HttpEntry(r.method, r.uri)
  /\ websocketProcessor' = None
  /\ Reply("response")
  /\ UNCHANGED <<looping, processor>>

\* ... and without one: the processors stay.
NotFound ==
  /\ processor = "http"
  /\ Consume
  /\ LET r == Parsed.message IN ~Upgrades(r) /\ HttpEntry(r.method, r.uri) = None
  /\ Reply("notfound")
  /\ UNCHANGED <<looping, routerVars>>

\* WebsocketLayer::TryProcess: a close frame, after which the loop goes on,
CloseFrame ==
  /\ processor = "websocket"
  /\ Consume
  /\ Parsed.message.opcode = opClose
  /\ Reply("close")
  /\ UNCHANGED <<looping, routerVars>>

\* and any other: ConcreteRouter::Process(WebsocketFrame). The processor of
\* the route may answer.
Frame ==
  /\ processor = "websocket"
  /\ Consume
  /\ Parsed.message.opcode # opClose
  /\ out' \in {out, Append(out, "frame")}
  /\ UNCHANGED <<looping, routerVars>>

\* TryProcess returns false, so Process does.
Return ==
  /\ looping
  /\ Parsed = Nothing
  /\ looping' = FALSE
  /\ UNCHANGED <<clientVars, buffer, terminated, routerVars, handled, out>>

\* The capturer's thread, at any time.
StreamPart ==
  /\ httpProcessor = "stream" /\ ~terminated
  /\ Len(SelectSeq(out, LAMBDA x : x = "part")) < MaxParts
  /\ Reply("part")
  /\ UNCHANGED <<clientVars, buffer, looping, terminated, routerVars, handled>>

-----------------------------------------------------------------------------
Layers == Upgrade \/ Route \/ NotFound \/ CloseFrame \/ Frame \/ Return \/ Terminate

\* The bound on messages is reached and the worker waits for input.
Exhausted ==
  /\ \/ terminated
     \/ Len(messages) = MaxMessages /\ inflight = <<>> /\ ~looping
  /\ UNCHANGED vars

Next ==
  \/ \E m \in Requests \cup Frames : ClientSend(m)
  \/ \E n \in 1..MaxSegment : Receive(n)
  \/ Layers \/ StreamPart
  \/ Exhausted

Spec == Init /\ [][Next]_vars

-----------------------------------------------------------------------------
\* A request that the HTTP parser never accepts: nothing behind it is ever
\* looked at, and the buffer grows with every further segment.
Malformed(m) == ~IsFrame(m) /\ m.method \notin HttpMethod

\* However the stream is cut into segments, and although the parser that
\* reads on changes in the middle of a buffer, the router is given the
\* client's messages, each once and in order, and every other byte is kept.
\* ProtocolLayer::Process does not return while a whole message is in the
\* buffer: the client need not send more to have it handled. And a number
\* that is none ends the process when its turn comes, not before.
InStep ==
  LET rest == SubSeq(messages, Len(handled) + 1, Len(messages)) IN
    /\ IsPrefix(handled, messages)
    /\ Encoding(rest) = buffer \o inflight
    /\ ~looping /\ ~terminated /\ rest # <<>> =>
         Len(buffer) < Len(Encode(rest[1])) \/ Malformed(rest[1])
    /\ terminated => rest # <<>> /\ ~IsFrame(rest[1]) /\ Throws(rest[1])

\* A connection has one processor at a time, so that what is sent on it has
\* one source; and the layer in charge of the bytes has it. (The router's
\* Process(WebsocketFrame) tests for a null processor, closes the connection,
\* and then uses it all the same: router.cpp:39-42.)
OneProcessor ==
  /\ httpProcessor = None \/ websocketProcessor = None
  /\ processor = "websocket" => websocketProcessor # None

\* After "101 Switching Protocols" the connection carries websocket frames
\* only: no part of a stream that was running and no HTTP response.
OnlyFramesAfterSwitching ==
  \A i, j \in DOMAIN out :
    i < j /\ out[i] = "switching" => out[j] \in {"frame", "close"}

=============================================================================
