----------------------------- MODULE MCProtocol -----------------------------
(* An instance of Protocol for TLC: a streaming route, a route that takes  *)
(* a body, and a websocket route.                                          *)
EXTENDS Protocol

MCHttpRoutes ==
  << [method |-> "GET",  uris |-> {"/mjpeg"},     kind |-> "stream"],
     [method |-> "POST", uris |-> {"/recording"}, kind |-> "lambda"] >>

Plain(method, uri, n) == [method |-> method, uri |-> uri, skip |-> 0, headers |-> {},
                          length |-> n]
MCHandshake(fields) == [Plain("GET", "/chat", 0) EXCEPT !.headers = fields]

MCRequests ==
  { Plain("GET", "/mjpeg", 0), Plain("POST", "/recording", 1),
    [Plain("GET", "/mjpeg", 0) EXCEPT !.skip = NotANumber],
    Plain("POST", "/recording", NotANumber),
    Plain("GET", "/recording", 0), Plain("BREW", "/mjpeg", 0),
    MCHandshake({"upgrade"}), MCHandshake({"upgrade", "sec-websocket-key"}) }

MCFrames == {[opcode |-> 1, length |-> 2], [opcode |-> opClose, length |-> 0]}
=============================================================================
