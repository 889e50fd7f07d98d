---------------------------- MODULE HttpService ----------------------------
(***************************************************************************)
(* The upgrade to a WebSocket: the request ws_connect.rs makes, and what   *)
(* service.rs answers.  Header values are words; a header is missing when  *)
(* its value is Absent.                                                    *)
(***************************************************************************)
EXTENDS Naturals, Sequences, FiniteSets

Absent == "absent"
PROTOCOL_VERSION == "penguin-v7"

Names ==
    {"connection", "upgrade", "sec-websocket-key", "sec-websocket-version",
     "sec-websocket-protocol", "x-penguin-psk", "host"}

(* into_client_request (external) *)
ClientRequest ==
    [n \in Names |->
        CASE n = "connection" -> "Upgrade"
          [] n = "upgrade" -> "websocket"
          [] n = "sec-websocket-key" -> "key"
          [] n = "sec-websocket-version" -> "13"
          [] n = "host" -> "url"
          [] OTHER -> Absent]

Insert(h, n, v) == IF v = Absent THEN h ELSE [h EXCEPT ![n] = v]

(* handshake: protocol, PSK and hostname, then the custom headers, a       *)
(* sequence of <<name, value>>, which replace what is there.               *)
HandshakeHeaders(ws_psk, hostname, custom) ==
    LET own == Insert(Insert(Insert(ClientRequest, "sec-websocket-protocol", PROTOCOL_VERSION),
                             "x-penguin-psk", ws_psk), "host", hostname)
        add[i \in 0..Len(custom)] ==
            IF i = 0 THEN own ELSE Insert(add[i - 1], custom[i][1], custom[i][2])
    IN  add[Len(custom)]

(* eq_ignore_ascii_case, for the words that occur *)
Lower(v) ==
    CASE v = "Upgrade" -> "upgrade" [] v = "WebSocket" -> "websocket"
      [] v = "Penguin-V7" -> PROTOCOL_VERSION [] OTHER -> v

(* header_matches! *)
HeaderMatches(given, wanted) == given # Absent /\ Lower(given) = wanted

(* not_found_handler *)
NotFound == [status |-> 404, body |-> "not_found_resp"]

(* backend_or_404_handler with exec_request: any failure is a 404. *)
BackendOr404(state, backendAnswers) ==
    IF state.backend /\ backendAnswers THEN [status |-> 200, body |-> "backend"] ELSE NotFound

(* Any PSK will do. *)
PskPresent(state, req) == state.ws_psk # Absent => req.headers["x-penguin-psk"] # Absent

PskMatches(state, req) ==
    state.ws_psk # Absent => req.headers["x-penguin-psk"] = state.ws_psk

(* The checks of ws_handler. *)
WsHandlerAccepts(state, req) ==
    /\ req.method = "GET"
    /\ PskMatches(state, req)
    /\ req.headers["sec-websocket-key"] # Absent
    /\ HeaderMatches(req.headers["connection"], "upgrade")
    /\ HeaderMatches(req.headers["upgrade"], "websocket")
    /\ HeaderMatches(req.headers["sec-websocket-version"], "13")
    /\ HeaderMatches(req.headers["sec-websocket-protocol"], PROTOCOL_VERSION)
    /\ req.on_upgrade

(* State::call *)
Call(state, req, backendAnswers) ==
    IF req.path = "/health" /\ ~state.obfs THEN [status |-> 200, body |-> "OK"]
    ELSE IF req.path = "/version" /\ ~state.obfs THEN [status |-> 200, body |-> "version"]
    ELSE IF req.path = "/ws" /\ WsHandlerAccepts(state, req)
      THEN [status |-> 101, body |-> "upgraded"]
    ELSE BackendOr404(state, backendAnswers)
=============================================================================
