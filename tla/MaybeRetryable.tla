--------------------------- MODULE MaybeRetryable ---------------------------
(***************************************************************************)
(* client/maybe_retryable.rs: which errors make the client connect again.  *)
(* An error is the tuple of its variants, outermost first, such as         *)
(* <<"Mux", "WebSocket", "Io", "TimedOut">>.                               *)
(***************************************************************************)
EXTENDS Sequences

IoRetryable(kind) ==
    kind \in {"AddrNotAvailable", "BrokenPipe", "ConnectionRefused", "ConnectionReset",
              "HostUnreachable", "NetworkUnreachable", "ConnectionAborted", "NotConnected",
              "NetworkDown", "TimedOut", "UnexpectedEof"}

ProtocolRetryable(e) ==
    e \in {"ReceivedAfterClosing", "ResetWithoutClosingHandshake", "SendAfterClosing",
           "HandshakeIncomplete"}

TungsteniteRetryable(e) ==
    \/ Head(e) \in {"AlreadyClosed", "ConnectionClosed"}
    \/ Head(e) = "Io" /\ IoRetryable(e[2])
    \/ Head(e) = "Protocol" /\ ProtocolRetryable(e[2])

MuxRetryable(e) ==
    \/ Head(e) \in {"SendStreamToClient", "Closed"}
    \/ Head(e) = "WebSocket" /\ TungsteniteRetryable(Tail(e))

retryable(e) ==
    \/ Head(e) \in {"HandshakeTimeout", "StreamRequestTimeout", "RemoteDisconnected"}
    \/ Head(e) = "Tungstenite" /\ TungsteniteRetryable(Tail(e))
    \/ Head(e) = "Mux" /\ MuxRetryable(Tail(e))

=============================================================================
