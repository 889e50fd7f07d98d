----------------------------- MODULE FrameCodec -----------------------------
(***************************************************************************)
(* frame.rs: frames and their encoding, octet by octet, with the length    *)
(* checks of the decoder.  A frame is a record with a field for everything *)
(* a payload may have; fields its opcode does not use keep a fixed value.  *)
(***************************************************************************)
EXTENDS Octets

PROTOCOL_VERSION_NUMBER == 7

OpCodes == <<"Connect", "Acknowledge", "Reset", "Finish", "Push", "Bind", "Datagram">>

OpCode(n) == IF n < Len(OpCodes) THEN OpCodes[n + 1] ELSE "InvalidOpCode"

(* The types numbered one after the other. *)
BindTypeDense(n) == CASE n = 1 -> "Stream" [] n = 2 -> "Datagram" [] OTHER -> "InvalidBindType"

BindType(n) == CASE n = 1 -> "Stream" [] n = 3 -> "Datagram" [] OTHER -> "InvalidBindType"

Reset(id) ==
    [op |-> "Reset", id |-> id, num |-> 0, bind |-> "Stream", port |-> 0,
     host |-> << >>, data |-> << >>]
Finish(id) == [Reset(id) EXCEPT !.op = "Finish"]
Acknowledge(id, n) == [Reset(id) EXCEPT !.op = "Acknowledge", !.num = n]
Connect(host, port, id, rwnd) ==
    [Reset(id) EXCEPT !.op = "Connect", !.num = rwnd, !.port = port, !.host = host]
Push(id, data) == [Reset(id) EXCEPT !.op = "Push", !.data = data]
Bind(id, bt, host, port) ==
    [Reset(id) EXCEPT !.op = "Bind", !.bind = bt, !.port = port, !.host = host]
Datagram(id, host, port, data) ==
    [Reset(id) EXCEPT !.op = "Datagram", !.port = port, !.host = host, !.data = data]

(* Payload::len *)
PayloadLen(f) ==
    CASE f.op = "Connect" -> 6 + Len(f.host)
      [] f.op = "Acknowledge" -> 4
      [] f.op \in {"Reset", "Finish"} -> 0
      [] f.op = "Push" -> Len(f.data)
      [] f.op = "Bind" -> 3 + Len(f.host)
      [] f.op = "Datagram" -> 3 + Len(f.host) + Len(f.data)

(* The encoder panics. *)
Panic == <<256>>

(* Vec::from(&Frame) *)
Encode(f) ==
    LET opcode == CHOOSE n \in 0..6 : OpCode(n) = f.op
        payload ==
            CASE f.op = "Connect" -> PutU32(f.num) \o PutU16(f.port) \o f.host
              [] f.op = "Acknowledge" -> PutU32(f.num)
              [] f.op \in {"Reset", "Finish"} -> << >>
              [] f.op = "Push" -> f.data
              [] f.op = "Bind" -> <<IF f.bind = "Stream" THEN 1 ELSE 3>> \o PutU16(f.port) \o f.host
              [] f.op = "Datagram" -> <<Len(f.host)>> \o PutU16(f.port) \o f.host \o f.data
    IN  IF f.op = "Datagram" /\ Len(f.host) > 255 THEN Panic
        ELSE <<opcode + 16 * PROTOCOL_VERSION_NUMBER>> \o PutU32(f.id) \o payload

Ok(f) == [err |-> "none", frame |-> f]
Err(e) == [err |-> e, frame |-> Reset(0)]

(* check_remaining! (in builds without debug assertions, which panic) *)
HasRemaining(b, n) == Len(b) >= n

(* The part of Frame::try_from after the opcode and the flow id. *)
DecodePayload(op, id, b) ==
    CASE op = "Connect" ->
           IF ~HasRemaining(b, 6) THEN Err("FrameTooShort")
           ELSE Ok(Connect(From(b, 7), GetU16(b, 5), id, GetU32(b, 1)))
      [] op = "Acknowledge" ->
           IF ~HasRemaining(b, 4) THEN Err("FrameTooShort")
           ELSE Ok(Acknowledge(id, GetU32(b, 1)))
      [] op = "Reset" -> Ok(Reset(id))
      [] op = "Finish" -> Ok(Finish(id))
      [] op = "Push" -> Ok(Push(id, b))
      [] op = "Bind" ->
           IF ~HasRemaining(b, 3) THEN Err("FrameTooShort")
           ELSE IF BindType(b[1]) = "InvalidBindType" THEN Err("InvalidBindType")
           ELSE Ok(Bind(id, BindType(b[1]), From(b, 4), GetU16(b, 2)))
      [] op = "Datagram" ->
           IF ~HasRemaining(b, 7) \/ ~HasRemaining(Tail(b), b[1] + 6) THEN Err("FrameTooShort")
           ELSE Ok(Datagram(id, Octets(b, 4, b[1]), GetU16(b, 2), From(b, 4 + b[1])))

(* The version is not looked at. *)
DecodeAnyVersion(b) ==
    IF ~HasRemaining(b, 5) THEN Err("FrameTooShort")
    ELSE IF OpCode(b[1] % 16) = "InvalidOpCode" THEN Err("InvalidOpCode")
    ELSE DecodePayload(OpCode(b[1] % 16), GetU32(b, 2), From(b, 6))

(* Frame::try_from(Bytes) *)
Decode(b) ==
    IF ~HasRemaining(b, 5) THEN Err("FrameTooShort")
    ELSE IF b[1] \div 16 # PROTOCOL_VERSION_NUMBER THEN Err("FrameVersion")
    ELSE IF OpCode(b[1] % 16) = "InvalidOpCode" THEN Err("InvalidOpCode")
    ELSE DecodePayload(OpCode(b[1] % 16), GetU32(b, 2), From(b, 6))

(* FinalizedFrame::opcode *)
FinalizedOpcode(b) == IF b = << >> THEN "FrameTooShort" ELSE OpCode(b[1] % 16)
=============================================================================
