---------------------------- MODULE ChunkedStream ----------------------------
(***************************************************************************)
(* A message sent over a gRPC stream in chunks, send_bytes_in_chunks and   *)
(* receive_bytes_in_chunks of src/lerobot/transport/utils.py. A message is *)
(* a sequence of items, a chunk carries one; what the stream holds between *)
(* the two sides is bounded by its flow control.                           *)
(***************************************************************************)
EXTENDS Naturals, Sequences

CONSTANT WireSize  \* bound: chunks on their way

VARIABLES
  toSend,     \* the chunks of the message being sent that the sender has not yielded
  wire,       \* those on their way
  assembled   \* bytes_buffer of the receiver

streamVars == <<toSend, wire, assembled>>

Idle == toSend = <<>> /\ wire = <<>> /\ assembled = <<>>

(* Variant: a message of one chunk is its beginning. *)
StateBeginFirst(message, i) ==
  CASE i = 1 -> "begin"
    [] i = Len(message) /\ i > 1 -> "end"
    [] OTHER -> "middle"

(* A message of one chunk is its end. *)
State(message, i) ==
  CASE i = Len(message) -> "end"
    [] i = 1 /\ Len(message) > 1 -> "begin"
    [] OTHER -> "middle"

Chunks(message) == [i \in 1..Len(message) |-> [state |-> State(message, i), data |-> message[i]]]

StartMessage(message) ==
  /\ toSend = <<>> /\ toSend' = Chunks(message)
  /\ UNCHANGED <<wire, assembled>>

SendChunk ==
  /\ toSend # <<>> /\ Len(wire) < WireSize
  /\ wire' = Append(wire, Head(toSend)) /\ toSend' = Tail(toSend)
  /\ UNCHANGED assembled

(* Variant: the buffer is not emptied after a message. *)
AfterEndKeeps == Append(assembled, Head(wire).data)

(* The buffer after the chunk that ends a message. *)
AfterEnd == <<>>

ReceiveChunk ==
  /\ wire # <<>>
  /\ wire' = Tail(wire)
  /\ assembled' = CASE Head(wire).state = "begin"  -> <<Head(wire).data>>
                    [] Head(wire).state = "middle" -> Append(assembled, Head(wire).data)
                    [] Head(wire).state = "end"    -> AfterEnd
  /\ UNCHANGED toSend

(* The message that the first chunk of wire completes. *)
Complete == wire # <<>> /\ Head(wire).state = "end"
Message  == Append(assembled, Head(wire).data)

(* The stream is gone, with all that was in it. *)
Break == toSend' = <<>> /\ wire' = <<>> /\ assembled' = <<>>
=============================================================================
