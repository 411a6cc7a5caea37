------------------------------- MODULE Framing -------------------------------
(* secure_send and secure_recv of shared.cpp over one direction of a TCP      *)
(* connection: a header with the length and the payload, written and read in  *)
(* pieces of any size.  Bytes are digits to base Base, so that a payload byte *)
(* read in the place of a header byte is taken for a length.                  *)
EXTENDS Naturals, Sequences, SequencesExt

CONSTANTS
  Base,               \* values of a byte (256)
  length_size_field,  \* bytes of the header (4)
  Messages,           \* payloads, sequences of bytes
  max_retries,        \* empty reads before read_n gives up (10000)
  MaxFrames           \* bound of the model: messages sent

ASSUME FramingAssumption ==
  /\ Base \in Nat \ {0, 1} /\ length_size_field \in Nat \ {0} /\ max_retries \in Nat
  /\ Messages \subseteq Seq(0..(Base - 1))

VARIABLES
  unsent,     \* what the secure_send in progress still has to hand to send
  wire,       \* the bytes accepted and not yet read
  link,       \* "open", "eof" once the sender has closed, or "reset"
  rpc,        \* what secure_recv reads: "header", "payload", or it has "ended"
  buffer,     \* the bytes that the read_n in progress has read
  need,       \* how many it wants
  retries,    \* its empty reads in a row
  received,   \* the payloads returned to the caller
  frames,     \* history: the messages whose secure_send has begun
  complete    \* history: how many of them were accepted to the last byte

wireVars == <<unsent, wire, link, rpc, buffer, need, retries, received, frames, complete>>

Bytes == 0..(Base - 1)

\* What a byte of the header counts for, beginning with the last.
Weight[k \in 0..length_size_field] == IF k = 0 THEN 1 ELSE Base * Weight[k - 1]

\* convert_int_to_byte_array, most significant byte first; the length is
\* truncated to the width of the field.
Header(n) ==
  [i \in 1..length_size_field |-> (n \div Weight[length_size_field - i]) % Base]

\* Seeded bug: the least significant byte is read first.
LengthReversed(h) == FoldRight(LAMBDA b, acc : acc * Base + b, h, 0)

\* convert_byte_array_to_int
Length(h) ==
  LET value[i \in 0..Len(h)] == IF i = 0 THEN 0 ELSE value[i - 1] * Base + h[i]
  IN value[Len(h)]

construct_message(m) == Header(Len(m)) \o m

WireTypeOK ==
  /\ unsent \in Seq(Bytes) /\ wire \in Seq(Bytes) /\ buffer \in Seq(Bytes)
  /\ link \in {"open", "eof", "reset"}
  /\ rpc \in {"header", "payload", "ended"}
  /\ need \in Nat /\ retries \in 0..max_retries
  /\ received \in Seq(Messages)
  /\ frames \in Seq(Messages) /\ complete \in {Len(frames) - 1, Len(frames)}

WireInit ==
  /\ unsent = << >> /\ wire = << >> /\ buffer = << >>
  /\ link = "open"
  /\ rpc = "header"
  /\ need = length_size_field /\ retries = 0
  /\ received = << >> /\ frames = << >> /\ complete = 0

------------------------------------------------------------------------------
\* secure_send of one message begins.
SendMessage(m) ==
  /\ link = "open"
  /\ unsent = << >>
  /\ Len(frames) < MaxFrames
  /\ unsent' = construct_message(m)
  /\ frames' = Append(frames, m)
  /\ UNCHANGED <<wire, link, rpc, buffer, need, retries, received, complete>>

\* Seeded bug: the bytes that send did not take are sent from the start again.
FromTheStart(n) == SubSeq(unsent, 1, Len(unsent) - n)

\* What is left after send took n bytes.
Remaining(n) == SubSeq(unsent, n + 1, Len(unsent))

\* send takes some of the bytes.
Send(n) ==
  /\ link = "open"
  /\ n \in 1..Len(unsent)
  /\ wire' = wire \o SubSeq(unsent, 1, n)
  /\ unsent' = Remaining(n)
  /\ complete' = IF n = Len(unsent) THEN Len(frames) ELSE complete
  /\ UNCHANGED <<link, rpc, buffer, need, retries, received, frames>>

\* The sender closes, or dies in the middle of a message.
CloseSender ==
  /\ link = "open"
  /\ link' = "eof"
  /\ unsent' = << >>
  /\ UNCHANGED <<wire, rpc, buffer, need, retries, received, frames, complete>>

\* The connection is reset: some of what was in flight is lost.
ResetLink(n) ==
  /\ link = "open"
  /\ link' = "reset"
  /\ unsent' = << >>
  /\ wire' = SubSeq(wire, 1, n)
  /\ UNCHANGED <<rpc, buffer, need, retries, received, frames, complete>>

------------------------------------------------------------------------------
\* recv returns n of the bytes there are, never more than are wanted.
Recv(n) ==
  /\ rpc # "ended"
  /\ n \in 1..Len(wire)
  /\ n <= need - Len(buffer)
  /\ buffer' = buffer \o SubSeq(wire, 1, n)
  /\ wire' = SubSeq(wire, n + 1, Len(wire))
  /\ retries' = 0
  /\ UNCHANGED <<unsent, link, rpc, need, received, frames, complete>>

\* recv returns 0 at the end of the stream, and read_n asks again.  It asks
\* again without counting after an error, -1, too: that is no step here.
RecvNothing ==
  /\ rpc # "ended"
  /\ Len(buffer) < need
  /\ link # "open" /\ wire = << >>
  /\ retries < max_retries
  /\ retries' = retries + 1
  /\ UNCHANGED <<unsent, wire, link, rpc, buffer, need, received, frames, complete>>

\* read_n returns what it has read when it has all or has retried enough.
ReadAll == Len(buffer) = need
ReadShort ==
  Len(buffer) < need /\ link # "open" /\ wire = << >> /\ retries = max_retries

\* The header is read: its length is wanted next.
HeaderRead ==
  /\ rpc = "header"
  /\ ReadAll
  /\ rpc' = "payload"
  /\ need' = Length(buffer)
  /\ buffer' = << >>
  /\ retries' = 0
  /\ UNCHANGED <<unsent, wire, link, received, frames, complete>>

Whole == rpc = "payload" /\ need > 0 /\ ReadAll

\* The payload is read, and secure_recv returns it.
PayloadRead ==
  /\ Whole
  /\ received' = Append(received, buffer)
  /\ rpc' = "header"
  /\ need' = length_size_field
  /\ buffer' = << >>
  /\ retries' = 0
  /\ UNCHANGED <<unsent, wire, link, frames, complete>>

\* Seeded bug: read_n gives up as long as it has read nothing.
GivesUpEmpty == ReadShort /\ buffer = << >>

GivesUp == ReadShort

\* secure_recv returns length 0, after a short read and for an empty message.
\* In task1 its callers then give the connection up.  In task2 and task3 some
\* close it and some go on without a message: the channel ends here for all.
End ==
  /\ rpc # "ended"
  /\ GivesUp \/ (rpc = "payload" /\ need = 0)
  /\ rpc' = "ended"
  /\ UNCHANGED <<unsent, wire, link, buffer, need, retries, received, frames, complete>>

Receiver ==
  \/ \E n \in 1..Len(wire) : Recv(n)
  \/ RecvNothing \/ HeaderRead \/ PayloadRead \/ End

WireNext ==
  \/ \E m \in Messages : SendMessage(m)
  \/ \E n \in 1..Len(unsent) : Send(n)
  \/ CloseSender
  \/ \E n \in 0..Len(wire) : ResetLink(n)
  \/ Receiver

WireSpec == WireInit /\ [][WireNext]_wireVars /\ WF_wireVars(Receiver)

------------------------------------------------------------------------------
\* The header has room for the length of every message.
MessagesFit == \A m \in Messages : Len(m) < Weight[length_size_field]

channel == INSTANCE MsgChannel
             WITH sent <- SubSeq(frames, 1, complete), broken <- (link = "reset"),
                  ended <- (rpc = "ended")

(* However send and recv cut the stream, and wherever the sender dies, what   *)
(* secure_recv returns are the messages of secure_send, whole and in order;   *)
(* a torn one is never returned.                                              *)
ChannelRefined == channel!ChanSpec

(* A message that was sent whole is returned, unless an empty one before it   *)
(* was taken for the end.                                                     *)
MessagesArrive ==
  \A i \in 1..MaxFrames : complete >= i ~> (Len(received) >= i \/ rpc = "ended")

(* The receiver is not left waiting by a sender that is gone, whatever part   *)
(* of a header or a payload it left behind.                                   *)
EndNoticed == link # "open" ~> rpc = "ended"

=============================================================================
