------------------------------ MODULE Framing ------------------------------
(***************************************************************************)
(* ProtocolSerializer: one direction of a connection, byte by byte.        *)
(*                                                                         *)
(* The writer puts a four-byte length and the body on the stream and       *)
(* checks neither; the reader collects four bytes, then as many as they    *)
(* say, from reads that return what they like.  The writer may stop in the *)
(* middle of a message, and then the stream ends there.                    *)
(***************************************************************************)
EXTENDS Integers, Sequences

CONSTANTS
    Messages,         \* bodies: byte sequences that are not empty
    MaxMessageBytes,  \* what the reader accepts
    MaxSent           \* bound: messages on one connection

MaxInt32 == 2147483647

ASSUME FramingAssumption ==
    /\ \A m \in Messages : m \in Seq(0..255) /\ m # <<>> /\ Len(m) <= MaxInt32
    /\ MaxMessageBytes \in Nat \ {0} /\ MaxMessageBytes <= MaxInt32
    /\ MaxSent \in Nat

VARIABLES
    wire,      \* the bytes that were written and arrive
    taken,     \* how many of them were read
    closed,    \* whether the writer is gone
    phase,     \* what the reader collects: "header" or "body"; or how it ended
    want,      \* the length of its buffer
    buffer,    \* the bytes it has collected
    sent,      \* history: the messages written
    starts,    \* history: the place of each on the wire, and where the last ends
    received   \* the messages returned to the reader's caller

reader == <<phase, want, buffer, received>>
writer == <<wire, closed, sent, starts>>
vars == <<writer, taken, reader>>

HeaderBytes == 4

\* WriteInt32BigEndian and ReadInt32BigEndian: 32 bits, the first of them the sign.
Encode(n) == <<n \div 16777216, (n \div 65536) % 256, (n \div 256) % 256, n % 256>>

Signed(byte) == IF byte < 128 THEN byte ELSE byte - 256

\* Variant: the other byte order.
DecodeLittleEndian(b) == Signed(b[4]) * 16777216 + b[3] * 65536 + b[2] * 256 + b[1]

Decode(b) == Signed(b[1]) * 16777216 + b[2] * 65536 + b[3] * 256 + b[4]

Plausible(n) == n > 0 /\ n <= MaxMessageBytes

Init == /\ wire = <<>>
        /\ taken = 0
        /\ closed = FALSE
        /\ phase = "header"
        /\ want = HeaderBytes
        /\ buffer = <<>>
        /\ sent = <<>>
        /\ starts = <<0>>
        /\ received = <<>>
-----------------------------------------------------------------------------
WriteMessage(m) == /\ ~closed /\ Len(sent) < MaxSent
                   /\ wire' = wire \o (Encode(Len(m)) \o m)
                   /\ sent' = Append(sent, m)
                   /\ starts' = Append(starts, Len(wire'))
                   /\ UNCHANGED <<closed, taken, reader>>

\* Cancelled or broken: some of what was written does not arrive.
WriterStops == /\ ~closed
               /\ closed' = TRUE
               /\ \E n \in taken..Len(wire) : wire' = SubSeq(wire, 1, n)
               /\ UNCHANGED <<sent, starts, taken, reader>>
-----------------------------------------------------------------------------
Reading == phase \in {"header", "body"}

\* One ReadAsync returns n bytes.
Takes(n) == /\ Reading
            /\ taken + n <= Len(wire)
            /\ taken' = taken + n
            /\ UNCHANGED <<writer, phase, want, received>>

\* Variant: each read goes to the start of the buffer.
ReadToStart == \E n \in 1..(want - Len(buffer)) :
                  /\ Takes(n)
                  /\ buffer' = SubSeq(wire, taken + 1, taken + n)

\* At least one byte, at most what is there and what is wanted, after those before.
ReadSome == \E n \in 1..(want - Len(buffer)) :
               /\ Takes(n)
               /\ buffer' = buffer \o SubSeq(wire, taken + 1, taken + n)

HeaderComplete == phase = "header" /\ Len(buffer) = want

ReadHeader == /\ HeaderComplete
              /\ Plausible(Decode(buffer))
              /\ phase' = "body"
              /\ want' = Decode(buffer)
              /\ buffer' = <<>>
              /\ UNCHANGED <<taken, writer, received>>

RefuseHeader == /\ HeaderComplete
                /\ ~Plausible(Decode(buffer))
                /\ phase' = "refused"
                /\ UNCHANGED <<taken, writer, want, buffer, received>>

Return == /\ received' = Append(received, buffer)
          /\ phase' = "header"
          /\ want' = HeaderBytes
          /\ UNCHANGED <<taken, writer>>

\* Variant: one read is taken for the whole body.
ReturnFirstRead == /\ phase = "body" /\ buffer # <<>>
                   /\ buffer' = <<>>
                   /\ Return

\* Variant: the next header goes after the body in the same buffer.
ReturnAndKeep == /\ phase = "body" /\ Len(buffer) = want
                 /\ buffer' = buffer
                 /\ Return

ReadBody == /\ phase = "body" /\ Len(buffer) = want
            /\ buffer' = <<>>
            /\ Return

\* A read of zero bytes, between messages or inside one: no message.
EndOfStream == /\ Reading
               /\ taken = Len(wire) /\ closed /\ Len(buffer) < want
               /\ phase' = "ended"
               /\ UNCHANGED <<taken, writer, want, buffer, received>>

\* Its caller's token is cancelled, or the read fails.
ReadStops == /\ Reading
             /\ phase' = "cancelled"
             /\ UNCHANGED <<taken, writer, want, buffer, received>>

ReadMessage == ReadSome \/ ReadHeader \/ RefuseHeader \/ ReadBody \/ EndOfStream

Next == (\E m \in Messages : WriteMessage(m)) \/ WriterStops \/ ReadMessage \/ ReadStops

Spec == Init /\ [][Next]_vars

\* Whoever reads goes on reading until it is cancelled.
FairSpec == Spec /\ WF_vars(ReadMessage)
-----------------------------------------------------------------------------
(***************************************************************************)
(* Properties.                                                             *)
(***************************************************************************)
\* Every variable keeps to its values.
TypeOK == /\ wire \in Seq(0..255) /\ taken \in 0..Len(wire)
          /\ buffer \in Seq(0..255)
          /\ closed \in BOOLEAN
          /\ phase \in {"header", "body", "refused", "ended", "cancelled"}
          /\ want \in Nat /\ Len(buffer) <= want
          /\ sent \in Seq(Messages) /\ received \in Seq(Messages)
          /\ starts \in Seq(Nat) /\ Len(starts) = Len(sent) + 1

\* The reader never loses its place: it refuses a length only where the writer has put a
\* message on the stream that is too long for it, and then after all messages before it.
RefusesOnlyOversized ==
    phase = "refused" => /\ Len(received) < Len(sent)
                         /\ taken = starts[Len(received) + 1] + HeaderBytes
                         /\ Len(sent[Len(received) + 1]) > MaxMessageBytes

\* Every message is returned, unless the stream ends, its reader is cancelled or a message
\* too long for it comes before.
AllReturned == \A n \in 1..MaxSent :
    Len(sent) >= n ~> \/ Len(received) >= n \/ phase \in {"ended", "cancelled"}
                      \/ \E i \in 1..n : i <= Len(sent) /\ Len(sent[i]) > MaxMessageBytes

\* A reader that waits for bytes while the writer is there has returned all that was sent:
\* no message stays behind in its buffer, and none waits for the next one to push it out.
NothingWithheld ==
    ~closed /\ Reading /\ taken = Len(wire) /\ Len(buffer) < want
        => received = sent

Channel == INSTANCE MessageChannel WITH over <- ~Reading

\* However reads cut the bytes and wherever the stream ends, the callers see whole messages
\* in order: what AgentConnection takes for granted of a connection.
ImplementsChannel == Channel!Spec
=============================================================================
