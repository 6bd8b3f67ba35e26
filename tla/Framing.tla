------------------------------ MODULE Framing ------------------------------
(***************************************************************************)
(* From a stream of bytes back to messages: what msg_sender_t sends, and   *)
(* common_socket_controller_t::handle_read on chunks that end anywhere.    *)
(*                                                                         *)
(* A byte is a number below Radix.  A head has the size of the body, its   *)
(* least significant byte first, then cmd and flag.  A step is one turn of *)
(* the loop of handle_read; the next chunk comes when it has returned.     *)
(***************************************************************************)
EXTENDS Naturals, Sequences, SequencesExt

CONSTANTS Radix,        \* values of a byte, 256 in the build
          SizeBytes,    \* bytes of message_head_t::size, 4 in the build
          HeadBytes,    \* sizeof(message_head_t), 8 in the build
          Messages,     \* messages that may be sent, records of cmd and body
          MaxMessages   \* bound: messages sent

ASSUME FramingAssumption == Radix > 1 /\ SizeBytes > 0 /\ HeadBytes > SizeBytes

VARIABLES sent,             \* history: the messages sent
          stream,           \* bytes sent and not read
          buff,             \* bytes of the chunk that handle_read has not consumed
          m_have_recv_size,
          m_head,           \* the bytes of m_message.m_head
          m_body,
          delivered,        \* history: messages given to handle_msg
          frail             \* history: a chunk ended at a frail byte (see Frame)

message == <<m_have_recv_size, m_head, m_body>>
vars == <<sent, stream, buff, message, delivered, frail>>

NoHead == [i \in 1..HeadBytes |-> 0]

Init == /\ sent = <<>> /\ stream = <<>> /\ buff = <<>>
        /\ m_have_recv_size = 0 /\ m_head = NoHead /\ m_body = <<>>
        /\ delivered = <<>> /\ frail = FALSE

-----------------------------------------------------------------------------
Digit(n, i) == (n \div Radix^(i - 1)) % Radix

(* Mutant: the most significant byte first.                                *)
HeadSwapped(m) == [i \in 1..HeadBytes |->
                     IF i <= SizeBytes THEN Digit(Len(m.body), SizeBytes + 1 - i)
                     ELSE IF i = SizeBytes + 1 THEN m.cmd ELSE 0]

HeadOf(m) == [i \in 1..HeadBytes |-> IF i <= SizeBytes THEN Digit(Len(m.body), i)
                                     ELSE IF i = SizeBytes + 1 THEN m.cmd ELSE 0]

(* The bytes of a message.  A byte of the head is frail if the size, as    *)
(* far as it has come with it, is 0, and the head goes on behind it.       *)
Frame(m) ==
  LET head == HeadOf(m)
  IN [i \in 1..(HeadBytes + Len(m.body)) |->
        [byte  |-> IF i <= HeadBytes THEN head[i] ELSE m.body[i - HeadBytes],
         frail |-> i < HeadBytes /\ \A j \in 1..i : j <= SizeBytes => head[j] = 0]]

(* msg_sender_t::send.                                                     *)
send(m) == /\ Len(sent) < MaxMessages
           /\ sent' = Append(sent, m)
           /\ stream' = stream \o Frame(m)
           /\ UNCHANGED <<buff, message, delivered, frail>>

-----------------------------------------------------------------------------
(* socket_impl_t reads n bytes and calls handle_read.                      *)
chunk(n) == /\ buff = <<>>
            /\ buff' = [i \in 1..n |-> stream[i].byte]
            /\ stream' = SubSeq(stream, n + 1, Len(stream))
            /\ frail' = (frail \/ stream[n].frail)
            /\ UNCHANGED <<sent, message, delivered>>

(* How much append_head takes, and the head after it.                      *)
HeadPart == IF m_have_recv_size < HeadBytes
              THEN Min({HeadBytes - m_have_recv_size, Len(buff)}) ELSE 0

HeadNow == [i \in 1..HeadBytes |->
              IF i \in (m_have_recv_size + 1)..(m_have_recv_size + HeadPart)
                THEN buff[i - m_have_recv_size] ELSE m_head[i]]

SizeNow == FoldFunctionOnSet(+, 0, [i \in 1..SizeBytes |-> HeadNow[i] * Radix^(i - 1)],
                             1..SizeBytes)

(* How much append_msg takes.                                              *)
BodyPart == Min({SizeNow - Len(m_body), Len(buff) - HeadPart})

(* append_head, append_msg, and handle_msg when the body has the size of   *)
(* the head.                                                               *)
handle_read_turn ==
  LET body == m_body \o SubSeq(buff, HeadPart + 1, HeadPart + BodyPart)
  IN /\ buff # <<>>
     /\ buff' = SubSeq(buff, HeadPart + BodyPart + 1, Len(buff))
     /\ IF Len(body) = SizeNow
          THEN /\ delivered' = Append(delivered, [cmd |-> HeadNow[SizeBytes + 1], body |-> body])
               /\ m_have_recv_size' = 0 /\ m_head' = NoHead /\ m_body' = <<>>
          ELSE /\ m_have_recv_size' = m_have_recv_size + HeadPart + BodyPart
               /\ m_head' = HeadNow /\ m_body' = body
               /\ UNCHANGED delivered
     /\ UNCHANGED <<sent, stream, frail>>

Next == \/ \E m \in Messages : send(m)
        \/ \E n \in 1..Len(stream) : chunk(n)
        \/ handle_read_turn

Spec == Init /\ [][Next]_vars

-----------------------------------------------------------------------------
(* For every chunking in which no chunk ends at a frail byte the handler   *)
(* gets the messages that were sent, in order, and has them all when all   *)
(* bytes are read.  (When one does, as with a body whose size is a         *)
(* multiple of Radix and a chunk that ends after its first byte, the code  *)
(* delivers a message that was never sent and loses its place.)            *)
MessagesAsSent ==
  ~frail => /\ IsPrefix(delivered, sent)
            /\ stream = <<>> /\ buff = <<>> => delivered = sent
=============================================================================
