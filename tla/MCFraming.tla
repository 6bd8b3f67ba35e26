----------------------------- MODULE MCFraming -----------------------------
(* Framing with the messages of the broker, serialised by Codec.  Strings  *)
(* are short; a uint32_t has SizeBytes bytes of Radix values.              *)
EXTENDS Framing, TLC

INSTANCE Codec WITH Base <- Radix, Width <- SizeBytes

Uint == Fixed(SizeBytes)

(* The message types of ffrpc_ops.h.                                       *)
register_slave_broker_t           == Msg(<<String>>)
register_broker_client_t          == Msg(<<String, Set(String)>>)
register_client_to_slave_broker_t == Msg(<<Uint>>)
broker_route_t                    == Msg(<<Uint, Uint, Uint, Uint, String>>)
broker_client_info_t              == Msg(<<Uint, String>>)
broker_sync_all_registered_data_t ==
  Msg(<<Uint, Map(String, Uint), Map(Uint, register_slave_broker_t), Map(Uint, broker_client_info_t)>>)

Type == <<register_slave_broker_t, register_broker_client_t, broker_sync_all_registered_data_t,
          broker_route_t>>

Host == <<1, 0>>

CONSTANT Cmds   \* the commands used, indices of Type

(* Values of these types, among them empty ones.                           *)
Values == <<
  {<<Host>>, <<<<>>>>},
  {<<<<1>>, {<<2, 0>>, <<>>}>>},
  {<<2, <<1>> :> 5 @@ <<1, 3>> :> 6, 3 :> <<Host>>, 1 :> <<3, <<2>>>> @@ 2 :> <<0, <<>>>>>>},
  {<<1, 2, 0, 7, EncodeData(register_slave_broker_t, <<<<2>>>>)>>} >>

ValueMessages == UNION {{[cmd |-> c, body |-> EncodeData(Type[c], v)] : v \in Values[c]} : c \in Cmds}

-----------------------------------------------------------------------------
(* A message is read back as the value that was sent, with nothing left   *)
(* over, whatever the chunks in which it came.                             *)
ReadBackAsSent ==
  ~frail /\ delivered # <<>> =>
    LET m == Last(delivered)
    IN \E v \in Values[m.cmd] : DecodeData(Type[m.cmd], m.body) = Got(v, <<>>)

(* A body that lacks its end is never read as something else: decoding     *)
(* what has come of it throws, as broker and nodes expect of a message     *)
(* that is not what its command says.                                      *)
TruncatedThrows ==
  ~frail /\ m_have_recv_size >= HeadBytes /\ Len(m_body) < SizeNow =>
    DecodeData(Type[m_head[SizeBytes + 1]], m_body).thrown
=============================================================================
