------------------------------- MODULE Codec -------------------------------
(***************************************************************************)
(* Serialisation: bin_encoder_t, bin_decoder_t and the codec_tool_t of the *)
(* types messages are made of.  A type is a record:                        *)
(*   Fixed(w)           an integer of w bytes, least significant first       *)
(*   String           its length and its bytes                             *)
(*   List(t), Set(t)  vector or list, and set: their size and the elements *)
(*   Map(t, u)        its size and the pairs                               *)
(*   Msg(ts)          a msg_i with fields of the types ts: as a field of   *)
(*                    another message, a string with its encoding          *)
(* A string is the sequence of its bytes.  The elements of sets and maps   *)
(* come in some order that depends on the set only.                        *)
(***************************************************************************)
EXTENDS Naturals, Sequences, SequencesExt

CONSTANTS Base,   \* values of a byte, 256 in the build
          Width   \* bytes of uint32_t, 4 in the build

Fixed(w)    == [kind |-> "int", width |-> w]
String    == [kind |-> "string"]
List(t)   == [kind |-> "list", of |-> t]
Set(t)    == [kind |-> "set", of |-> t]
Map(t, u) == [kind |-> "map", key |-> t, val |-> u]
Msg(ts)   == [kind |-> "msg", fields |-> ts]

-----------------------------------------------------------------------------
Bytes(n, w) == [i \in 1..w |-> (n \div Base^(i - 1)) % Base]

Number(s) == FoldFunctionOnSet(+, 0, [i \in DOMAIN s |-> s[i] * Base^(i - 1)], DOMAIN s)

RECURSIVE Encode(_, _)

(* encode() of a message: its fields one after another.                    *)
EncodeFields(ts, v) == FlattenSeq([i \in DOMAIN ts |-> Encode(ts[i], v[i])])

EncodeData(t, v) == EncodeFields(t.fields, v)

Prefixed(s) == Bytes(Len(s), Width) \o s

EncodeMany(t, s) == Bytes(Len(s), Width) \o FlattenSeq([i \in DOMAIN s |-> Encode(t, s[i])])

EncodeMap(t, v) ==
  LET keys == SetToSeq(DOMAIN v)
  IN Bytes(Len(keys), Width)
       \o FlattenSeq([i \in DOMAIN keys |-> EncodeFields(<<t.key, t.val>>, <<keys[i], v[keys[i]]>>)])

(* operator<<.                                                             *)
Encode(t, v) ==
  CASE t.kind = "int" -> Bytes(v, t.width)
    [] t.kind = "string" -> Prefixed(v)
    [] t.kind = "list" -> EncodeMany(t.of, v)
    [] t.kind = "set" -> EncodeMany(t.of, SetToSeq(v))
    [] t.kind = "map" -> EncodeMap(t, v)
    [] t.kind = "msg" -> Prefixed(EncodeData(t, v))

-----------------------------------------------------------------------------
(* A decoder gives a value and what remains, or throws.                    *)
Thrown == [thrown |-> TRUE]

Got(v, rest) == [thrown |-> FALSE, val |-> v, rest |-> rest]

Short(n, s) == Len(s) < n

Drop(s, n) == SubSeq(s, n + 1, Len(s))

DecodeInt(w, s) == IF Short(w, s) THEN Thrown ELSE Got(Number(SubSeq(s, 1, w)), Drop(s, w))

(* Mutant: of a string that is too short, what there is.                   *)
DecodeWhatThereIs(s) ==
  LET d == DecodeInt(Width, s)
  IN IF d.thrown THEN d
     ELSE IF Short(d.val, d.rest) THEN Got(d.rest, <<>>)
     ELSE Got(SubSeq(d.rest, 1, d.val), Drop(d.rest, d.val))

DecodeString(s) ==
  LET d == DecodeInt(Width, s)
  IN IF d.thrown THEN d
     ELSE IF Short(d.val, d.rest) THEN Thrown
     ELSE Got(SubSeq(d.rest, 1, d.val), Drop(d.rest, d.val))

RECURSIVE Decode(_, _)

(* Values of the types ts, one after another.                              *)
RECURSIVE DecodeFields(_, _)
DecodeFields(ts, s) ==
  IF ts = <<>> THEN Got(<<>>, s)
  ELSE LET first == Decode(Head(ts), s)
           others == DecodeFields(Tail(ts), first.rest)
       IN IF first.thrown THEN Thrown
          ELSE IF others.thrown THEN Thrown
          ELSE Got(<<first.val>> \o others.val, others.rest)

(* A count, and as many values.                                            *)
ManyOf(ts, s) == LET d == DecodeInt(Width, s)
                 IN IF d.thrown THEN d ELSE DecodeFields([i \in 1..d.val |-> ts], d.rest)

(* decode_data of a message: bytes behind its last field are ignored.      *)
DecodeData(t, s) == DecodeFields(t.fields, s)

DecodeSet(ts, s) == LET d == ManyOf(ts, s)
                    IN IF d.thrown THEN d ELSE Got(Range(d.val), d.rest)

(* Each key with the value that came last.                                 *)
MapOf(pairs) ==
  [k \in {pairs[i][1] : i \in DOMAIN pairs} |->
     pairs[CHOOSE i \in DOMAIN pairs : /\ pairs[i][1] = k
                                       /\ \A j \in DOMAIN pairs : pairs[j][1] = k => j <= i][2]]

Pair(t, u) == [kind |-> "pair", fields |-> <<t, u>>]

DecodeMap(ts, s) == LET d == ManyOf(ts, s)
                    IN IF d.thrown THEN d ELSE Got(MapOf(d.val), d.rest)

(* Mutant: the fields of a nested message are read in place.               *)
DecodeInPlace(t, s) == DecodeData(t, s)

DecodeMsg(t, s) ==
  LET d == DecodeString(s)
      m == DecodeData(t, d.val)
  IN IF d.thrown THEN d ELSE IF m.thrown THEN Thrown ELSE Got(m.val, d.rest)

(* operator>>, into an object that is new.                                 *)
Decode(t, s) ==
  CASE t.kind = "int" -> DecodeInt(t.width, s)
    [] t.kind = "string" -> DecodeString(s)
    [] t.kind = "list" -> ManyOf(t.of, s)
    [] t.kind = "set" -> DecodeSet(t.of, s)
    [] t.kind = "map" -> DecodeMap(Pair(t.key, t.val), s)
    [] t.kind = "pair" -> DecodeFields(t.fields, s)
    [] t.kind = "msg" -> DecodeMsg(t, s)
=============================================================================
