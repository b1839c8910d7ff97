----------------------------- MODULE ProtoWire -----------------------------
(***************************************************************************)
(* The protobuf reader and writer of core/chain.js, written by hand for    *)
(* the raw queries of plans, subscriptions and fee grants.  A message is a *)
(* sequence of bytes; what it says is a sequence of fields                 *)
(* [num, wire, value], wire 0 a number, wire 2 bytes.                      *)
(***************************************************************************)
EXTENDS Integers, Sequences, SequencesExt

---------------------------------------------------------------------------
(* Writing. *)

\* Seven bits a byte, low ones first; all but the last byte are marked by 128.
Varint(n) ==
  LET bytes[k \in Nat] == IF k < 128 THEN <<k>> ELSE <<128 + (k % 128)>> \o bytes[k \div 128]
  IN bytes[n]

VarintField(num, n) == Varint(8 * num) \o Varint(n)
BytesField(num, data) == Varint(8 * num + 2) \o Varint(Len(data)) \o data
Embedded(num, data) == IF data = <<>> THEN <<>> ELSE BytesField(num, data)

Written(f) == IF f.wire = 0 THEN VarintField(f.num, f.value) ELSE BytesField(f.num, f.value)
Message(fields) == FlattenSeq([i \in DOMAIN fields |-> Written(fields[i])])

---------------------------------------------------------------------------
(* Reading.  A message that ends early ends the number or the bytes it is in. *)

ReadVarint(buf, i) ==
  LET ends == {j \in i..Len(buf) : buf[j] < 128}
      last == IF ends = {} THEN Len(buf) ELSE CHOOSE j \in ends : \A k \in ends : j <= k
      number(end) ==
        LET from[j \in i..(end + 1)] == IF j > end THEN 0 ELSE (buf[j] % 128) + 128 * from[j + 1]
        IN [value |-> from[i], next |-> end + 1]
  IN number(last)

Piece(buf, len) ==
  [value |-> SubSeq(buf, len.next, IF len.next + len.value - 1 > Len(buf)
                                   THEN Len(buf) ELSE len.next + len.value - 1),
   next |-> len.next + len.value]
ReadBytes(buf, i) == Piece(buf, ReadVarint(buf, i))

\* The field at i; of one of fixed width only the length matters.
FixedWidth(wire) == IF wire = 5 THEN 4 ELSE IF wire = 1 THEN 8 ELSE 0
ReadField(buf, i) ==
  LET body(tag) == CASE tag.value % 8 = 0 -> ReadVarint(buf, tag.next)
                     [] tag.value % 8 = 2 -> ReadBytes(buf, tag.next)
                     [] OTHER -> [value |-> 0, next |-> tag.next + FixedWidth(tag.value % 8)]
      field(tag, read) == [num |-> tag.value \div 8, wire |-> tag.value % 8,
                           value |-> read.value, next |-> read.next]
      tagged(tag) == field(tag, body(tag))
  IN tagged(ReadVarint(buf, i))

\* The numbers and the pieces of bytes, in order.  Not every reader skips a field
\* of another kind: some stop there.
Field(f) == [num |-> f.num, wire |-> f.wire, value |-> f.value]
Parsed(buf, skips) ==
  LET from[i \in Nat \ {0}] ==
        LET more(f) == IF f.wire \in {0, 2} THEN <<Field(f)>> \o from[f.next]
                       ELSE IF skips THEN from[f.next] ELSE <<>>
        IN IF i > Len(buf) THEN <<>> ELSE more(ReadField(buf, i))
  IN from[1]

\* decodeRpcProto skips it, the readers of subscriptions stop.
Fields(buf) == Parsed(buf, TRUE)
FieldsUpTo(buf) == Parsed(buf, FALSE)

\* The elements of s at some places, in order.
Picked(s, places) ==
  LET upTo[n \in 0..Len(s)] ==
        IF n = 0 THEN <<>> ELSE IF n \in places THEN Append(upTo[n - 1], s[n]) ELSE upTo[n - 1]
  IN upTo[Len(s)]

\* The values of a number and a wire, in order; the first and the last of them, as
\* a sequence of at most one.
\* decodeRpcProto's callers look at the number alone: the chain writes no field
\* they read with another wire.
Fits(f, num, wire) == f.num = num /\ f.wire = wire
Values(fields, num, wire) ==
  Picked([i \in DOMAIN fields |-> fields[i].value],
         {i \in DOMAIN fields : Fits(fields[i], num, wire)})
FirstOf(fields, num, wire) ==
  LET vs == Values(fields, num, wire) IN IF vs = <<>> THEN <<>> ELSE <<Head(vs)>>
LastOf(fields, num, wire) ==
  LET vs == Values(fields, num, wire) IN IF vs = <<>> THEN <<>> ELSE <<Last(vs)>>

\* The fields of the message that a value holds, if there is one.
Inside(value) == IF value = <<>> THEN <<>> ELSE Fields(value[1])

\* _decodeAny: google.protobuf.Any is a type and the bytes of a message.
AnyOf(fields) == [type |-> LastOf(fields, 1, 2), bytes |-> LastOf(fields, 2, 2)]
DecodeAny(buf) == AnyOf(FieldsUpTo(buf))

NonZero(value) == IF value = <<0>> THEN <<>> ELSE value

\* _decodePlanSubscription: the id is a field of the base subscription.
DecodePlanSubscription(buf) ==
  LET fields == FieldsUpTo(buf)
      base == LastOf(fields, 1, 2)
  IN [id |-> IF base = <<>> THEN <<>> ELSE NonZero(LastOf(FieldsUpTo(base[1]), 1, 0)),
      plan |-> NonZero(LastOf(fields, 2, 0))]

\* Plans come one message each; one without an id is left out.
Plan(fields) == [id |-> FirstOf(fields, 1, 0), prov |-> FirstOf(fields, 2, 2)]
Known(plans) == Picked(plans, {i \in DOMAIN plans : plans[i].id # <<>>})
PlansOf(messages) == Known([i \in DOMAIN messages |-> Plan(Fields(messages[i]))])
DecodePlans(buf) == PlansOf(Values(Fields(buf), 1, 2))

\* The types of allowances, by the number that stands for their URL.
Basic == <<1>>
Periodic == <<2>>
AllowedMsg == <<3>>

\* The type and the bytes of an allowance, from the fields of its Any.
Allowance(fields) == [type |-> FirstOf(fields, 1, 2), bytes |-> FirstOf(fields, 2, 2)]

\* One turn of the loop that looks for the basic allowance inside another one.
Unwrapped(a) ==
  LET turn(inner) ==
        CASE a.type = <<Basic>> \/ inner = <<>> -> a
          [] a.type = <<Periodic>> -> [type |-> <<Basic>>, bytes |-> inner]
          [] OTHER -> Allowance(Inside(inner))
  IN turn(FirstOf(Inside(a.bytes), 1, 2))

\* queryFeeGrantRpcFirst: the amounts the allowance of a grant is limited to.
Amounts(coins) == [i \in DOMAIN coins |-> FirstOf(Fields(coins[i]), 2, 2)]
Limit(a) == IF a.type = <<Basic>> THEN Amounts(Values(Inside(a.bytes), 1, 2)) ELSE <<>>
SpendLimit(buf) ==
  LET grant == Inside(FirstOf(Fields(buf), 1, 2))
      outer == Allowance(Inside(FirstOf(grant, 3, 2)))
  IN Limit(Unwrapped(Unwrapped(Unwrapped(outer))))

---------------------------------------------------------------------------
(* Properties, over the messages of up to two fields with boundary values. *)

Numbers64 == {0, 1, 127, 128, 16383, 16384}
Pieces == {<<>>, <<8>>, <<18, 1, 128>>}
AnyField ==
  [num : {1, 2, 16}, wire : {0}, value : Numbers64] \cup [num : {1, 2, 16}, wire : {2}, value : Pieces]
Samples64 == {<<>>} \cup {<<f>> : f \in AnyField} \cup {<<f, g>> : f, g \in AnyField}

\* What is written is read back, whatever the widths of numbers and tags and though
\* the bytes of a field look like fields; a message cut short by the network
\* spoils no field but its last, and a field of fixed width hides none behind it.
ReadBack ==
  \A fields \in Samples64 :
    LET buf == Message(fields) IN
    /\ Fields(buf) = fields /\ FieldsUpTo(buf) = fields
    /\ Fields(<<8 * 3 + 5, 255, 255, 255, 255>> \o buf) = fields
    /\ \A cut \in 0..Len(buf) :
         LET got == Fields(SubSeq(buf, 1, cut)) IN
         /\ Len(got) <= Len(fields)
         /\ got # <<>> => IsPrefix(Front(got), fields)

\* A subscription, wrapped twice, with fields the reader does not know in between.
SubscriptionIsRead(id, plan, odd, swapped) ==
  LET base == Message(<<odd, [num |-> 1, wire |-> 0, value |-> id], odd>>)
      sub == IF swapped THEN Written(odd) \o VarintField(2, plan) \o Embedded(1, base)
             ELSE Written(odd) \o Embedded(1, base) \o VarintField(2, plan)
      any == BytesField(1, <<47, 115>>) \o BytesField(2, sub)
  IN DecodePlanSubscription(DecodeAny(any).bytes[1]) = [id |-> <<id>>, plan |-> <<plan>>]

\* Whatever stands between them and in either order, the reader finds the id and
\* the plan of a subscription.
SubscriptionRead ==
  \A id, plan \in Numbers64 \ {0} : \A odd \in {f \in AnyField : f.num = 16} :
    \A swapped \in BOOLEAN : SubscriptionIsRead(id, plan, odd, swapped)

\* Two plans with a plan without an id between them and another field behind.
PlanWritten(id) == BytesField(1, VarintField(1, id) \o BytesField(2, <<7>>) \o VarintField(9, id))
PlansAreRead(id, other) ==
  DecodePlans(PlanWritten(id) \o BytesField(1, <<>>) \o PlanWritten(other) \o BytesField(2, <<8, 2>>))
    = <<[id |-> <<id>>, prov |-> <<<<7>>>>], [id |-> <<other>>, prov |-> <<<<7>>>>]>>

\* The allowance of some coins, and an allowance inside another one.
CoinWritten(amount) == BytesField(1, <<9>>) \o BytesField(2, amount)
BasicOf(amounts) ==
  [type |-> Basic,
   bytes |-> Message([i \in DOMAIN amounts |->
                        [num |-> 1, wire |-> 2, value |-> CoinWritten(amounts[i])]])]
AnyWritten(a) == BytesField(1, a.type) \o BytesField(2, a.bytes)
InPeriodic(a) == [type |-> Periodic, bytes |-> BytesField(1, a.bytes)]
InAllowedMsg(a) == [type |-> AllowedMsg, bytes |-> BytesField(1, AnyWritten(a))]
Wrappings(a) ==
  {a, InPeriodic(a), InAllowedMsg(a), InAllowedMsg(InPeriodic(a)),
   InAllowedMsg(InAllowedMsg(a)), InAllowedMsg(InAllowedMsg(InPeriodic(a)))}

GrantWritten(a) == BytesField(1, BytesField(1, <<5>>) \o BytesField(2, <<6>>) \o BytesField(3, AnyWritten(a)))
LimitIsRead(amounts) ==
  \A a \in Wrappings(BasicOf(amounts)) :
    SpendLimit(GrantWritten(a)) = [i \in DOMAIN amounts |-> <<amounts[i]>>]

\* The chain's answers to the queries of plans and of a fee grant are understood:
\* every plan in its order, and the limit of a grant however the chain wrapped it,
\* for three wrappings at most; a limited grant never reads as an unlimited one.
AnswersRead ==
  /\ \A id, other \in Numbers64 : PlansAreRead(id, other)
  /\ \A amounts \in {<<>>} \cup {<<a>> : a \in Pieces} \cup {<<a, b>> : a, b \in Pieces} : LimitIsRead(amounts)
============================================================================
