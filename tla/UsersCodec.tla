----------------------------- MODULE UsersCodec -----------------------------
(***************************************************************************)
(* The wire format of the users service: what the generated encoder, size  *)
(* function and decoder of users/users.pb.go do, for every message.  Every *)
(* message has its own three generated functions.  They differ in the      *)
(* fields alone, each as the function itself has them (UsersEncoders,      *)
(* UsersSizes and UsersMessages), so the functions are written here once,  *)
(* over the fields.  A struct is the sequence of its members.              *)
(*                                                                         *)
(* Bytes are 0..255.  uint64 and int have Width bits (64 in the program),  *)
(* int32 has Half bits (32), and a varint carries 7 bits a byte as it      *)
(* does in the program, so that the last byte of a full-width varint again *)
(* carries more bits than are left.                                        *)
(*                                                                         *)
(* The state is an input under test: either a message a service sends,     *)
(* one field set after the other, or bytes a service receives.             *)
(***************************************************************************)
EXTENDS UsersMessages, UsersEncoders, UsersSizes, Integers, SequencesExt

CONSTANTS
    Width, Half,        \* bits of int and of int32
    Messages,           \* the messages under test: [name -> fields]
    Strings, Ints, Times,   \* the values fields are set to
    Unknown,            \* encodings of fields no message has
    Receivers,          \* the messages that are received
    Alphabet,           \* the bytes of received input
    MaxSet,             \* [name -> how often a field of the message is set]
    MaxReceived         \* length of received input

VARIABLES
    message,    \* the name of the message
    value,      \* the struct that is sent
    sets,       \* number of assignments made to it
    received    \* the bytes that are received

vars == <<message, value, sets, received>>

(* google.protobuf.Timestamp, decoded by gogo/protobuf.                    *)
Timestamp == <<Field(1, "Seconds", "int64", "one"), Field(2, "Nanos", "int32", "one")>>

(* Messages that are fields of other messages.                             *)
Nested ==
    [time |-> Timestamp, Organization |-> Organization,
     GoogleCloudPlatform |-> GoogleCloudPlatform, User |-> User,
     SummaryEntry |-> SummaryEntry, Webhook |-> Webhook]

IsMessage(f) == f.kind \in DOMAIN Nested

(* time.Time{} is long before 1970: its seconds are negative.              *)
ZeroTime == <<-5, 0>>

RECURSIVE Zero(_)
ZeroOf(f) ==
    CASE f.label # "one" -> <<>>
      [] f.kind = "string" -> <<>>
      [] f.kind = "bool" -> FALSE
      [] f.kind \in {"int32", "int64"} -> 0
      [] f.kind = "time" -> ZeroTime
      [] OTHER -> Zero(Nested[f.kind])
(* The struct before anything is assigned to it.                           *)
Zero(fields) == [k \in DOMAIN fields |-> ZeroOf(fields[k])]

-----------------------------------------------------------------------------
(* Integers.                                                               *)
Signed(v, w) == IF v >= 2^(w - 1) THEN v - 2^w ELSE v

RECURSIVE encodeVarint(_)
encodeVarint(v) ==
    IF v >= 128 THEN <<(v % 128) + 128>> \o encodeVarint(v \div 128) ELSE <<v>>

(* (bits.Len64(x|1) + 6) / 7                                               *)
Len64(v) == CHOOSE k \in 1..Width : 2^(k - 1) <= v /\ v < 2^k
sov(v) == (Len64(IF v = 0 THEN 1 ELSE v) + 6) \div 7

Got(v, i) == [err |-> "none", v |-> v, i |-> i]
Failed(err) == [err |-> err, v |-> 0, i |-> 0]

(* The loop over shift that reads a varint at index i of d.                *)
RECURSIVE varint(_, _, _, _)
varint(d, i, shift, v) ==
    IF shift >= Width THEN Failed("overflow")
    ELSE IF i > Len(d) THEN Failed("eof")
    ELSE LET w == (v + (d[i] % 128) * 2^shift) % 2^Width IN
         IF d[i] < 128 THEN Got(w, i + 1) ELSE varint(d, i + 1, shift + 7, w)

(* A length and the index behind what it announces.                        *)
checkedLength(n) ==
    IF n.err # "none" THEN n
    ELSE IF Signed(n.v, Width) < 0 \/ n.i - 1 + n.v >= 2^(Width - 1) THEN Failed("length")
    ELSE n
lengthPrefix(d, i) == checkedLength(varint(d, i, 0, 0))

(* Mutant: what is missing at the end is left out.                         *)
withinToEnd(d, n) ==
    IF n.err = "none" /\ n.i - 1 + n.v > Len(d) THEN Got(Len(d) - n.i + 1, n.i) ELSE n
within(d, n) ==
    IF n.err = "none" /\ n.i - 1 + n.v > Len(d) THEN Failed("eof") ELSE n

-----------------------------------------------------------------------------
(* Encoding.                                                               *)
WireType(f) == IF f.kind \in {"bool", "int32", "int64"} THEN 0 ELSE 2

(* google.protobuf.Timestamp, encoded by gogo/protobuf.                    *)
TimestampEncoded == <<NonZero("Seconds", <<\h8>>), NonZero("Nanos", <<\h10>>)>>
TimestampSized == One(<<"Seconds", "Nanos">>)

(* The steps of every encoder and size function with the member they take. *)
Structs == Nested @@ Messages
Encoders == Encoded @@ [time |-> TimestampEncoded]
Sizers == Sized @@ [time |-> TimestampSized]
Named(rows, name) == CHOOSE k \in DOMAIN rows : rows[k].name = name
Step(fields, put, tag) ==
    LET k == Named(fields, put.name)
    IN  [k |-> k, f |-> fields[k], when |-> put.when, tag |-> tag]
WriteSteps(fields, puts) ==
    [j \in DOMAIN puts |-> Step(fields, puts[j], puts[j].tag)]
CountSteps(fields, puts, counted) ==
    [j \in DOMAIN counted |->
        Step(fields, puts[Named(puts, counted[j].name)], counted[j].tag)]
Writes == [m \in DOMAIN Structs |-> WriteSteps(Structs[m], Encoders[m])]
Counts == [m \in DOMAIN Structs |-> CountSteps(Structs[m], Encoders[m], Sizers[m])]

(* The values of a member that are written.                                *)
Present(w, x) ==
    CASE w.when = "each" -> x
      [] w.when = "nonzero" /\ x = ZeroOf(w.f) -> <<>>
      [] OTHER -> <<x>>

Prefixed(bytes) == encodeVarint(Len(bytes)) \o bytes

RECURSIVE MarshalToSizedBuffer(_, _)
Payload(f, x) ==
    CASE f.kind = "bool" -> <<IF x THEN 1 ELSE 0>>
      [] f.kind \in {"int32", "int64"} -> encodeVarint(x % 2^Width)
      [] f.kind = "string" -> Prefixed(x)
      [] OTHER -> Prefixed(MarshalToSizedBuffer(f.kind, x))
MemberBytes(w, xs) == FlattenSeq([j \in DOMAIN xs |-> w.tag \o Payload(w.f, xs[j])])
MarshalToSizedBuffer(m, v) ==
    FoldLeft(LAMBDA bytes, w : bytes \o MemberBytes(w, Present(w, v[w.k])), <<>>, Writes[m])

PrefixedSize(l) == l + sov(l)

RECURSIVE Size(_, _)
ElementSize(f, x) ==
    CASE f.kind = "bool" -> 1
      [] f.kind \in {"int32", "int64"} -> sov(x % 2^Width)
      [] f.kind = "string" -> PrefixedSize(Len(x))
      [] OTHER -> PrefixedSize(Size(f.kind, x))
MemberSize(w, x) ==
    FoldSeq(LAMBDA y, n : n + w.tag + ElementSize(w.f, y), 0, Present(w, x))
Size(m, v) == FoldLeft(LAMBDA n, w : n + MemberSize(w, v[w.k]), 0, Counts[m])

(* The message is written from the end of a buffer of Size bytes; what is  *)
(* returned are the first bytes of that buffer, as many as were written.   *)
Panic == <<-1>>
Buffer(w, size) ==
    IF size < Len(w) THEN Panic
    ELSE SubSeq([k \in 1..(size - Len(w)) |-> 0] \o w, 1, Len(w))
Marshal(m, v) == Buffer(MarshalToSizedBuffer(m, v), Size(m, v))

-----------------------------------------------------------------------------
(* Decoding.                                                               *)

(* The index behind the value that follows a tag; a group has only tags.   *)
afterLength(n) == IF n.err = "none" THEN Got(0, n.i + n.v) ELSE n
afterValue(d, tag) ==
    LET wt == tag.v % 8
    IN  CASE tag.err # "none" -> tag
          [] wt = 0 -> varint(d, tag.i, 0, 0)
          [] wt = 1 -> Got(0, tag.i + 8)
          [] wt = 2 -> afterLength(lengthPrefix(d, tag.i))
          [] wt \in {3, 4} -> Got(0, tag.i)
          [] wt = 5 -> Got(0, tag.i + 4)
          [] OTHER -> Failed("wire")

Deeper(depth, tag) ==
    CASE tag.v % 8 = 3 -> depth + 1
      [] tag.v % 8 = 4 -> depth - 1
      [] OTHER -> depth

(* skipUsers: the index behind the field at i, through nested groups.      *)
RECURSIVE skip(_, _, _)
skipOn(d, end, depth) ==
    IF end.err # "none" THEN end
    ELSE IF depth < 0 THEN Failed("group")
    ELSE IF depth = 0 THEN end
    ELSE skip(d, end.i, depth)
skipField(d, tag, depth) == skipOn(d, afterValue(d, tag), Deeper(depth, tag))

(* Mutant: a group is not followed to its end.                             *)
skipTagOnly(d, i, depth) == afterValue(d, varint(d, i, 0, 0))

skip(d, i, depth) ==
    IF i > Len(d) THEN Failed("eof") ELSE skipField(d, varint(d, i, 0, 0), depth)

Read(err, v, i) == [err |-> err, v |-> v, i |-> i]

(* Assignment of one decoded element to the k-th member of the struct.     *)
Store(fields, v, k, x) ==
    CASE fields[k].label = "one" -> [v EXCEPT ![k] = x]
      [] fields[k].label = "opt" -> [v EXCEPT ![k] = <<x>>]
      [] fields[k].label = "many" -> [v EXCEPT ![k] = Append(@, x)]
      [] OTHER -> [j \in DOMAIN v |->
                     IF j = k THEN <<x>>
                     ELSE IF fields[j].label = "oneof" THEN <<>>
                     ELSE v[j]]

(* A message is decoded on top of the one a plain member or a pointer      *)
(* already holds; a time and an element of a slice are decoded afresh.     *)
Onto(f, old) ==
    CASE f.kind = "time" -> Zero(Timestamp)
      [] f.label = "one" -> old
      [] f.label = "opt" /\ old # <<>> -> old[1]
      [] OTHER -> Zero(Nested[f.kind])

RECURSIVE UnmarshalFrom(_, _, _, _)
ReadMessage(inner, i) == Read(inner.err, inner.v, i)
(* The element of field f, whose member holds old: a varint n, or n bytes. *)
Element(f, old, d, n) ==
    LET bytes == SubSeq(d, n.i, n.i - 1 + n.v)
    IN  CASE n.err # "none" -> n
          [] f.kind = "bool" -> Read("none", n.v # 0, n.i)
          [] f.kind = "int32" -> Read("none", Signed(n.v % 2^Half, Half), n.i)
          [] f.kind = "int64" -> Read("none", Signed(n.v, Width), n.i)
          [] f.kind = "string" -> Read("none", bytes, n.i + n.v)
          [] OTHER -> ReadMessage(UnmarshalFrom(Nested[f.kind], Onto(f, old), bytes, 1), n.i + n.v)
ElementAt(f, old, d, i) ==
    Element(f, old, d, IF WireType(f) = 0 THEN varint(d, i, 0, 0)
                       ELSE within(d, lengthPrefix(d, i)))

(* On to the next field, behind a known one and behind a skipped one.      *)
AfterKnown(fields, v, d, k, x) ==
    IF x.err # "none" THEN x
    ELSE UnmarshalFrom(fields, Store(fields, v, k, x.v), d, x.i)
AfterSkipped(fields, v, d, end) ==
    IF end.err # "none" THEN end
    ELSE IF end.i - 1 > Len(d) THEN Failed("eof")
    ELSE UnmarshalFrom(fields, v, d, end.i)

(* A turn of the loop of Unmarshal: the field at i, behind its tag.        *)
UnmarshalField(fields, v, d, i, tag) ==
    LET num == Signed((tag.v \div 8) % 2^Half, Half)
        k == CHOOSE j \in DOMAIN fields : fields[j].n = num
    IN  IF tag.err # "none" THEN tag
        ELSE IF tag.v % 8 = 4 THEN Failed("group")
        ELSE IF num <= 0 THEN Failed("tag")
        ELSE IF \A j \in DOMAIN fields : fields[j].n # num
        THEN AfterSkipped(fields, v, d, skip(d, i, 0))
        ELSE IF tag.v % 8 # WireType(fields[k]) THEN Failed("wire")
        ELSE AfterKnown(fields, v, d, k, ElementAt(fields[k], v[k], d, tag.i))
UnmarshalFrom(fields, v, d, i) ==
    IF i > Len(d) THEN Read("none", v, i)
    ELSE UnmarshalField(fields, v, d, i, varint(d, i, 0, 0))

Unmarshal(fields, d) == UnmarshalFrom(fields, Zero(fields), d, 1)

-----------------------------------------------------------------------------
Fields == Messages[message]

Init ==
    /\ message \in DOMAIN Messages
    /\ value = Zero(Messages[message])
    /\ sets = 0
    /\ received = <<>>

(* The values a member of kind f.kind is given: for a message the zero     *)
(* message and one with a member set.                                      *)
RECURSIVE Values(_)
Values(f) ==
    CASE f.kind = "string" -> Strings \union (IF f.label = "oneof" THEN {<<>>} ELSE {})
      [] f.kind = "bool" -> {TRUE}
      [] f.kind = "int32" -> Ints
      [] f.kind = "time" -> Times
      [] OTHER ->
           LET z == Zero(Nested[f.kind])
           IN  {z} \union {Store(Nested[f.kind], z, 1, x) : x \in Values(Nested[f.kind][1])}

Set ==
    /\ sets < MaxSet[message]
    /\ received = <<>>
    /\ \E k \in DOMAIN Fields : \E x \in Values(Fields[k]) :
          value' = Store(Fields, value, k, x)
    /\ sets' = sets + 1
    /\ UNCHANGED <<message, received>>

Receive ==
    /\ sets = 0
    /\ message \in Receivers
    /\ Len(received) < MaxReceived
    /\ \E b \in Alphabet : received' = Append(received, b)
    /\ UNCHANGED <<message, value, sets>>

Next == Set \/ Receive

Spec == Init /\ [][Next]_vars

-----------------------------------------------------------------------------
Sending == received = <<>>
Sent == Marshal(message, value)
Holds(r, v) == r.err = "none" /\ r.v = v
Decodes(fields, d, v) == Holds(Unmarshal(fields, d), v)
Resends(r) == r.err = "none" => Decodes(Fields, Marshal(message, r.v), r.v)

(* The elements of a message that the decoder has to be sent, in order,    *)
(* the bytes of the first n of them, and the struct with only those        *)
(* assigned.                                                               *)
Held(f, x) ==
    IF f.label # "one" THEN x
    ELSE IF ~IsMessage(f) /\ x = ZeroOf(f) THEN <<>>
    ELSE <<x>>
Elements(fields, v) ==
    LET Of(k) == LET p == Held(fields[k], v[k]) IN [j \in DOMAIN p |-> <<k, p[j]>>]
    IN  FlattenSeq([k \in DOMAIN fields |-> Of(k)])
Tagged(f, x) == encodeVarint(f.n * 8 + WireType(f)) \o Payload(f, x)
Written(fields, e, n) ==
    FlattenSeq([j \in 1..n |-> Tagged(fields[e[j][1]], e[j][2])])
Assigned(fields, e, n) ==
    FoldLeft(LAMBDA v, x : Store(fields, v, x[1], x[2]), Zero(fields), SubSeq(e, 1, n))

-----------------------------------------------------------------------------
(* What one service marshals the other unmarshals to the same struct: every*)
(* field keeps its value, its presence (a pointer to a zero message, a     *)
(* oneof that holds the empty string) and its order.  And whatever bytes a *)
(* service accepts, what it has understood survives being sent on: padded  *)
(* varints, repeated scalars and unknown fields are normalised for good.   *)
RoundTrip ==
    /\ Sending => Decodes(Fields, Sent, value)
    /\ Resends(Unmarshal(Fields, received))

(* The first n bytes of a message, cut between two elements or not.        *)
CutBetween(e, cuts, n, r) ==
    IF \E k \in DOMAIN cuts : cuts[k] = n
    THEN \E k \in DOMAIN cuts : cuts[k] = n /\ Holds(r, Assigned(Fields, e, k))
    ELSE r.err = "eof"
CutAnywhere(sent, e, cuts) ==
    \A n \in 0..Len(sent) - 1 :
        CutBetween(e, cuts, n, Unmarshal(Fields, SubSeq(sent, 1, n)))

(* A message cut short is refused with io.ErrUnexpectedEOF, unless it is   *)
(* cut exactly between two elements: then the elements before the cut are  *)
(* decoded and nothing else.                                               *)
TruncationRefused ==
    Sending =>
    LET e == Elements(Fields, value)
    IN  CutAnywhere(Sent, e, [k \in 0..Len(e) |-> Len(Written(Fields, e, k))])

(* sent, with the encoding u of an unknown field put in behind head.       *)
With(sent, head, u) == head \o u \o SubSeq(sent, Len(head) + 1, Len(sent))
Skips(sent, e) ==
    /\ \A k \in DOMAIN Fields : Decodes(RemoveAt(Fields, k), sent, RemoveAt(value, k))
    /\ \A n \in 0..Len(e) : \A u \in Unknown :
          Decodes(Fields, With(sent, Written(Fields, e, n), u), value)

(* A service built before a field existed, or one that receives a field it *)
(* has never heard of, in whatever wire type, reads all other fields as    *)
(* they were sent.                                                         *)
UnknownFieldsSkipped == Sending => Skips(Sent, Elements(Fields, value))

=============================================================================
