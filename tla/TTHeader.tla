------------------------------ MODULE TTHeader ------------------------------
(***************************************************************************)
(* The TTHeader transport header (volo-thrift/src/codec/default/           *)
(* ttheader.rs) on one ping-pong connection: the client sizes and encodes  *)
(* its context, the server decodes it, answers in kind, and the client     *)
(* decodes the answer.  The server's context and metainfo are reused for   *)
(* the next request, and so is the metainfo of a caller that has a scope.  *)
(* Bytes are cells [t, v, n]: a field of n bytes with the value v.  A      *)
(* string is [id, len].  A metainfo map is NoMap or a set of [key, val].   *)
(***************************************************************************)
EXTENDS Integers, Sequences, FiniteSets, SequencesExt, FiniteSetsExt

CONSTANTS
    Requests,   \* client contexts: [tt, foreign, per, tra, isn, timeout, connTimeout,
                \* from, method, to, addr]
    Replies,    \* what a handler leaves behind: [back, reset, biz]
    U16,        \* 2^16
    Exchanges,  \* bound on the exchanges
    NoMap, None \* an absent map, an absent value

VARIABLES
    count,  \* exchanges begun
    phase,  \* who acts
    req,    \* the client's context in this exchange
    rep,    \* what the handler left for this response
    size,   \* what encode_size said of the message on the wire
    frame,  \* the message on the wire: [magic, words, cells]
    dec,    \* the running decode: [src, remaining, section, left, got]
    srv,    \* the server's context and metainfo
    cli     \* the caller: scoped, whether it has a METAINFO scope around its
            \* calls, back, the backward metainfo there, and what the context of
            \* the call took from its response

vars == <<count, phase, req, rep, size, frame, dec, srv, cli>>

\* The phases: idle, between exchanges; serverDecode, handler and clientDecode in
\* one; and four that end the connection: sizeLimit, encode failed; rejected,
\* decode failed; garbled, decode read across a field; closed, the response
\* carried crrst or a plain reset.

\* ServerContext::default() and an empty MetaInfo; the context of a fresh call.
FreshServer == [tt |-> FALSE, per |-> {}, tra |-> {}, isn |-> None, timeout |-> None,
                from |-> None, to |-> None]
FreshClient(scoped) == [scoped |-> scoped, back |-> {}, reset |-> FALSE, biz |-> None]

NoFrame == [magic |-> FALSE, words |-> 0, cells |-> <<>>]
NoDecode == [src |-> <<>>, remaining |-> 0, section |-> "info", left |-> 0, got |-> {}]

Init ==
    /\ count = 0 /\ phase = "idle"
    /\ req \in Requests /\ rep \in Replies
    /\ size = 0 /\ frame = NoFrame /\ dec = NoDecode
    /\ srv = FreshServer /\ \E scoped \in BOOLEAN : cli = FreshClient(scoped)

----------------------------------------------------------------------------
(* The entries of the two sections *)

\* An entry of the string section: kind is the prefix or the fixed key.
Item(kind, key, val) == [kind |-> kind, key |-> key, val |-> val]

KeyLen(it) ==
    it.key.len + CASE it.kind \in {"persist", "transit"} -> 12
                   [] it.kind = "backward" -> 13
                   [] it.kind = "isn" -> 3
                   [] it.kind = "crrst" -> 5
                   [] it.kind = "biz-status" -> 10
                   [] it.kind = "biz-message" -> 11
                   [] it.kind = "biz-extra" -> 9

NoKey == [id |-> "", len |-> 0]
Entries(kind, m) == IF m = NoMap THEN {} ELSE {Item(kind, e.key, e.val) : e \in m}
Opt(kind, v) == IF v = None THEN {} ELSE {Item(kind, NoKey, v)}

ClientItems(c) == Entries("persist", c.per) \cup Entries("transit", c.tra) \cup Opt("isn", c.isn)

BizItems(b) ==
    IF b = None THEN {}
    ELSE {Item("biz-status", NoKey, b.status), Item("biz-message", NoKey, b.message)}
           \cup Opt("biz-extra", b.extra)

ServerItems(s) ==
    Entries("backward", s.back)
      \cup (IF s.reset THEN {Item("crrst", NoKey, [id |-> "1", len |-> 1])} ELSE {})
      \cup BizItems(s.biz)

\* The integer section: the key's number and the value.
ClientInts(c) ==
    {<<"WithHeader", [id |-> "3", len |-> 1]>>, <<"FromService", c.from>>,
     <<"ToMethod", c.method>>, <<"ToService", c.to>>}
      \cup {<<"RPCTimeout", t>> : t \in {c.timeout} \ {None}}
      \cup {<<"ConnTimeout", t>> : t \in {c.connTimeout} \ {None}}
      \cup {<<"DestAddress", a>> : a \in {c.addr} \ {None}}
ServerInts == {<<"MsgType", [id |-> "msgType", len |-> 1]>>}

----------------------------------------------------------------------------
(* encode and encode_size *)

StringBytes(items) == 3 + MapThenSumSet(LAMBDA it : 4 + KeyLen(it) + it.val.len, items)
IntBytes(ints) == 3 + MapThenSumSet(LAMBDA e : 4 + e[2].len, ints)

\* A plausible slip: no padding.
PadNone(n) == 0

\* The padding after n bytes of variable header.
Pad(n) == (4 - (n % 4)) % 4

\* The bytes of a header with or without a string section.
HeaderBytes(has, items, ints) ==
    LET n == 2 + (IF has THEN StringBytes(items) ELSE 0) + IntBytes(ints)
    IN  14 + n + Pad(n)

\* has_string_kv of encode, and of encode_size.
ClientHasKv(c) == c.per # NoMap \/ c.tra # NoMap \/ c.isn # None
ServerHasKv(s) == s.back # NoMap \/ s.reset \/ s.biz # None
ServerSizeHasKvOnlyBack(s) == s.back # NoMap \* a plausible slip
ServerSizeHasKv(s) == s.back # NoMap \/ s.reset

Cell(t, v, n) == [t |-> t, v |-> v, n |-> n]
Byte(v) == Cell("u8", v, 1)
Short(v) == Cell("u16", v, 2)

StringCells(items) ==
    <<Byte("kv"), Short(Cardinality(items))>>
      \o FlattenSeq([i \in 1 .. Cardinality(items) |->
           LET it == SetToSeq(items)[i]
           IN  <<Short(KeyLen(it) % U16), Cell("key", it, KeyLen(it)),
                 Short(it.val.len % U16), Cell("val", it, it.val.len)>>])

IntCells(ints) ==
    <<Byte("int"), Short(Cardinality(ints))>>
      \o FlattenSeq([i \in 1 .. Cardinality(ints) |->
           LET e == SetToSeq(ints)[i]
           IN  <<Short(e[1]), Short(e[2].len % U16), Cell("int", e, e[2].len)>>])

Payload == <<Cell("payload", "payload", 1)>>

BytesOf(cells) == FoldLeft(LAMBDA acc, c : acc + c.n, 0, cells)

\* What encode puts into the buffer; other is a section of another client's.
Encoded(has, items, ints, other) ==
    LET body == <<Byte("protocol"), Byte("transforms")>> \o (IF has THEN StringCells(items) ELSE <<>>)
                  \o IntCells(ints) \o other
        pad  == [i \in 1 .. Pad(BytesOf(body)) |-> Byte("pad")]
    IN  [magic |-> TRUE, words |-> BytesOf(body \o pad) \div 4, cells |-> body \o pad \o Payload]

Plain == [magic |-> FALSE, words |-> 0, cells |-> Payload]

\* Sections this codec reads and never writes: an ACL token, and an unknown one.
Other(c) ==
    CASE c.foreign = "acl" -> <<Byte("acl"), Short(2), Cell("token", "token", 2)>>
      [] c.foreign = "unknown" -> <<Byte("unknown")>>
      [] OTHER -> <<>>

\* The two bytes of protocol_id and transform_ids_num are read first.
StartDecode(f) ==
    [NoDecode EXCEPT !.src = SubSeq(f.cells, 3, Len(f.cells)), !.remaining = f.words * 4 - 2]

\* Put a message on the wire, or fail when the header size overflows u16.
Send(f, to) ==
    IF f.words >= U16
    THEN /\ phase' = "sizeLimit"
         /\ UNCHANGED <<frame, dec>>
    ELSE /\ phase' = to
         /\ frame' = f
         /\ dec' = IF f.magic THEN StartDecode(f) ELSE [NoDecode EXCEPT !.src = f.cells]

\* The client sends its next request.  Its context is a new one; its metainfo is
\* the caller's where there is one, and else made for this call.
Call ==
    /\ phase = "idle" /\ count < Exchanges
    /\ count' = count + 1
    /\ \E c \in Requests :
         /\ req' = c
         /\ size' = IF c.tt THEN HeaderBytes(ClientHasKv(c), ClientItems(c), ClientInts(c)) ELSE 0
         /\ Send(IF c.tt THEN Encoded(ClientHasKv(c), ClientItems(c), ClientInts(c), Other(c)) ELSE Plain,
                 "serverDecode")
    /\ cli' = [FreshClient(cli.scoped) EXCEPT !.back = IF cli.scoped THEN cli.back ELSE {}]
    /\ UNCHANGED <<rep, srv>>

----------------------------------------------------------------------------
(* decode, one section or entry at a time *)

Decoding == phase \in {"serverDecode", "clientDecode"} /\ frame.magic

\* Consume k cells; a count that would become negative is a broken read.
Consume(k, d) ==
    LET n == BytesOf(SubSeq(dec.src, 1, k))
    IN  IF n > dec.remaining
        THEN phase' = "garbled" /\ dec' = NoDecode
        ELSE /\ phase' = phase
             /\ dec' = [d EXCEPT !.src = SubSeq(dec.src, k + 1, Len(dec.src)),
                                 !.remaining = dec.remaining - n]

Garble == phase' = "garbled" /\ dec' = NoDecode

InfoId == Head(dec.src).v
AtInfo == Decoding /\ dec.left = 0 /\ dec.remaining > 0

DecodePadding ==
    /\ AtInfo /\ InfoId = "pad"
    /\ Consume(1, dec)
    /\ UNCHANGED <<count, req, rep, size, frame, srv, cli>>

\* INFO_KEY_VALUE, INFO_INT_KEY_VALUE: the number of entries follows.
DecodeSection ==
    /\ AtInfo /\ InfoId \in {"kv", "int"}
    /\ Consume(2, [dec EXCEPT !.section = InfoId, !.left = dec.src[2].v])
    /\ UNCHANGED <<count, req, rep, size, frame, srv, cli>>

DecodeAcl ==
    /\ AtInfo /\ InfoId = "acl"
    /\ Consume(3, dec)
    /\ UNCHANGED <<count, req, rep, size, frame, srv, cli>>

\* Any other id is an error of the whole message.
DecodeUnknown ==
    /\ AtInfo /\ InfoId \notin {"pad", "kv", "int", "acl"}
    /\ phase' = "rejected" /\ dec' = NoDecode
    /\ UNCHANGED <<count, req, rep, size, frame, srv, cli>>

\* split_to takes as many bytes as the length field says: where that is not the
\* field's length, everything after it is misread.
DecodeString ==
    /\ Decoding /\ dec.section = "kv" /\ dec.left > 0
    /\ IF dec.src[1].v = dec.src[2].n /\ dec.src[3].v = dec.src[4].n
       THEN Consume(4, [dec EXCEPT !.left = @ - 1, !.got = @ \cup {dec.src[2].v}])
       ELSE Garble
    /\ UNCHANGED <<count, req, rep, size, frame, srv, cli>>

DecodeInt ==
    /\ Decoding /\ dec.section = "int" /\ dec.left > 0
    /\ IF dec.src[2].v = dec.src[3].n
       THEN Consume(3, [dec EXCEPT !.left = @ - 1,
                                   !.got = @ \cup {Item(dec.src[1].v, NoKey, dec.src[3].v[2])}])
       ELSE Garble
    /\ UNCHANGED <<count, req, rep, size, frame, srv, cli>>

\* The value of a header, or d without it.
Header(kind, d) ==
    LET its == {it \in dec.got : it.kind = kind}
    IN  IF its = {} THEN d ELSE (CHOOSE it \in its : TRUE).val
Map(kind) == {[key |-> it.key, val |-> it.val] : it \in {i \in dec.got : i.kind = kind}}

\* A map after the entries of new were set in it one by one.
Extend(m, new) == {e \in m : \A f \in new : f.key # e.key} \cup new

Decoded == Decoding /\ dec.left = 0 /\ dec.remaining = 0

\* Role::Server: only what is in the headers is set.
ServerTakes ==
    /\ Decoded /\ phase = "serverDecode"
    /\ srv' = [tt |-> TRUE, per |-> Extend(srv.per, Map("persist")),
               tra |-> Extend(srv.tra, Map("transit")), isn |-> Header("isn", srv.isn),
               timeout |-> Header("RPCTimeout", srv.timeout), from |-> Header("FromService", srv.from),
               to |-> Header("ToService", srv.to)]
    /\ phase' = "handler"
    /\ UNCHANGED <<count, req, rep, size, frame, dec, cli>>

\* The inner decoder alone: no header was detected.
ServerTakesPlain ==
    /\ phase = "serverDecode" /\ ~frame.magic
    /\ phase' = "handler"
    /\ UNCHANGED <<count, req, rep, size, frame, dec, srv, cli>>

\* A plausible slip: a status of 0 is taken for an error.
BizErrorAlways ==
    IF Header("biz-status", None) = None THEN None
    ELSE [status |-> Header("biz-status", None), message |-> Header("biz-message", NoKey),
          extra |-> Header("biz-extra", None)]

\* set_biz_error_header.
BizError ==
    IF Header("biz-status", None) = None THEN None
    ELSE IF Header("biz-status", None).id = "0" THEN None
    ELSE [status |-> Header("biz-status", None), message |-> Header("biz-message", NoKey),
          extra |-> Header("biz-extra", None)]

\* Role::Client, and the end of the exchange; crrst ends the connection.  Backward
\* metainfo is added to what the metainfo holds.
ClientTakes ==
    /\ Decoded /\ phase = "clientDecode"
    /\ cli' = [cli EXCEPT !.back = Extend(@, Map("backward")),
                          !.reset = Header("crrst", None) # None, !.biz = BizError]
    /\ phase' = IF rep.reset THEN "closed" ELSE "idle"
    /\ UNCHANGED <<count, req, rep, size, frame, dec, srv>>

ClientTakesPlain ==
    /\ phase = "clientDecode" /\ ~frame.magic
    /\ phase' = IF rep.reset THEN "closed" ELSE "idle"
    /\ UNCHANGED <<count, req, rep, size, frame, dec, srv, cli>>

----------------------------------------------------------------------------
(* The server's answer *)

\* What encode_size says of an answer, and what encode writes.
AnswerSize(s) ==
    HeaderBytes(ServerSizeHasKv(s), ServerItems(s), ServerInts)
AnswerFrame(s) == Encoded(ServerHasKv(s), ServerItems(s), ServerInts, <<>>)

\* Size and encode the answer of one handler, with a header where the request had one.
Answer(s) ==
    /\ rep' = s
    /\ size' = IF srv.tt THEN AnswerSize(s) ELSE 0
    /\ Send(IF srv.tt THEN AnswerFrame(s) ELSE Plain, "clientDecode")
    /\ UNCHANGED <<count, req, cli>>

\* A plausible slip: only the metainfo is cleared for the next request.
RespondKeepsContext ==
    /\ phase = "handler"
    /\ \E s \in Replies : Answer(s)
    /\ srv' = [srv EXCEPT !.per = {}, !.tra = {}]

\* The handler ends and the answer is sent; the metainfo is cleared and the context
\* reset for the next request.
Respond ==
    /\ phase = "handler"
    /\ \E s \in Replies : Answer(s)
    /\ srv' = FreshServer

Next ==
    \/ Call \/ Respond
    \/ DecodePadding \/ DecodeSection \/ DecodeAcl \/ DecodeUnknown \/ DecodeString \/ DecodeInt
    \/ ServerTakes \/ ServerTakesPlain \/ ClientTakes \/ ClientTakesPlain

Spec == Init /\ [][Next]_vars

----------------------------------------------------------------------------
(* Properties *)

Contents(m) == IF m = NoMap THEN {} ELSE m

\* When the handler runs, the server's context holds what this request carried and
\* nothing of an earlier one, and the next bytes are those of the payload.
ServerSeesRequest ==
    phase = "handler" =>
        /\ dec.src = Payload
        /\ srv = IF ~req.tt THEN FreshServer
                 ELSE [tt |-> TRUE, per |-> Contents(req.per), tra |-> Contents(req.tra),
                       isn |-> req.isn, timeout |-> req.timeout, from |-> req.from, to |-> req.to]

\* After an exchange the caller's context has the announced reset and the business
\* error of its own response (a status of 0 is none), and its metainfo has every
\* backward entry of that response under a key of its own.  A caller without a
\* scope gets nothing else; in a scope, the entries of earlier responses stay
\* under the keys that this one does not set.
ClientSeesReply ==
    (phase \in {"idle", "closed"} /\ count > 0) =>
        LET back == IF req.tt THEN Contents(rep.back) ELSE {}
        IN  /\ cli.reset = (req.tt /\ rep.reset)
            /\ cli.biz = IF ~req.tt \/ rep.biz = None THEN None
                         ELSE IF rep.biz.status.id = "0" THEN None ELSE rep.biz
            /\ IF cli.scoped THEN back \subseteq cli.back ELSE back = cli.back
            /\ \A e, f \in cli.back : e.key = f.key => e = f

\* The strings both sides put into headers.
Strings ==
    {it.val : it \in ClientItems(req) \cup ServerItems(rep)} \cup {e[2] : e \in ClientInts(req)}
      \cup {[id |-> it.key.id, len |-> KeyLen(it)] : it \in ClientItems(req) \cup ServerItems(rep)}

\* decode reads across a field only where a string's length does not fit in u16;
\* encode writes the length modulo 2^16 without an error.
GarbledOnlyByLongStrings == phase = "garbled" => \E t \in Strings : t.len >= U16

\* The length of the header on the wire.
WireBytes == 14 + BytesOf(frame.cells) - BytesOf(Payload)
OnWire == phase \in {"serverDecode", "handler", "clientDecode"} /\ frame.magic /\ req.foreign = "none"

\* encode_size "must be with sync to the encode impl": it is the number of bytes
\* encode writes.
SizeInSync == OnWire => size = WireBytes

\* Where SizeInSync holds: for every message but a response with a business error,
\* no backward metainfo and no reset.
SizeInSyncElsewhere ==
    (phase = "clientDecode" => rep.biz = None \/ rep.back # NoMap \/ rep.reset) => SizeInSync
=============================================================================
