----------------------------- MODULE MCTTHeader -----------------------------
(* Instances of TTHeader for TLC: contexts with every optional part present *)
(* and absent, strings of lengths around the padding, at the limit of u16   *)
(* and beyond what a header can hold.                                       *)
EXTENDS TTHeader

Str(i, n) == [id |-> i, len |-> n]
KV(k, v) == [key |-> k, val |-> v]

Bare == [tt |-> TRUE, foreign |-> "none", per |-> NoMap, tra |-> NoMap, isn |-> None,
         timeout |-> None, connTimeout |-> None, from |-> Str("a", 1), method |-> Str("m", 2),
         to |-> Str("b", 3), addr |-> None]

ManyRequests ==
    { Bare,
      [Bare EXCEPT !.tt = FALSE],
      [Bare EXCEPT !.foreign = "acl"],
      [Bare EXCEPT !.foreign = "unknown"],
      [Bare EXCEPT !.per = {}, !.timeout = Str("1000", 4)],
      [Bare EXCEPT !.per = {KV(Str("k", 1), Str("x", 1)), KV(Str("l", 2), Str("", 0))},
                   !.tra = {KV(Str("k", 1), Str("y", 2))}],
      [Bare EXCEPT !.isn = Str("svc", 3), !.connTimeout = Str("50", 2), !.addr = Str("peer", 14)],
      [Bare EXCEPT !.tra = {KV(Str("k", 1), Str("full", 65535))}],
      [Bare EXCEPT !.tra = {KV(Str("k", 1), Str("long", 65536))}],
      [Bare EXCEPT !.per = {KV(Str("k", 1), Str("huge", 300000))}] }

Quiet == [back |-> NoMap, reset |-> FALSE, biz |-> None]
Biz(s, x) == [status |-> s, message |-> Str("oops", 4), extra |-> x]

ManyReplies ==
    { Quiet,
      [Quiet EXCEPT !.reset = TRUE],
      [Quiet EXCEPT !.back = {KV(Str("b", 1), Str("z", 3))}],
      [Quiet EXCEPT !.back = {KV(Str("b", 1), Str("y", 2)), KV(Str("d", 1), Str("y", 2))}],
      [Quiet EXCEPT !.biz = Biz(Str("42", 2), None)],
      [Quiet EXCEPT !.biz = Biz(Str("0", 1), None), !.back = {}],
      [Quiet EXCEPT !.biz = Biz(Str("-7", 2), Str("{}", 2)), !.reset = TRUE],
      [Quiet EXCEPT !.back = {KV(Str("b", 1), Str("long", 70000))}] }
=============================================================================
