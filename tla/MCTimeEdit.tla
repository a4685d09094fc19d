----------------------------- MODULE MCTimeEdit -----------------------------
(* Every statement of a small set, alone or with one more, and some threes.    *)
EXTENDS TimeEdit

S(k, kind, n) == [of |-> k, kind |-> kind, n |-> n]
Statements ==
  {S("start", "at", 2), S("end", "at", 5), S("length", "at", 2), S("end", "at", 1)}
  \cup {S("start", "by", 1), S("end", "by", 1), S("length", "by", 1), S("end", "by", -2), S("start", "by", -2)}
  \cup {S(k, kind, 1) : k \in Fields, kind \in {"not", "ask"}}
  \cup {S(k, kind, 0) : k \in Fields, kind \in {"keep", "cancel"}}
  \cup {S(None, "clock", 3), S(None, "pause", 0)}

MCMessages == {m \in
  {{a, b} : a, b \in Statements}
  \cup {{S("start", "by", 1), S("length", "at", 2), s} : s \in Statements}
  \cup {{S("end", "by", 1), S("end", "ask", 1), s} : s \in Statements} : OneShift(m)}

Times == times  \* the history apart

P(n, from) == [n |-> n, from |-> from]
R(act, k, n) == [act |-> act, of |-> k, n |-> n]
MCGuesses ==
  [start: {None, P(3, "clock"), P(4, "made up")},
   end: {None, P(4, "blank"), P(6, "made up"), P(5, "amount"), P(5, "refused")},
   relation: {None, R("set", "length", 1), R("add", "start", 1), R("sub", "end", 1)}]
=============================================================================
