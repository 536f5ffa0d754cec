------------------------------- MODULE MCPayers -------------------------------
\* Payers against a server with one honest price, in the form of both codecs,
\* and challenges that stray from it in one way each.
EXTENDS Payers

Params(S) == [p \in Required \cup S |-> "quoted"]
Good == [scheme |-> "Payment", first |-> "id", params |-> Params({"expires"}), cashu |-> TRUE,
         until |-> "later", wraps |-> {"charge01", "pop"}, amount |-> 2, currency |-> "pop1",
         creqa |-> [amount |-> 2, unit |-> "pop1", mints |-> {"mint"}]]
Priced(n) == [Good EXCEPT !.amount = n, !.creqa.amount = n]
Strays ==
  {[Good EXCEPT !.scheme = s] : s \in {"none", "other"}}
  \cup {[Good EXCEPT !.scheme = "other", !.first = p, !.params = Params({p, "expires"})] :
         p \in {"expires", "opaque", "unknown"}}
  \cup {[Good EXCEPT !.until = u] : u \in {"past", "unparsed"}}
  \cup {[Good EXCEPT !.wraps = {w}] : w \in {"charge01", "pop"}}
  \cup {[Good EXCEPT !.params = Params(S)] : S \in {{}, {"description"}, {"digest", "opaque"}}}
  \cup {[Good EXCEPT !.params["id"] = f] : f \in {"bare", "empty", "escaped"}}
  \cup {[Good EXCEPT !.params["expires"] = "escaped"],
        [Good EXCEPT !.params["request"] = "escaped"]}
  \cup {[Good EXCEPT !.params["expires"] = "bare"], [Good EXCEPT !.params["request"] = "padded"],
        [Good EXCEPT !.params["expires"] = "empty", !.until = "unparsed"]}
  \cup {[Good EXCEPT !.params = [p \in {"id", "realm", "unknown"} |-> "quoted"]],
        [Good EXCEPT !.cashu = FALSE], [Good EXCEPT !.amount = 1],
        [Good EXCEPT !.currency = "pop2"], [Good EXCEPT !.creqa.unit = "pop2"],
        [Good EXCEPT !.creqa.mints = {}], [Good EXCEPT !.creqa.mints = {"elsewhere"}],
        [Good EXCEPT !.creqa.amount = 0], [Good EXCEPT !.creqa.unit = NoUnit]}
MCOffers == {Good, Priced(1), Priced(3), Priced(9)} \cup Strays
==============================================================================
