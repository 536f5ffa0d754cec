------------------------------ MODULE Challenge ------------------------------
(***************************************************************************)
(* The 402 challenge as the two payers of this repository read it and echo *)
(* it: charge01.ts, the codec of the game's gates, and envelope.ts of      *)
(* fetch-with-pop.                                                         *)
(*                                                                         *)
(* A challenge is a WWW-Authenticate header.  Which text a parameter holds *)
(* does not matter, so a value stands for the challenge that gave it, and  *)
(* for whether a codec read all of it.  How it is written matters: the     *)
(* codecs differ in what they put up with, and in where a value ends.      *)
(* No header names a parameter twice, or one with a dash in its name, of   *)
(* which envelope.ts would read the end.                                   *)
(***************************************************************************)
EXTENDS Integers

CONSTANT NoUnit   \* a payment request that names no unit

Required == {"id", "realm", "method", "intent", "request"}
Known == Required \cup {"expires", "digest", "opaque", "description"}
\* In double quotes; without them, or with a comma inside; in quotes with
\* nothing inside, with an escaped quote inside, or around padded base64.
Writings == {"quoted", "bare", "empty", "escaped", "padded"}

\* A payment request that was decoded: PopRequest, CreqaFacts.
Creqa(Units, Mints) == [amount : Nat, unit : Units \cup {NoUnit}, mints : SUBSET Mints]

\* scheme is Payment, left out, or another; first is the parameter next to it;
\* cashu says whether method and intent are cashu and charge; until is what
\* expires says, against the clock; wraps tells in whose fields the request
\* object holds the payment request, and amount and currency are what it says
\* beside it.
IsChallenge(c, Units, Mints) ==
  /\ c.scheme \in {"Payment", "none", "other"}
  /\ DOMAIN c.params \subseteq Known \cup {"unknown"}
  /\ \A p \in DOMAIN c.params : c.params[p] \in Writings
  /\ c.first \in DOMAIN c.params
  /\ c.cashu \in BOOLEAN /\ c.until \in {"later", "past", "unparsed"}
  /\ "expires" \in DOMAIN c.params /\ c.params["expires"] = "empty" => c.until = "unparsed"
  /\ c.wraps \subseteq {"charge01", "pop"}
  /\ c.amount \in Nat /\ c.currency \in Units /\ c.creqa \in Creqa(Units, Mints)

Issued(c) == DOMAIN c.params \cap Known

\* What a parameter of c is read as: its text, or that text up to a quote in it.
Value(c, cut) == [of |-> c, cut |-> cut]
Values(C) == [of : C, cut : BOOLEAN]

\* jcsSerialize, jcs: the text of an object tells its members, in one order.
Jcs(object) == {<<k, object[k]>> : k \in DOMAIN object}

\* decodeRequest: a payment request names an amount and a unit.
Decodes(creqa) == creqa.amount > 0 /\ creqa.unit # NoUnit

------------------------------------------------------------------------------
(* charge01.ts *)

\* parsePaymentChallenge: the scheme may be missing, and another one is taken
\* for a part of the first parameter's name, which then is not known.
Read(c) == IF c.scheme = "other" THEN Issued(c) \ {c.first} ELSE Issued(c)

\* A known value must be in quotes that match, an unknown one may be anything.
Parses(c) ==
  /\ \A p \in Read(c) : c.params[p] \notin {"bare", "escaped"}
  /\ Required \subseteq Read(c)

\* b64urlDecode: no padding, and empty text is no object.
Base64(c) == c.params["request"] \notin {"padded", "empty"}

\* decodeRequestObject
HasRequest(c) == Base64(c) /\ "charge01" \in c.wraps

\* assertPayable
Payable(c) ==
  /\ "expires" \in Read(c) => c.until = "later"
  /\ Decodes(c.creqa) /\ c.creqa.mints # {}
  /\ c.amount = c.creqa.amount
  /\ c.currency = c.creqa.unit

\* Mutant: only the parameters that the game's own gates use.
BuildCredentialPlain(c) ==
  Jcs([p \in Read(c) \ {"digest", "opaque", "description"} |-> Value(c, FALSE)])

\* buildCredential: every parameter that was read, and as it was read.
BuildCredential(c) == Jcs([p \in Read(c) |-> Value(c, FALSE)])

------------------------------------------------------------------------------
(* envelope.ts *)

\* detect: anything that is not a cashu charge is somebody else's.  Values may
\* be written in any way.
Detects(c) ==
  /\ c.scheme = "Payment" /\ c.cashu
  /\ \A p \in Required : p \in DOMAIN c.params /\ c.params[p] # "empty"

\* requestFrom: what is left of a request that was cut does not decode.
HasCashuRequest(c) == c.params["request"] # "escaped" /\ "pop" \in c.wraps

\* PopChallenge, which detect fills: expires if it says something, and no
\* other option.
Carried(c) == {p \in Issued(c) \cap (Required \cup {"expires"}) : c.params[p] # "empty"}

\* buildPaymentCredential: parsePaymentParams ended each value at the first
\* quote in it.
BuildPaymentCredential(c) == Jcs([p \in Carried(c) |-> Value(c, c.params[p] = "escaped")])

------------------------------------------------------------------------------
\* The verifier recomputes the seal of a challenge over the echo: it has to
\* hold all that was issued, and all of it.
Verifies(echo, c) == echo = Jcs([p \in Issued(c) |-> Value(c, FALSE)])
==============================================================================
