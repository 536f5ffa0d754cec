----------------------------- MODULE PaymentProofs -----------------------------
(***************************************************************************)
(* Theorems about the two sides of a payment in the browser: ClientWallet, *)
(* the wallet and stash that tabs share, for any tabs, proofs and tokens,  *)
(* and Payers, the loops that answer a 402, for any challenges, wallet and *)
(* budget.                                                                 *)
(*                                                                         *)
(* Nothing is lost because whatever a tab has in hand and is not stored is *)
(* spent at the mint or on its way into a token.  IInv says where the      *)
(* proofs of a payment are at every stage of it.  Worth is a recursive     *)
(* function of a set: it is shown to exist for the finite sets at hand,    *)
(* and then to add up over a union.                                        *)
(*                                                                         *)
(* How often a token is presented is bounded by the flags of the retries,  *)
(* and an echo is right because of what was read of the challenge when it  *)
(* came in.  PayersIInv says both of every stage of a call.                 *)
(***************************************************************************)
EXTENDS ClientWallet, Payers, FiniteSetTheorems, TLAPS

------------------------------------------------------------------------------
(* What a set of proofs is worth. *)

First(S) == CHOOSE x \in S : TRUE

\* f adds up the sets in D.
AddsUp(f, D) ==
  \A s \in D : f[s] = IF s = {} THEN 0 ELSE First(s).amount + f[s \ {First(s)}]

\* A finite set can be added up, by its subsets of growing size.
LEMMA SumExists ==
  ASSUME NEW S, IsFiniteSet(S)
  PROVE  \E f : f = [s \in SUBSET S |-> f[s]] /\ AddsUp(f, SUBSET S)
<1> DEFINE Upto(n) == {s \in SUBSET S : Cardinality(s) <= n}
           Fails == {n \in Nat : ~ \E f : AddsUp(f, Upto(n))}
<1>1. \A s \in SUBSET S : IsFiniteSet(s) /\ Cardinality(s) \in Nat /\ Cardinality(s) <= Cardinality(S)
  BY FS_Subset, FS_CardinalityType
<1>2. Fails = {}
  <2> SUFFICES ASSUME Fails # {} PROVE FALSE
    OBVIOUS
  <2>1. PICK n \in Fails : \A m \in Fails : ~(m < n)
    <3>1. Fails \in SUBSET Nat
      OBVIOUS
    <3> HIDE DEF Fails
    <3>2. PICK n \in Fails : \A m \in Fails : <<m, n>> \notin OpToRel(<, Nat)
      BY <3>1, NatLessThanWellFounded, WFMin
    <3> QED BY <3>1, <3>2 DEF OpToRel
  <2>2. n \in Nat /\ ~ \E f : AddsUp(f, Upto(n))
    OBVIOUS
  <2>3. CASE n = 0
    <3> DEFINE f == [s \in SUBSET S |-> 0]
    <3>1. \A s \in Upto(n) : s = {}
      BY <1>1, <2>3, FS_EmptySet
    <3>2. \A s \in Upto(n) : f[s] = 0
      OBVIOUS
    <3> HIDE DEF f, Upto
    <3>3. AddsUp(f, Upto(n))
      BY <3>1, <3>2 DEF AddsUp
    <3> QED BY <2>2, <3>3
  <2>4. CASE n # 0
    <3>1. n - 1 \in Nat /\ n - 1 < n
      BY <2>2, <2>4
    <3>2. PICK f : AddsUp(f, Upto(n - 1))
      <4> HIDE DEF Upto
      <4> QED BY <2>1, <3>1
    <3> DEFINE g == [s \in SUBSET S |->
                       IF s = {} THEN 0 ELSE First(s).amount + f[s \ {First(s)}]]
    <3>3. ASSUME NEW s \in Upto(n), s # {}
          PROVE  s \ {First(s)} \in Upto(n - 1) /\ s \ {First(s)} \in SUBSET S
      <4>1. First(s) \in s
        BY <3>3 DEF First
      <4>2. Cardinality(s \ {First(s)}) = Cardinality(s) - 1
        BY <1>1, <4>1, FS_RemoveElement
      <4>3. Cardinality(s) \in Nat /\ Cardinality(s) <= n
        BY <1>1
      <4> QED BY <2>2, <4>2, <4>3
    <3>4. \A s \in Upto(n - 1) : f[s] = g[s]
      BY <3>2 DEF AddsUp
    <3>5. \A s \in Upto(n) :
            g[s] = IF s = {} THEN 0 ELSE First(s).amount + f[s \ {First(s)}]
      OBVIOUS
    <3> HIDE DEF g, Upto
    <3>6. AddsUp(g, Upto(n))
      BY <3>3, <3>4, <3>5 DEF AddsUp
    <3> QED BY <2>2, <3>6
  <2> QED BY <2>3, <2>4
<1>3. PICK f : AddsUp(f, Upto(Cardinality(S)))
  <2>1. Cardinality(S) \in Nat
    BY FS_CardinalityType
  <2> HIDE DEF Upto
  <2> QED BY <1>2, <2>1
<1>4. AddsUp(f, SUBSET S)
  BY <1>1, <1>3 DEF AddsUp
<1> DEFINE g == [s \in SUBSET S |-> f[s]]
<1>5. \A s \in SUBSET S : s \ {First(s)} \in SUBSET S
  OBVIOUS
<1>6. AddsUp(g, SUBSET S)
  BY <1>4, <1>5 DEF AddsUp
<1>7. g = [s \in SUBSET S |-> g[s]]
  OBVIOUS
<1> QED BY <1>6, <1>7

\* Worth is such a sum.
LEMMA WorthAddsUp ==
  ASSUME NEW S, IsFiniteSet(S)
  PROVE  \E f : AddsUp(f, SUBSET S) /\ Worth(S) = f[S]
<1> DEFINE Body(f) == [s \in SUBSET S |->
             IF s = {} THEN 0
             ELSE LET x == CHOOSE x \in s : TRUE IN x.amount + f[s \ {x}]]
           it == CHOOSE f : f = Body(f)
<1>1. PICK f : f = [s \in SUBSET S |-> f[s]] /\ AddsUp(f, SUBSET S)
  BY SumExists
<1>2. f = Body(f)
  BY <1>1 DEF AddsUp, First
<1>3. it = Body(it)
  <2> HIDE DEF Body
  <2> QED BY <1>2
<1>4. Worth(S) = it[S]
  BY DEF Worth, MapThenSumSet, MapThenFoldSet
<1>5. \A s \in SUBSET S : it[s] = Body(it)[s]
  <2> HIDE DEF Body, it
  <2> QED BY <1>3
<1>6. AddsUp(it, SUBSET S)
  <2> HIDE DEF it
  <2> QED BY <1>5 DEF AddsUp, First
<1> QED BY <1>4, <1>6

\* Finitely many proofs are worth a natural number.
LEMMA WorthIsNat ==
  ASSUME NEW S \in SUBSET Proof, IsFiniteSet(S)
  PROVE  Worth(S) \in Nat
<1>1. PICK f : AddsUp(f, SUBSET S) /\ Worth(S) = f[S]
  BY WorthAddsUp
<1> DEFINE Fails == {s \in SUBSET S : f[s] \notin Nat}
<1>2. Fails = {}
  <2> SUFFICES ASSUME Fails # {} PROVE FALSE
    OBVIOUS
  <2>1. Fails \in SUBSET FiniteSubsetsOf(S)
    BY FS_Subset DEF FiniteSubsetsOf
  <2>2. PICK s \in Fails : \A r \in Fails : <<r, s>> \notin StrictSubsetOrdering(S)
    <3> HIDE DEF Fails
    <3> QED BY <2>1, FS_StrictSubsetOrderingWellFounded, WFMin
  <2>3. s \in SUBSET S /\ f[s] \notin Nat
    OBVIOUS
  <2>4. s # {}
    BY <1>1, <2>3 DEF AddsUp
  <2> DEFINE r == s \ {First(s)}
  <2>5. First(s) \in s /\ r \in SUBSET S /\ r # s
    BY <2>4 DEF First
  <2>6. <<r, s>> \in StrictSubsetOrdering(S)
    BY <2>3, <2>5 DEF StrictSubsetOrdering
  <2>7. f[r] \in Nat
    <3>1. r \notin Fails
      <4> HIDE DEF Fails, r
      <4> QED BY <2>2, <2>6
    <3> HIDE DEF r
    <3> QED BY <2>5, <3>1
  <2>8. f[s] = First(s).amount + f[r]
    BY <1>1, <2>3, <2>4 DEF AddsUp
  <2>9. First(s).amount \in Nat
    BY <2>3, <2>5 DEF Proof
  <2> HIDE DEF r
  <2> QED BY <2>3, <2>7, <2>8, <2>9
<1> QED BY <1>1, <1>2

\* One proof is worth its amount.
LEMMA WorthOfOne ==
  ASSUME NEW p, p.amount \in Nat
  PROVE  Worth({p}) = p.amount
<1>1. PICK f : AddsUp(f, SUBSET {p}) /\ Worth({p}) = f[{p}]
  BY FS_Singleton, WorthAddsUp
<1>2. First({p}) = p
  BY DEF First
<1>3. f[{p}] = First({p}).amount + f[{p} \ {First({p})}] /\ f[{}] = 0
  BY <1>1 DEF AddsUp
<1>4. {p} \ {First({p})} = {}
  BY <1>2
<1>5. f[{p}] = p.amount + 0
  BY <1>2, <1>3, <1>4
<1> QED BY <1>1, <1>5

------------------------------------------------------------------------------
(* Sets of proofs. *)

\* Finitely many proofs with secrets made so far.
Purse(n) == {S \in SUBSET Proof : IsFiniteSet(S) /\ Secrets(S) \subseteq 1 .. n - 1}

\* Purses can be united, taken from and kept while secrets are made.
LEMMA PurseKeeps ==
  ASSUME NEW n \in Nat, NEW S \in Purse(n), NEW T \in Purse(n)
  PROVE  /\ S \cup T \in Purse(n)
         /\ \A X \in SUBSET S : X \in Purse(n)
         /\ S \in Purse(n + 2)
         /\ {} \in Purse(n)
<1>1. /\ S \in SUBSET Proof /\ IsFiniteSet(S) /\ Secrets(S) \subseteq 1 .. n - 1
      /\ T \in SUBSET Proof /\ IsFiniteSet(T) /\ Secrets(T) \subseteq 1 .. n - 1
  BY DEF Purse
<1>2. S \cup T \in Purse(n)
  <2>1. IsFiniteSet(S \cup T)
    BY <1>1, FS_Union
  <2> QED BY <1>1, <2>1 DEF Purse, Secrets
<1>3. ASSUME NEW X \in SUBSET S PROVE X \in Purse(n)
  <2>1. IsFiniteSet(X)
    BY <1>1, FS_Subset
  <2> QED BY <1>1, <2>1 DEF Purse, Secrets
<1>4. 1 .. n - 1 \subseteq 1 .. (n + 2) - 1
  OBVIOUS
<1>5. S \in Purse(n + 2)
  BY <1>1, <1>4 DEF Purse
<1> QED BY <1>2, <1>3, <1>5

\* normalizePopProofIds keeps every secret.
LEMMA ExpandKeeps ==
  ASSUME NEW n \in Nat, NEW S \in Purse(n), NEW no \in 0 .. MaxPays
  PROVE  Expand(S, no) \in Purse(n) /\ Secrets(Expand(S, no)) = Secrets(S)
<1> DEFINE f == [p \in S |-> IF p.id = "full" THEN p ELSE [p EXCEPT !.id = "full", !.copy = no]]
           full == Expand(S, no)
<1>1. S \in SUBSET Proof /\ IsFiniteSet(S) /\ Secrets(S) \subseteq 1 .. n - 1
  BY DEF Purse
<1>2. \A p \in S : f[p] \in Proof /\ f[p].secret = p.secret
  BY <1>1 DEF Proof
<1>3. f \in Surjection(S, full) /\ full = {f[p] : p \in S}
  BY DEF Surjection, Expand
<1> HIDE DEF f, full
<1>4. IsFiniteSet(full)
  BY <1>1, <1>3, FS_Surjection
<1>5. Secrets(full) = Secrets(S)
  BY <1>2, <1>3 DEF Secrets
<1>6. full \in SUBSET Proof
  BY <1>2, <1>3
<1> QED BY <1>1, <1>4, <1>5, <1>6 DEF Purse, full

\* mergeProofs leaves what is there, and no secret out.
LEMMA MergeKeeps ==
  ASSUME NEW n \in Nat, NEW S \in Purse(n), NEW T \in Purse(n)
  PROVE  /\ MergeProofs(S, T) \in Purse(n) /\ S \subseteq MergeProofs(S, T)
         /\ MergeProofs(S, T) \subseteq S \cup T
         /\ Secrets(T) \subseteq Secrets(MergeProofs(S, T))
<1>1. \A k \in Keys(T) : \E p \in T : Key(p) = k
  BY DEF Keys
<1>2. OneEach(T) \subseteq T
  BY <1>1 DEF OneEach
<1>3. MergeProofs(S, T) \subseteq S \cup T /\ S \subseteq MergeProofs(S, T)
  BY <1>2 DEF MergeProofs
<1>4. S \cup T \in Purse(n)
  BY PurseKeeps
<1>5. MergeProofs(S, T) \in Purse(n)
  BY <1>3, <1>4, PurseKeeps
<1>6. ASSUME NEW p \in T PROVE p.secret \in Secrets(MergeProofs(S, T))
  <2>1. CASE Key(p) \in Keys(S)
    <3>1. PICK q \in S : Key(q) = Key(p)
      BY <2>1 DEF Keys
    <3>2. q.secret = p.secret
      BY <3>1 DEF Key
    <3> QED BY <1>3, <3>2 DEF Secrets
  <2>2. CASE Key(p) \notin Keys(S)
    <3> DEFINE q == CHOOSE q \in T : Key(q) = Key(p)
    <3>1. q \in T /\ Key(q) = Key(p)
      OBVIOUS
    <3>2. q \in OneEach(T)
      BY DEF OneEach, Keys
    <3> HIDE DEF q
    <3>3. q \in MergeProofs(S, T) /\ q.secret = p.secret
      BY <2>2, <3>1, <3>2 DEF MergeProofs, Key
    <3> QED BY <3>3 DEF Secrets
  <2> QED BY <2>1, <2>2
<1> QED BY <1>3, <1>5, <1>6 DEF Secrets

\* The same token has the same secrets.
LEMMA TokenTellsSecrets ==
  ASSUME NEW S, NEW T, Token(S) = Token(T)
  PROVE  Secrets(S) = Secrets(T)
<1>1. Keys(S) = Keys(T)
  <2>1. DOMAIN Token(S) = Keys(S) /\ DOMAIN Token(T) = Keys(T)
    BY DEF Token
  <2> QED BY <2>1
<1>2. ASSUME NEW U, NEW V, Keys(U) \subseteq Keys(V), NEW p \in U PROVE p.secret \in Secrets(V)
  <2>1. PICK q \in V : Key(q) = Key(p)
    BY <1>2 DEF Keys
  <2> QED BY <2>1 DEF Key, Secrets
<1> QED BY <1>1, <1>2 DEF Secrets

\* So can those of finitely many entries.
LEMMA PursesUnite ==
  ASSUME NEW n \in Nat, NEW E, IsFiniteSet(E), \A e \in E : e.proofs \in Purse(n)
  PROVE  UNION {e.proofs : e \in E} \in Purse(n)
<1> DEFINE f == [e \in E |-> e.proofs]
           T == {e.proofs : e \in E}
<1>1. f \in Surjection(E, T)
  BY DEF Surjection
<1>2. IsFiniteSet(T) /\ \A t \in T : IsFiniteSet(t)
  <2>1. \A t \in T : IsFiniteSet(t)
    BY DEF Purse
  <2> HIDE DEF f, T
  <2> QED BY <1>1, <2>1, FS_Surjection
<1>3. IsFiniteSet(UNION T)
  <2> HIDE DEF T
  <2> QED BY <1>2, FS_UNION
<1>4. UNION T \in SUBSET Proof /\ Secrets(UNION T) \subseteq 1 .. n - 1
  BY DEF Purse, Secrets
<1> QED BY <1>3, <1>4 DEF Purse

------------------------------------------------------------------------------
(* The inductive invariant. *)

AtMint == {"swapping", "swapped"}
Numbered == {"waiting"} \cup AtMint
InHand == {"swapped", "committed", "posted"} \cup Answers

TabRecord(n) ==
  [stage : Stages, no : 0 .. MaxPays, loaded : Purse(n), keep : Purse(n), send : Purse(n),
   entry : 1 .. MaxPays \cup {NoEntry}, tried : SUBSET {"expired", "unreachable"}]

\* Every secret anywhere has been made, and there are finitely many of them.
Made ==
  /\ fresh \in Nat \ {0} /\ FirstSecrets \subseteq 1 .. fresh - 1
  /\ inventory \in Purse(fresh) /\ screen \in Purse(fresh)
  /\ pending \subseteq [eid : 1 .. MaxPays, proofs : Purse(fresh)] /\ IsFiniteSet(pending)
  /\ tab \in [Tabs -> TabRecord(fresh)]
  /\ paste \in [Tabs -> [stage : {"none", "asked", "told"}, proofs : Purse(fresh)]]
  /\ lock \in Tabs \cup {NoTab} /\ locks \in BOOLEAN
  /\ spent \subseteq 1 .. fresh - 1
  /\ orphans \subseteq SUBSET (1 .. fresh - 1)
  /\ pays \in 0 .. MaxPays

\* Entries have names of their own, and a payment that has not committed yet
\* has a number that nobody else has and no entry is named by.
NumberedOnce ==
  /\ \A d, e \in pending : d.eid = e.eid => d = e
  /\ \A e \in pending : e.eid \in 1 .. pays
  /\ \A t \in Tabs : tab[t].entry \in 1 .. pays \cup {NoEntry}
  /\ \A t \in Tabs : tab[t].stage \in Numbered =>
       /\ tab[t].no \in 1 .. pays
       /\ \A e \in pending : e.eid # tab[t].no
       /\ \A u \in Tabs : tab[u].entry # tab[t].no
       /\ \A u \in Tabs \ {t} : tab[u].stage \in Numbered => tab[u].no # tab[t].no

\* The entry a payment will clear is that of the token it presents, and a
\* token that was honoured is spent.
OwnIsSent(t) ==
  /\ \A e \in pending : e.eid = tab[t].entry => Secrets(e.proofs) = Secrets(tab[t].send)
  /\ tab[t].stage \in Numbered => tab[t].entry = NoEntry
  /\ tab[t].stage = "ok" => Secrets(tab[t].send) \subseteq spent

\* What was loaded is kept, sent, or spent in a swap.
LoadedIsKept(t) ==
  tab[t].stage \in AtMint =>
    Secrets(tab[t].loaded) \subseteq Secrets(tab[t].keep) \cup Secrets(tab[t].send) \cup spent

\* What is sent to the mint is worth more than the price, what comes back and
\* is presented is worth the price.
PaidFor(t) ==
  /\ tab[t].stage = "swapping" => Worth(tab[t].send) \in Nat /\ Worth(tab[t].send) > Price
  /\ tab[t].stage \in InHand => Worth(tab[t].send) = Price

Sound(t) == OwnIsSent(t) /\ LoadedIsKept(t) /\ PaidFor(t)

\* The lock is held from loading to committing.
LockHeld == locks => \A t \in Tabs : tab[t].stage \in AtMint <=> lock = t

IInv ==
  /\ Made
  /\ NumberedOnce
  /\ \A t \in Tabs : Sound(t)
  /\ LockHeld
  /\ LoadedStays

\* The strengthening has the type invariant in it.
LEMMA IInvGivesTypes == IInv => TypeOK
<1> SUFFICES ASSUME IInv PROVE TypeOK
  OBVIOUS
<1> USE DEF IInv
<1>1. inventory \subseteq Proof /\ screen \subseteq Proof
  BY DEF Made, Purse
<1>2. \A e \in pending : e.proofs \subseteq Proof /\ e.eid \in 1 .. MaxPays
  BY DEF Made, Purse
<1>3. \A d, e \in pending : d.eid = e.eid => d = e
  BY DEF NumberedOnce
<1>4. ASSUME NEW t \in Tabs
      PROVE  /\ tab[t].stage \in Stages
             /\ tab[t].loaded \cup tab[t].keep \cup tab[t].send \subseteq Proof
             /\ tab[t].entry \in 1 .. MaxPays \cup {NoEntry}
             /\ tab[t].stage \in {"committed", "posted"} => Worth(tab[t].send) = Price
  <2>1. tab[t] \in TabRecord(fresh)
    BY DEF Made
  <2>2. tab[t].loaded \in Purse(fresh) /\ tab[t].keep \in Purse(fresh) /\ tab[t].send \in Purse(fresh)
        /\ tab[t].stage \in Stages /\ tab[t].entry \in 1 .. MaxPays \cup {NoEntry}
    BY <2>1 DEF TabRecord
  <2>3. PaidFor(t)
    BY DEF Sound
  <2> QED BY <2>2, <2>3 DEF Purse, PaidFor, InHand
<1>5. lock \in Tabs \cup {NoTab} /\ spent \subseteq 1 .. fresh - 1
  BY DEF Made
<1> QED BY <1>1, <1>2, <1>3, <1>4, <1>5 DEF TypeOK

\* What is held to begin with is a purse, and nothing is under way.
LEMMA InitIInv == Init => IInv
<1> SUFFICES ASSUME Init PROVE IInv
  OBVIOUS
<1> USE DEF Init
<1>1. /\ IsFiniteSet(FirstSecrets) /\ Cardinality(FirstSecrets) \in Nat /\ FirstSecrets = 1 .. fresh - 1
      /\ fresh \in Nat \ {0}
  <2> DEFINE all == Held \cup UNION Paper
             f == [p \in all |-> p.secret]
  <2>1. f \in Surjection(all, FirstSecrets)
    BY DEF Surjection, FirstSecrets, Secrets
  <2> HIDE DEF f
  <2>2. IsFiniteSet(FirstSecrets)
    BY <2>1, FS_Surjection, WalletAssumption
  <2>3. Cardinality(FirstSecrets) \in Nat
    BY <2>2, FS_CardinalityType
  <2>4. FirstSecrets = 1 .. Cardinality(FirstSecrets)
    BY WalletAssumption
  <2>5. fresh = Cardinality(FirstSecrets) + 1 /\ fresh - 1 = Cardinality(FirstSecrets)
    BY <2>3
  <2> QED BY <2>2, <2>3, <2>4, <2>5
<1>2. Held \in Purse(fresh)
  <2>1. IsFiniteSet(Held)
    BY FS_Subset, WalletAssumption
  <2> QED BY <1>1, <2>1, WalletAssumption DEF Purse, FirstSecrets, Secrets
<1>3. {} \in Purse(fresh)
  BY <1>1, <1>2, PurseKeeps
<1>4. Blank("closed") \in TabRecord(fresh)
  BY <1>3, WalletAssumption DEF Blank, TabRecord, Stages
<1>5. Made
  <2>1. inventory = Held /\ pending = {} /\ spent = {} /\ orphans = {} /\ screen = {} /\ pays = 0
    OBVIOUS
  <2>2. tab \in [Tabs -> TabRecord(fresh)]
    BY <1>4
  <2>3. paste \in [Tabs -> [stage : {"none", "asked", "told"}, proofs : Purse(fresh)]]
    BY <1>3
  <2>4. lock \in Tabs \cup {NoTab} /\ locks \in BOOLEAN
    BY WalletAssumption
  <2>5. 0 \in 0 .. MaxPays /\ IsFiniteSet({})
    BY FS_EmptySet, WalletAssumption
  <2> QED BY <1>1, <1>2, <1>3, <2>1, <2>2, <2>3, <2>4, <2>5 DEF Made
<1>6. \A t \in Tabs : tab[t].stage = "closed" /\ tab[t].entry = NoEntry
  BY DEF Blank
<1> QED BY <1>5, <1>6, WalletAssumption
        DEF IInv, NumberedOnce, Sound, OwnIsSent, LoadedIsKept, PaidFor, LockHeld,
            LoadedStays, AtMint, Numbered, InHand, Answers

------------------------------------------------------------------------------
(* Steps. *)

\* A payment goes on under its number, or ends; entries only go.
LEMMA NumbersKept ==
  ASSUME IInv, NEW t \in Tabs, NEW r, tab' = [tab EXCEPT ![t] = r],
         r.entry \in {NoEntry, tab[t].entry},
         r.stage \in Numbered => tab[t].stage \in Numbered /\ r.no = tab[t].no,
         pending' \subseteq pending, spent \subseteq spent', pays' = pays
  PROVE  NumberedOnce' /\ \A u \in Tabs \ {t} : Sound(u)'
<1> USE DEF IInv
<1>1. tab'[t] = r /\ \A u \in Tabs \ {t} : tab'[u] = tab[u]
  BY DEF Made
<1>2. ASSUME NEW u \in Tabs \ {t} PROVE Sound(u)'
  <2>1. Sound(u) /\ tab'[u] = tab[u]
    BY <1>1
  <2>2. OwnIsSent(u)'
    BY <2>1 DEF Sound, OwnIsSent
  <2>3. LoadedIsKept(u)'
    BY <2>1 DEF Sound, LoadedIsKept
  <2>4. PaidFor(u)'
    BY <2>1 DEF Sound, PaidFor
  <2> QED BY <2>2, <2>3, <2>4 DEF Sound
<1>3. /\ \A d, e \in pending' : d.eid = e.eid => d = e
      /\ \A e \in pending' : e.eid \in 1 .. pays'
  BY DEF NumberedOnce
<1>4. ASSUME NEW u \in Tabs PROVE tab'[u].entry \in {NoEntry, tab[u].entry}
  BY <1>1
<1>5. ASSUME NEW u \in Tabs, tab'[u].stage \in Numbered
      PROVE  tab[u].stage \in Numbered /\ tab'[u].no = tab[u].no
  BY <1>1, <1>5
<1>6. ASSUME NEW u \in Tabs, tab'[u].stage \in Numbered
      PROVE  /\ tab'[u].no \in 1 .. pays' /\ tab'[u].no # NoEntry
             /\ \A e \in pending' : e.eid # tab'[u].no
             /\ \A v \in Tabs : tab'[v].entry # tab'[u].no
             /\ \A v \in Tabs \ {u} : tab'[v].stage \in Numbered => tab'[v].no # tab'[u].no
  <2>1. tab[u].no \in 1 .. pays /\ tab[u].no # NoEntry
    <3>1. pays \in 0 .. MaxPays /\ tab[u].no \in 1 .. pays
      BY <1>5, <1>6 DEF NumberedOnce, Made
    <3> QED BY <3>1, WalletAssumption
  <2> QED BY <1>4, <1>5, <1>6, <2>1 DEF NumberedOnce
<1>7. \A u \in Tabs : tab'[u].entry \in 1 .. pays' \cup {NoEntry}
  BY <1>4 DEF NumberedOnce
<1> QED BY <1>2, <1>3, <1>6, <1>7 DEF NumberedOnce

\* A tab that does not commit keeps the lock as it is, ...
LEMMA LockKept ==
  ASSUME IInv, NEW t \in Tabs, NEW r, tab' = [tab EXCEPT ![t] = r],
         r.stage \in AtMint <=> tab[t].stage \in AtMint,
         r.stage \in AtMint => r.loaded = tab[t].loaded,
         UNCHANGED <<lock, locks>>, inventory \subseteq inventory'
  PROVE  LockHeld' /\ LoadedStays'
<1> USE DEF IInv
<1>1. tab'[t] = r /\ \A u \in Tabs \ {t} : tab'[u] = tab[u]
  BY DEF Made
<1> QED BY <1>1 DEF LockHeld, LoadedStays, AtMint

\* ... and one that ends frees it.  Only who holds it takes from the inventory.
LEMMA LockFreed ==
  ASSUME IInv, NEW t \in Tabs, NEW r, tab' = [tab EXCEPT ![t] = r],
         r.stage \notin AtMint, lock' = IF lock = t THEN NoTab ELSE lock, locks' = locks,
         inventory \subseteq inventory' \/ tab[t].stage \in AtMint
  PROVE  LockHeld' /\ LoadedStays'
<1> USE DEF IInv
<1>1. tab'[t] = r /\ \A u \in Tabs \ {t} : tab'[u] = tab[u]
  BY DEF Made
<1>2. LockHeld'
  BY <1>1, WalletAssumption DEF LockHeld
<1>3. ASSUME locks, NEW u \in Tabs, tab'[u].stage \in AtMint PROVE tab'[u].loaded \subseteq inventory'
  <2>1. u # t /\ tab[u].stage \in AtMint /\ tab'[u] = tab[u]
    BY <1>1, <1>3
  <2>2. inventory \subseteq inventory'
    BY <1>3, <2>1 DEF LockHeld
  <2> QED BY <1>3, <2>1, <2>2 DEF LoadedStays, AtMint
<1> QED BY <1>2, <1>3 DEF LoadedStays, AtMint

\* What leaves the stash is in the inventory.
LEMMA ReclaimMoves ==
  ASSUME IInv, NEW E \in SUBSET pending, Reclaim(E)
  PROVE  /\ inventory \subseteq inventory' /\ inventory' \in Purse(fresh)
         /\ pending' \subseteq pending /\ IsFiniteSet(pending')
         /\ Secrets(inventory \cup InPending) \subseteq Secrets(inventory' \cup InPending')
<1> USE DEF IInv
<1>1. PICK done \in SUBSET E :
        /\ inventory' = MergeProofs(inventory, UNION {e.proofs : e \in done})
        /\ pending' = pending \/ pending' = pending \ done
  BY DEF Reclaim, Merge
<1>2. IsFiniteSet(done) /\ \A e \in done : e.proofs \in Purse(fresh)
  BY FS_Subset DEF Made
<1> DEFINE back == UNION {e.proofs : e \in done}
<1>3. fresh \in Nat /\ inventory \in Purse(fresh) /\ back \in Purse(fresh)
  BY <1>2, PursesUnite DEF Made
<1>4. InPending \ back \subseteq InPending'
  BY <1>1 DEF InPending
<1>5. inventory' = MergeProofs(inventory, back)
  BY <1>1
<1> HIDE DEF back
<1>6. inventory' \in Purse(fresh) /\ inventory \subseteq inventory' /\ Secrets(back) \subseteq Secrets(inventory')
  BY <1>3, <1>5, MergeKeeps
<1>7. pending' \subseteq pending /\ IsFiniteSet(pending')
  BY <1>1, FS_Subset DEF Made
<1> QED BY <1>4, <1>6, <1>7 DEF Secrets

\* A tab without a payment has a record of its type.
LEMMA BlankIsTyped ==
  ASSUME IInv, NEW s \in {"closed", "idle", "waiting"}
  PROVE  /\ Blank(s) \in TabRecord(fresh) /\ Blank(s).stage = s /\ Blank(s).entry = NoEntry
         /\ \A n \in 0 .. MaxPays : [Blank(s) EXCEPT !.no = n] \in TabRecord(fresh)
<1>1. {} \in Purse(fresh)
  BY PurseKeeps DEF IInv, Made
<1>2. 0 \in 0 .. MaxPays /\ s \in Stages
  BY WalletAssumption DEF Stages
<1> QED BY <1>1, <1>2 DEF Blank, TabRecord

\* A tab that has nothing in hand.
LEMMA EndIsSound ==
  ASSUME IInv, NEW t \in Tabs, NEW r, tab' = [tab EXCEPT ![t] = r],
         r.stage \in {"closed", "idle", "waiting"}, r.entry = NoEntry, pending' \subseteq pending
  PROVE  Sound(t)'
<1> USE DEF IInv
<1>1. tab'[t] = r
  BY DEF Made
<1>2. \A e \in pending' : e.eid # NoEntry
  BY WalletAssumption DEF Made
<1> QED BY <1>1, <1>2
        DEF Sound, OwnIsSent, LoadedIsKept, PaidFor, AtMint, InHand, Answers

\* A payment or a page ends: what it had in memory is gone, a request of its
\* own may be left without a sender.
LEMMA EndKeeps ==
  ASSUME IInv, NEW t \in Tabs, NEW s \in {"closed", "idle"}, tab' = [tab EXCEPT ![t] = Blank(s)],
         inventory \subseteq inventory', inventory' \in Purse(fresh), screen' \in Purse(fresh),
         pending' \subseteq pending,
         paste' \in [Tabs -> [stage : {"none", "asked", "told"}, proofs : Purse(fresh)]],
         orphans' \subseteq orphans \cup {Secrets(tab[t].send)},
         \/ lock' = lock /\ tab[t].stage \notin AtMint
         \/ lock' = IF lock = t THEN NoTab ELSE lock,
         UNCHANGED <<locks, spent, fresh, pays>>
  PROVE  IInv'
<1> USE DEF IInv
<1> DEFINE r == Blank(s)
<1>1. r \in TabRecord(fresh) /\ r.stage = s /\ r.entry = NoEntry
  BY BlankIsTyped
<1> HIDE DEF r
<1>2. tab' = [tab EXCEPT ![t] = r]
  BY DEF r
<1>3. Made'
  <2>1. orphans' \subseteq SUBSET (1 .. fresh - 1)
    BY DEF Made, Purse, TabRecord
  <2>2. IsFiniteSet(pending')
    BY FS_Subset DEF Made
  <2>3. lock' \in Tabs \cup {NoTab}
    BY DEF Made
  <2>4. tab' \in [Tabs -> TabRecord(fresh)]
    BY <1>1, <1>2 DEF Made
  <2>5. pending' \subseteq [eid : 1 .. MaxPays, proofs : Purse(fresh)]
    BY DEF Made
  <2> QED BY <2>1, <2>2, <2>3, <2>4, <2>5 DEF Made
<1>4. NumberedOnce' /\ \A u \in Tabs \ {t} : Sound(u)'
  BY <1>1, <1>2, NumbersKept DEF Numbered, AtMint
<1>5. Sound(t)'
  BY <1>1, <1>2, EndIsSound
<1>6. LockHeld' /\ LoadedStays'
  BY <1>1, <1>2, LockKept, LockFreed DEF AtMint
<1> QED BY <1>3, <1>4, <1>5, <1>6

\* onHello, when a page opens: the stash comes home.
LEMMA OpenKeeps == ASSUME IInv, NEW t \in Tabs, Open(t) PROVE IInv'
<1>1. /\ Reclaim(pending) /\ tab' = [tab EXCEPT ![t] = Blank("idle")] /\ tab[t].stage = "closed"
      /\ UNCHANGED <<paste, lock, locks, spent, fresh, orphans, screen, pays>>
  BY DEF Open
<1>2. inventory \subseteq inventory' /\ inventory' \in Purse(fresh) /\ pending' \subseteq pending
  BY <1>1, ReclaimMoves
<1> QED BY <1>1, <1>2, EndKeeps DEF IInv, Made, AtMint

\* A closing page leaves storage as it is, and its request to the network.
LEMMA CloseKeeps == ASSUME IInv, NEW t \in Tabs, Close(t) PROVE IInv'
<1>1. /\ tab' = [tab EXCEPT ![t] = Blank("closed")]
      /\ paste' = [paste EXCEPT ![t] = [stage |-> "none", proofs |-> {}]]
      /\ lock' = IF lock = t THEN NoTab ELSE lock
      /\ orphans' \subseteq orphans \cup {Secrets(tab[t].send)}
      /\ UNCHANGED <<inventory, pending, locks, spent, fresh, screen, pays>>
  BY DEF Close, Request, store
<1>2. {} \in Purse(fresh)
  BY PurseKeeps DEF IInv, Made
<1>3. paste' \in [Tabs -> [stage : {"none", "asked", "told"}, proofs : Purse(fresh)]]
  BY <1>1, <1>2 DEF IInv, Made
<1> QED BY <1>1, <1>3, EndKeeps DEF IInv, Made

\* The next payment takes a number of its own.
LEMMA PressPayKeeps == ASSUME IInv, NEW t \in Tabs, PressPay(t) PROVE IInv'
<1> USE DEF IInv
<1> DEFINE r == [Blank("waiting") EXCEPT !.no = pays + 1]
<1>1. /\ tab[t].stage = "idle" /\ pays < MaxPays /\ pays' = pays + 1
      /\ tab' = [tab EXCEPT ![t] = r]
      /\ UNCHANGED <<store, paste, lock, locks, spent, fresh, orphans, screen>>
  BY DEF PressPay
<1>2. pays \in 0 .. MaxPays /\ pays' \in 1 .. MaxPays /\ pays + 1 \in 0 .. MaxPays /\ MaxPays \in Nat
  BY <1>1, WalletAssumption DEF Made
<1>3. r \in TabRecord(fresh) /\ r.stage = "waiting" /\ r.entry = NoEntry /\ r.no = pays'
  BY <1>1, <1>2, BlankIsTyped DEF Blank
<1> HIDE DEF r
<1>4. Made'
  BY <1>1, <1>2, <1>3 DEF Made, store
<1>5. tab'[t] = r /\ \A u \in Tabs \ {t} : tab'[u] = tab[u]
  BY <1>1 DEF Made
<1>6. NumberedOnce'
  <2>1. 1 .. pays \subseteq 1 .. pays' /\ pays' \notin 1 .. pays /\ pays' # NoEntry
    BY <1>1, <1>2, WalletAssumption
  <2>2. /\ \A d, e \in pending' : d.eid = e.eid => d = e
        /\ \A e \in pending' : e.eid \in 1 .. pays' /\ e.eid # pays'
    BY <1>1, <2>1 DEF NumberedOnce, store
  <2>3. \A u \in Tabs : tab'[u].entry \in 1 .. pays' \cup {NoEntry} /\ tab'[u].entry # pays'
    BY <1>3, <1>5, <2>1 DEF NumberedOnce
  <2>4. ASSUME NEW u \in Tabs \ {t}, tab'[u].stage \in Numbered
        PROVE  /\ tab'[u].no \in 1 .. pays' /\ tab'[u].no # pays'
               /\ \A e \in pending' : e.eid # tab'[u].no
               /\ \A v \in Tabs : tab'[v].entry # tab'[u].no
               /\ \A v \in Tabs \ {u} : tab'[v].stage \in Numbered => tab'[v].no # tab'[u].no
    <3>1. tab'[u] = tab[u] /\ tab[u].no \in 1 .. pays /\ tab[u].no # NoEntry
      BY <1>2, <1>5, <2>4, WalletAssumption DEF NumberedOnce
    <3> QED BY <1>1, <1>3, <1>5, <2>1, <2>4, <3>1 DEF NumberedOnce, store
  <2>5. tab'[t].no \in 1 .. pays'
    BY <1>2, <1>3, <1>5
  <2>6. \A v \in Tabs \ {t} : tab'[v].stage \in Numbered => tab'[v].no # tab'[t].no
    BY <1>3, <1>5, <2>4
  <2> QED BY <1>3, <1>5, <2>2, <2>3, <2>4, <2>5, <2>6 DEF NumberedOnce
<1>7. ASSUME NEW u \in Tabs \ {t} PROVE Sound(u)'
  BY <1>1, <1>5 DEF Sound, OwnIsSent, LoadedIsKept, PaidFor, store
<1>8. Sound(t)'
  BY <1>1, <1>3, EndIsSound DEF store
<1>9. LockHeld' /\ LoadedStays'
  BY <1>1, <1>3, LockKept DEF AtMint, store
<1> QED BY <1>4, <1>6, <1>7, <1>8, <1>9

\* The inventory, less what is handed over or goes into a swap.
LEMMA SendingSplits ==
  ASSUME IInv, NEW t \in Tabs, Sending(t, inventory)
  PROVE  \E r \in TabRecord(fresh) :
           /\ tab' = [tab EXCEPT ![t] = r]
           /\ r.stage \in AtMint /\ r.no = tab[t].no /\ r.entry = tab[t].entry
           /\ r.loaded = inventory
           /\ Secrets(r.loaded) \subseteq Secrets(r.keep) \cup Secrets(r.send)
           /\ r.stage = "swapping" => Worth(r.send) \in Nat /\ Worth(r.send) > Price
           /\ r.stage = "swapped" => Worth(r.send) = Price
<1> USE DEF IInv
<1> DEFINE full == Expand(inventory, tab[t].no)
<1>1. /\ inventory \in Purse(fresh) /\ full \in Purse(fresh) /\ Secrets(full) = Secrets(inventory)
      /\ fresh \in Nat /\ tab \in [Tabs -> TabRecord(fresh)]
  <2>1. tab[t].no \in 0 .. MaxPays
    BY DEF Made, TabRecord
  <2> QED BY <2>1, ExpandKeeps DEF Made
<1>2. PICK X \in SUBSET full, s \in AtMint :
        /\ tab' = [tab EXCEPT ![t].stage = s, ![t].loaded = inventory,
                              ![t].send = X, ![t].keep = full \ X]
        /\ s = "swapped" => Worth(X) = Price
        /\ s = "swapping" => Worth(X) >= Price /\ Worth(X) # Price
  BY DEF Sending, Exact, Enough, AtMint
<1> HIDE DEF full
<1> DEFINE r == [tab[t] EXCEPT !.stage = s, !.loaded = inventory, !.send = X, !.keep = full \ X]
<1>3. tab' = [tab EXCEPT ![t] = r]
  BY <1>1, <1>2
<1>4. X \in Purse(fresh) /\ full \ X \in Purse(fresh) /\ tab[t] \in TabRecord(fresh)
  BY <1>1, PurseKeeps
<1>5. r \in TabRecord(fresh)
  BY <1>1, <1>4 DEF TabRecord, AtMint, Stages
<1>6. /\ r.stage = s /\ r.loaded = inventory /\ r.send = X /\ r.keep = full \ X
      /\ r.no = tab[t].no /\ r.entry = tab[t].entry
  BY <1>4 DEF TabRecord
<1>7. Secrets(inventory) \subseteq Secrets(full \ X) \cup Secrets(X)
  BY <1>1 DEF Secrets
<1>8. Worth(X) \in Nat
  BY <1>4, WorthIsNat DEF Purse
<1>9. s = "swapping" => Worth(X) > Price
  BY <1>2, <1>8, WalletAssumption
<1> HIDE DEF r
<1> QED BY <1>2, <1>3, <1>5, <1>6, <1>7, <1>8, <1>9

\* The inventory is read and split, under the lock if there is one.
LEMMA LoadKeeps == ASSUME IInv, NEW t \in Tabs, Load(t) PROVE IInv'
<1> USE DEF IInv
<1>1. /\ tab[t].stage = "waiting" /\ (locks => lock = NoTab)
      /\ UNCHANGED <<inventory, pending, paste, locks, spent, fresh, orphans, screen, pays>>
  BY DEF Load, store, counts
<1>2. CASE Worth(inventory) >= Price
  <2>1. Sending(t, inventory) /\ lock' = IF locks THEN t ELSE lock
    BY <1>2 DEF Load
  <2>2. PICK r \in TabRecord(fresh) :
           /\ tab' = [tab EXCEPT ![t] = r]
           /\ r.stage \in AtMint /\ r.no = tab[t].no /\ r.entry = tab[t].entry
           /\ r.loaded = inventory
           /\ Secrets(r.loaded) \subseteq Secrets(r.keep) \cup Secrets(r.send)
           /\ r.stage = "swapping" => Worth(r.send) \in Nat /\ Worth(r.send) > Price
           /\ r.stage = "swapped" => Worth(r.send) = Price
    BY <2>1, SendingSplits
  <2>3. tab'[t] = r /\ \A u \in Tabs \ {t} : tab'[u] = tab[u]
    BY <2>2 DEF Made
  <2>4. Made'
    BY <1>1, <2>1, <2>2 DEF Made
  <2>5. NumberedOnce' /\ \A u \in Tabs \ {t} : Sound(u)'
    BY <1>1, <2>2, NumbersKept DEF Numbered
  <2>6. Sound(t)'
    <3>1. tab[t].entry = NoEntry
      BY <1>1 DEF Sound, OwnIsSent, Numbered
    <3>2. \A e \in pending' : e.eid # NoEntry
      BY <1>1, WalletAssumption DEF Made
    <3>3. OwnIsSent(t)'
      BY <2>2, <2>3, <3>1, <3>2 DEF OwnIsSent, AtMint
    <3>4. LoadedIsKept(t)'
      BY <2>2, <2>3 DEF LoadedIsKept
    <3>5. PaidFor(t)'
      BY <2>2, <2>3 DEF PaidFor, AtMint, InHand, Answers
    <3> QED BY <3>3, <3>4, <3>5 DEF Sound
  <2>7. LockHeld'
    BY <1>1, <2>1, <2>2, <2>3, WalletAssumption DEF LockHeld
  <2>8. LoadedStays'
    BY <1>1, <2>2, <2>3 DEF LoadedStays
  <2> QED BY <2>4, <2>5, <2>6, <2>7, <2>8
<1>3. CASE ~(Worth(inventory) >= Price)
  <2>1. tab' = [tab EXCEPT ![t] = Blank("idle")] /\ lock' = lock
    BY <1>3 DEF Load
  <2> QED BY <1>1, <2>1, EndKeeps DEF Made, AtMint
<1> QED BY <1>2, <1>3

\* The mint spends what it was sent, for new proofs of the same worth.
LEMMA MintSwapsKeeps == ASSUME IInv, NEW t \in Tabs, MintSwaps(t) PROVE IInv'
<1> USE DEF IInv
<1> DEFINE change == Worth(tab[t].send) - Price
           new(s, a) == [id |-> "full", copy |-> 0, secret |-> s, amount |-> a]
           paid == {new(fresh, Price)}
           keep == tab[t].keep \cup {new(fresh + 1, change)}
           r == [tab[t] EXCEPT !.stage = "swapped", !.send = paid, !.keep = keep]
<1>1. /\ tab[t].stage = "swapping" /\ fresh' = fresh + 2
      /\ spent' = spent \cup Secrets(tab[t].send)
      /\ tab' = [tab EXCEPT ![t] = r]
      /\ UNCHANGED <<inventory, pending, paste, lock, locks, orphans, screen, pays>>
  BY DEF MintSwaps, store, counts, Made
<1>2. /\ tab[t] \in TabRecord(fresh) /\ tab[t].keep \in Purse(fresh) /\ tab[t].send \in Purse(fresh)
      /\ tab[t].loaded \in Purse(fresh) /\ fresh \in Nat /\ fresh >= 1 /\ Price \in Nat \ {0}
  BY WalletAssumption DEF Made, TabRecord
<1>3. change \in Nat \ {0}
  BY <1>1, <1>2 DEF Sound, PaidFor
<1> HIDE DEF change
<1>4. paid \in Purse(fresh') /\ {new(fresh + 1, change)} \in Purse(fresh')
  <2>1. new(fresh, Price) \in Proof /\ new(fresh + 1, change) \in Proof
    <3>1. 0 \in 0 .. MaxPays
      BY WalletAssumption
    <3> QED BY <1>2, <1>3, <3>1 DEF Proof
  <2>2. Secrets(paid) = {fresh} /\ Secrets({new(fresh + 1, change)}) = {fresh + 1}
    BY DEF Secrets
  <2>3. fresh \in 1 .. fresh' - 1 /\ fresh + 1 \in 1 .. fresh' - 1
    BY <1>1, <1>2
  <2>4. IsFiniteSet(paid) /\ IsFiniteSet({new(fresh + 1, change)})
    BY FS_Singleton
  <2> HIDE DEF new
  <2> QED BY <2>1, <2>2, <2>3, <2>4 DEF Purse
<1>5. \A S \in Purse(fresh) : S \in Purse(fresh')
  BY <1>1, <1>2, PurseKeeps
<1>6. fresh' \in Nat /\ 1 .. fresh - 1 \subseteq 1 .. fresh' - 1
  BY <1>1, <1>2
<1>7. keep \in Purse(fresh')
  <2> HIDE DEF new, paid
  <2> QED BY <1>2, <1>4, <1>5, <1>6, PurseKeeps
<1>8. \A x \in TabRecord(fresh) : x \in TabRecord(fresh')
  BY <1>5 DEF TabRecord
<1>9. /\ r \in TabRecord(fresh') /\ r.stage = "swapped" /\ r.send = paid /\ r.keep = keep
      /\ r.loaded = tab[t].loaded /\ r.no = tab[t].no /\ r.entry = tab[t].entry
  <2> HIDE DEF paid, keep
  <2> QED BY <1>2, <1>4, <1>5, <1>7 DEF TabRecord, Stages
<1>10. Worth(paid) = Price
  <2>1. new(fresh, Price).amount = Price
    OBVIOUS
  <2> HIDE DEF new
  <2> QED BY <1>2, <2>1, WorthOfOne
<1>11. tab[t].keep \subseteq keep
  OBVIOUS
<1> HIDE DEF new, paid, keep, r
<1>12. tab'[t] = r /\ \A u \in Tabs \ {t} : tab'[u] = tab[u]
  BY <1>1 DEF Made
<1>13. Made'
  <2>1. tab' \in [Tabs -> TabRecord(fresh')]
    BY <1>1, <1>8, <1>9 DEF Made
  <2>2. paste' \in [Tabs -> [stage : {"none", "asked", "told"}, proofs : Purse(fresh')]]
    BY <1>1, <1>5 DEF Made
  <2>3. pending' \subseteq [eid : 1 .. MaxPays, proofs : Purse(fresh')] /\ IsFiniteSet(pending')
    BY <1>1, <1>5 DEF Made
  <2>4. spent' \subseteq 1 .. fresh' - 1
    BY <1>1, <1>2, <1>6 DEF Made, Purse
  <2>5. orphans' \subseteq SUBSET (1 .. fresh' - 1) /\ FirstSecrets \subseteq 1 .. fresh' - 1
    BY <1>1, <1>6 DEF Made
  <2>6. inventory' \in Purse(fresh') /\ screen' \in Purse(fresh')
    BY <1>1, <1>5 DEF Made
  <2> QED BY <1>1, <1>6, <2>1, <2>2, <2>3, <2>4, <2>5, <2>6 DEF Made
<1>14. NumberedOnce' /\ \A u \in Tabs \ {t} : Sound(u)'
  BY <1>1, <1>9, NumbersKept DEF Numbered, AtMint
<1>15. Sound(t)'
  <2>1. tab[t].entry = NoEntry
    BY <1>1 DEF Sound, OwnIsSent, Numbered, AtMint
  <2>2. \A e \in pending' : e.eid # NoEntry
    BY <1>1, WalletAssumption DEF Made
  <2>3. OwnIsSent(t)'
    BY <1>9, <1>12, <2>1, <2>2 DEF OwnIsSent
  <2>4. LoadedIsKept(t)'
    <3>1. Secrets(tab[t].loaded) \subseteq Secrets(tab[t].keep) \cup spent'
      BY <1>1 DEF Sound, LoadedIsKept, AtMint
    <3>2. Secrets(tab[t].keep) \subseteq Secrets(keep)
      BY <1>11 DEF Secrets
    <3> QED BY <1>9, <1>12, <3>1, <3>2 DEF LoadedIsKept
  <2>5. PaidFor(t)'
    BY <1>9, <1>10, <1>12 DEF PaidFor
  <2> QED BY <2>3, <2>4, <2>5 DEF Sound
<1>16. LockHeld' /\ LoadedStays'
  BY <1>1, <1>9, LockKept DEF AtMint
<1> QED BY <1>13, <1>14, <1>15, <1>16

\* A swap that fails ends the payment.
LEMMA SwapThrowsKeeps == ASSUME IInv, NEW t \in Tabs, SwapThrows(t) PROVE IInv'
<1>1. /\ tab' = [tab EXCEPT ![t] = Blank("idle")]
      /\ orphans' \subseteq orphans \cup {Secrets(tab[t].send)}
      /\ lock' = IF lock = t THEN NoTab ELSE lock
      /\ UNCHANGED <<inventory, pending, paste, locks, spent, fresh, screen, pays>>
  BY DEF SwapThrows, Request, store, counts
<1> QED BY <1>1, EndKeeps DEF IInv, Made

\* The inventory after a commit, whatever of it could be written.
LEMMA CommitWrites ==
  ASSUME IInv, NEW t \in Tabs, Commit(t)
  PROVE  \E atRisk \in Purse(fresh), saved, stashed \in BOOLEAN :
           /\ tab[t].send \subseteq atRisk
           /\ saved \/ atRisk = tab[t].keep \cup tab[t].send
           /\ inventory' = IF saved THEN NewInventory(t) ELSE inventory
           /\ pending' = IF stashed THEN Stash(atRisk, tab[t].no) ELSE pending
           /\ screen' \in {screen, screen \cup atRisk}
           /\ \/ tab' = [tab EXCEPT ![t].stage = "committed"] /\ saved /\ stashed /\ atRisk = tab[t].send
              \/ tab' = [tab EXCEPT ![t] = Blank("idle")] /\ screen' = screen \cup atRisk
<1>1. PICK saved, stashed \in BOOLEAN :
        LET atRisk == IF saved THEN tab[t].send ELSE tab[t].keep \cup tab[t].send
        IN /\ inventory' = IF saved THEN NewInventory(t) ELSE inventory
           /\ pending' = IF stashed THEN Stash(atRisk, tab[t].no) ELSE pending
           /\ IF saved /\ stashed
                THEN tab' = [tab EXCEPT ![t].stage = "committed"] /\ UNCHANGED screen
                ELSE tab' = [tab EXCEPT ![t] = Blank("idle")] /\ screen' = screen \cup atRisk
  BY DEF Commit
<1> DEFINE atRisk == IF saved THEN tab[t].send ELSE tab[t].keep \cup tab[t].send
<1>2. atRisk \in Purse(fresh)
  <2>1. tab[t].send \in Purse(fresh) /\ tab[t].keep \in Purse(fresh) /\ fresh \in Nat
    BY DEF IInv, Made, TabRecord
  <2> QED BY <2>1, PurseKeeps
<1>3. tab[t].send \subseteq atRisk /\ (saved \/ atRisk = tab[t].keep \cup tab[t].send)
      /\ (saved => atRisk = tab[t].send)
  OBVIOUS
<1>4. /\ inventory' = IF saved THEN NewInventory(t) ELSE inventory
      /\ pending' = IF stashed THEN Stash(atRisk, tab[t].no) ELSE pending
      /\ IF saved /\ stashed
           THEN tab' = [tab EXCEPT ![t].stage = "committed"] /\ screen' = screen
           ELSE tab' = [tab EXCEPT ![t] = Blank("idle")] /\ screen' = screen \cup atRisk
  BY <1>1
<1> HIDE DEF atRisk
<1> QED BY <1>2, <1>3, <1>4

\* A commit keeps what the swap kept, and every secret that came in meanwhile.
LEMMA NewInventoryKeeps ==
  ASSUME IInv, NEW t \in Tabs
  PROVE  /\ NewInventory(t) \in Purse(fresh) /\ tab[t].keep \subseteq NewInventory(t)
         /\ Secrets(inventory) \subseteq Secrets(tab[t].loaded) \cup Secrets(NewInventory(t))
<1> DEFINE later == {p \in inventory : Key(p) \notin Keys(tab[t].loaded)}
<1>1. fresh \in Nat /\ tab[t].keep \in Purse(fresh) /\ inventory \in Purse(fresh)
  BY DEF IInv, Made, TabRecord
<1>2. later \in Purse(fresh)
  BY <1>1, PurseKeeps
<1>3. NewInventory(t) = MergeProofs(tab[t].keep, later)
  BY DEF NewInventory
<1>4. ASSUME NEW p \in inventory, p \notin later PROVE p.secret \in Secrets(tab[t].loaded)
  <2>1. PICK q \in tab[t].loaded : Key(q) = Key(p)
    BY <1>4 DEF Keys
  <2> QED BY <2>1 DEF Key, Secrets
<1> HIDE DEF later
<1>5. /\ NewInventory(t) \in Purse(fresh) /\ tab[t].keep \subseteq NewInventory(t)
      /\ Secrets(later) \subseteq Secrets(NewInventory(t))
  BY <1>1, <1>2, <1>3, MergeKeeps
<1> QED BY <1>4, <1>5 DEF Secrets

\* One more entry, under the number of the payment.
LEMMA StashAdds ==
  ASSUME IInv, NEW t \in Tabs, tab[t].stage \in Numbered, NEW S \in Purse(fresh)
  PROVE  LET after == Stash(S, tab[t].no)
         IN /\ pending \subseteq after /\ (\E e \in after : Secrets(e.proofs) = Secrets(S))
            /\ after \subseteq pending \cup {[eid |-> tab[t].no, proofs |-> S]}
            /\ after \subseteq [eid : 1 .. MaxPays, proofs : Purse(fresh)] /\ IsFiniteSet(after)
<1> USE DEF IInv
<1> DEFINE e == [eid |-> tab[t].no, proofs |-> S]
           after == Stash(S, tab[t].no)
<1>1. (pending = after /\ \E d \in pending : Secrets(d.proofs) = Secrets(S)) \/ after = pending \cup {e}
  BY TokenTellsSecrets DEF Stash, Entries
<1>2. tab[t].no \in 1 .. MaxPays
  BY WalletAssumption DEF NumberedOnce, Made
<1>3. e \in [eid : 1 .. MaxPays, proofs : Purse(fresh)] /\ e.proofs = S
  BY <1>2
<1>4. IsFiniteSet(pending) /\ IsFiniteSet(pending \cup {e})
  BY FS_AddElement DEF Made
<1> HIDE DEF e, after
<1>5. pending \subseteq [eid : 1 .. MaxPays, proofs : Purse(fresh)]
  BY DEF Made
<1> QED BY <1>1, <1>3, <1>4, <1>5 DEF e, after

\* Stash and inventory are written, or the write fails.
LEMMA CommitKeeps == ASSUME IInv, NEW t \in Tabs, Commit(t) PROVE IInv'
<1> USE DEF IInv
<1>1. /\ tab[t].stage = "swapped" /\ lock' = IF lock = t THEN NoTab ELSE lock
      /\ UNCHANGED <<paste, locks, spent, fresh, orphans, pays>>
  BY DEF Commit
<1>2. PICK atRisk \in Purse(fresh), saved, stashed \in BOOLEAN :
           /\ inventory' = IF saved THEN NewInventory(t) ELSE inventory
           /\ pending' = IF stashed THEN Stash(atRisk, tab[t].no) ELSE pending
           /\ screen' \in {screen, screen \cup atRisk}
           /\ \/ tab' = [tab EXCEPT ![t].stage = "committed"]
              \/ tab' = [tab EXCEPT ![t] = Blank("idle")]
  BY CommitWrites
<1>3. tab[t] \in TabRecord(fresh) /\ tab[t].keep \in Purse(fresh) /\ fresh \in Nat
      /\ inventory \in Purse(fresh) /\ screen \in Purse(fresh)
  BY DEF Made, TabRecord
<1>4. /\ tab[t].entry = NoEntry /\ tab[t].no \in 1 .. pays /\ tab[t].no # NoEntry
      /\ \A e \in pending : e.eid # tab[t].no
  <2>1. 1 .. pays \subseteq 1 .. MaxPays
    BY WalletAssumption DEF Made
  <2> QED BY <1>1, <2>1, WalletAssumption
          DEF NumberedOnce, Sound, OwnIsSent, Numbered, AtMint
<1>5. PICK r \in TabRecord(fresh) :
        /\ tab' = [tab EXCEPT ![t] = r] /\ r.entry = NoEntry
        /\ \/ r.stage = "idle"
           \/ r.stage = "committed" /\ r.send = tab[t].send
  <2>1. Blank("idle") \in TabRecord(fresh) /\ Blank("idle").stage = "idle" /\ Blank("idle").entry = NoEntry
    BY BlankIsTyped
  <2> DEFINE r == [tab[t] EXCEPT !.stage = "committed"]
  <2>2. r \in TabRecord(fresh) /\ r.stage = "committed" /\ r.send = tab[t].send /\ r.entry = NoEntry
    BY <1>3, <1>4 DEF TabRecord, Stages
  <2>3. tab' = [tab EXCEPT ![t].stage = "committed"] => tab' = [tab EXCEPT ![t] = r]
    BY DEF Made
  <2> HIDE DEF r
  <2> QED BY <1>2, <2>1, <2>2, <2>3
<1>6. tab'[t] = r /\ \A u \in Tabs \ {t} : tab'[u] = tab[u]
  BY <1>5 DEF Made
<1>7. /\ pending' \subseteq pending \cup {[eid |-> tab[t].no, proofs |-> atRisk]}
      /\ pending' \subseteq [eid : 1 .. MaxPays, proofs : Purse(fresh)] /\ IsFiniteSet(pending')
  BY <1>1, <1>2, StashAdds DEF Made, Numbered, AtMint
<1>8. Made'
  <2>1. inventory' \in Purse(fresh)
    BY <1>2, <1>3, NewInventoryKeeps
  <2>2. screen' \in Purse(fresh)
    BY <1>2, <1>3, PurseKeeps
  <2>3. lock' \in Tabs \cup {NoTab}
    BY <1>1 DEF Made
  <2> QED BY <1>1, <1>5, <1>7, <2>1, <2>2, <2>3 DEF Made
<1>9. NumberedOnce'
  <2>1. \A e \in pending' : e \in pending \/ e = [eid |-> tab[t].no, proofs |-> atRisk]
    BY <1>7
  <2>2. /\ \A d, e \in pending' : d.eid = e.eid => d = e
        /\ \A e \in pending' : e.eid \in 1 .. pays'
    BY <1>1, <1>4, <2>1 DEF NumberedOnce
  <2>3. \A u \in Tabs : tab'[u].entry \in 1 .. pays' \cup {NoEntry}
    BY <1>1, <1>5, <1>6 DEF NumberedOnce
  <2>4. ASSUME NEW u \in Tabs, tab'[u].stage \in Numbered
        PROVE  /\ tab'[u].no \in 1 .. pays'
               /\ \A e \in pending' : e.eid # tab'[u].no
               /\ \A v \in Tabs : tab'[v].entry # tab'[u].no
               /\ \A v \in Tabs \ {u} : tab'[v].stage \in Numbered => tab'[v].no # tab'[u].no
    <3>1. u # t /\ tab'[u] = tab[u] /\ tab'[t].stage \notin Numbered
      BY <1>5, <1>6, <2>4 DEF Numbered, AtMint
    <3>2. tab[u].no # tab[t].no /\ tab[u].no \in 1 .. pays
      BY <1>1, <2>4, <3>1 DEF NumberedOnce, Numbered, AtMint
    <3>3. tab[u].no # NoEntry
      BY <3>2, WalletAssumption DEF Made
    <3>4. \A e \in pending' : e.eid # tab'[u].no
      BY <2>1, <2>4, <3>1, <3>2 DEF NumberedOnce
    <3>5. \A v \in Tabs : tab'[v].entry # tab'[u].no
      BY <1>5, <1>6, <2>4, <3>1, <3>3 DEF NumberedOnce
    <3>6. \A v \in Tabs \ {u} : tab'[v].stage \in Numbered => tab'[v].no # tab'[u].no
      BY <1>6, <2>4, <3>1 DEF NumberedOnce
    <3> QED BY <1>1, <3>1, <3>2, <3>4, <3>5, <3>6
  <2> QED BY <2>2, <2>3, <2>4 DEF NumberedOnce
<1>10. ASSUME NEW u \in Tabs \ {t} PROVE Sound(u)'
  <2>1. tab[u].entry # tab[t].no /\ tab'[u] = tab[u] /\ Sound(u)
    BY <1>1, <1>6 DEF NumberedOnce, Numbered, AtMint
  <2>2. OwnIsSent(u)'
    BY <1>1, <1>7, <2>1 DEF Sound, OwnIsSent
  <2>3. LoadedIsKept(u)' /\ PaidFor(u)'
    BY <1>1, <2>1 DEF Sound, LoadedIsKept, PaidFor
  <2> QED BY <2>2, <2>3 DEF Sound
<1>11. Sound(t)'
  <2>1. \A e \in pending' : e.eid # NoEntry
    BY <1>7, WalletAssumption
  <2>2. PaidFor(t)
    BY DEF Sound
  <2> QED BY <1>1, <1>5, <1>6, <2>1, <2>2
          DEF Sound, OwnIsSent, LoadedIsKept, PaidFor, AtMint, InHand, Answers
<1>12. LockHeld' /\ LoadedStays'
  BY <1>1, <1>5, LockFreed DEF AtMint
<1> QED BY <1>8, <1>9, <1>10, <1>11, <1>12

\* The token goes out.
LEMMA PresentKeeps == ASSUME IInv, NEW t \in Tabs, Present(t) PROVE IInv'
<1> USE DEF IInv
<1> DEFINE own == Entries(tab[t].send)
           name == IF own = {} THEN NoEntry ELSE (CHOOSE e \in own : TRUE).eid
           r == [tab[t] EXCEPT !.stage = "posted", !.entry = name]
<1>1. /\ tab[t].stage = "committed" /\ tab' = [tab EXCEPT ![t] = r]
      /\ UNCHANGED <<inventory, pending, paste, lock, locks, spent, fresh, orphans, screen, pays>>
  BY DEF Present, Made, store, counts
<1>2. \/ name = NoEntry
      \/ \E e \in pending : Secrets(e.proofs) = Secrets(tab[t].send) /\ name = e.eid
  <2>1. \A e \in own : e \in pending /\ Secrets(e.proofs) = Secrets(tab[t].send)
    BY TokenTellsSecrets DEF Entries
  <2> HIDE DEF own
  <2> QED BY <2>1
<1> HIDE DEF own, name
<1>3. tab[t] \in TabRecord(fresh) /\ name \in 1 .. MaxPays \cup {NoEntry}
      /\ name \in 1 .. pays \cup {NoEntry}
  BY <1>2 DEF Made, NumberedOnce
<1>4. /\ r \in TabRecord(fresh) /\ r.stage = "posted" /\ r.entry = name
      /\ r.send = tab[t].send /\ r.loaded = tab[t].loaded
  BY <1>3 DEF TabRecord, Stages
<1> HIDE DEF r
<1>5. tab'[t] = r /\ \A u \in Tabs \ {t} : tab'[u] = tab[u]
  BY <1>1 DEF Made
<1>6. Made'
  BY <1>1, <1>4 DEF Made
<1>7. NumberedOnce'
  <2>1. ASSUME NEW u \in Tabs, tab'[u].stage \in Numbered
        PROVE  /\ tab'[u].no \in 1 .. pays'
               /\ \A e \in pending' : e.eid # tab'[u].no
               /\ \A v \in Tabs : tab'[v].entry # tab'[u].no
               /\ \A v \in Tabs \ {u} : tab'[v].stage \in Numbered => tab'[v].no # tab'[u].no
    <3>1. u # t /\ tab'[u] = tab[u] /\ tab'[t].stage \notin Numbered
      BY <1>4, <1>5, <2>1 DEF Numbered, AtMint
    <3>2. tab[u].no # NoEntry /\ tab[u].no # name
      BY <1>2, <2>1, <3>1, WalletAssumption DEF Made, NumberedOnce
    <3> QED BY <1>1, <1>4, <1>5, <2>1, <3>1, <3>2 DEF NumberedOnce
  <2>2. \A u \in Tabs : tab'[u].entry \in 1 .. pays' \cup {NoEntry}
    BY <1>1, <1>3, <1>4, <1>5 DEF NumberedOnce
  <2> QED BY <1>1, <2>1, <2>2 DEF NumberedOnce
<1>8. ASSUME NEW u \in Tabs \ {t} PROVE Sound(u)'
  BY <1>1, <1>5 DEF Sound, OwnIsSent, LoadedIsKept, PaidFor
<1>9. Sound(t)'
  <2>1. \A e \in pending : e.eid = name => Secrets(e.proofs) = Secrets(tab[t].send)
    BY <1>2, WalletAssumption DEF Made, NumberedOnce
  <2>2. PaidFor(t)
    BY DEF Sound
  <2> QED BY <1>1, <1>4, <1>5, <2>1, <2>2
          DEF Sound, OwnIsSent, LoadedIsKept, PaidFor, Numbered, AtMint, InHand
<1>10. LockHeld' /\ LoadedStays'
  BY <1>1, <1>4, LockKept DEF AtMint
<1> QED BY <1>6, <1>7, <1>8, <1>9, <1>10

\* A presentation goes on: it is answered, or made again.
LEMMA PresentedKeeps ==
  ASSUME IInv, NEW t \in Tabs, tab[t].stage \in {"posted", "expired", "unreachable"},
         NEW r \in TabRecord(fresh), tab' = [tab EXCEPT ![t] = r],
         r.stage \in {"posted"} \cup Answers, r.send = tab[t].send, r.entry = tab[t].entry,
         spent \subseteq spent', spent' \subseteq 1 .. fresh - 1,
         r.stage = "ok" => Secrets(r.send) \subseteq spent',
         UNCHANGED <<inventory, pending, paste, lock, locks, fresh, orphans, screen, pays>>
  PROVE  IInv'
<1> USE DEF IInv
<1>1. tab'[t] = r
  BY DEF Made
<1>2. Made'
  BY DEF Made
<1>3. r.stage \notin Numbered /\ r.stage \in InHand
  BY DEF Numbered, AtMint, InHand, Answers
<1>4. NumberedOnce' /\ \A u \in Tabs \ {t} : Sound(u)'
  BY <1>3, NumbersKept
<1>5. Sound(t)'
  <2>1. Sound(t) /\ tab[t].stage \in InHand
    BY DEF InHand, Answers
  <2>2. OwnIsSent(t)'
    BY <1>1, <1>3, <2>1 DEF Sound, OwnIsSent
  <2>3. LoadedIsKept(t)' /\ PaidFor(t)'
    BY <1>1, <1>3, <2>1 DEF Sound, LoadedIsKept, PaidFor, AtMint, Numbered, InHand, Answers
  <2> QED BY <2>2, <2>3 DEF Sound
<1>6. LockHeld' /\ LoadedStays'
  <2>1. r.stage \notin AtMint /\ tab[t].stage \notin AtMint
    BY DEF AtMint, Answers
  <2> QED BY <2>1, LockKept
<1> QED BY <1>2, <1>4, <1>5, <1>6

\* An answer comes, and the token may be spent.
LEMMA ServerKeeps ==
  ASSUME IInv, NEW t \in Tabs, ServerRedeems(t) \/ ServerRefuses(t) PROVE IInv'
<1> USE DEF IInv
<1>1. PICK s \in Answers :
        /\ tab[t].stage = "posted" /\ tab' = [tab EXCEPT ![t].stage = s]
        /\ spent' \in {spent, spent \cup Secrets(tab[t].send)}
        /\ s = "ok" => spent' = spent \cup Secrets(tab[t].send)
        /\ UNCHANGED <<inventory, pending, paste, lock, locks, fresh, orphans, screen, pays>>
  BY DEF ServerRedeems, ServerRefuses, Answers, store, counts
<1> DEFINE r == [tab[t] EXCEPT !.stage = s]
<1>2. tab[t] \in TabRecord(fresh) /\ tab[t].send \in Purse(fresh) /\ tab' = [tab EXCEPT ![t] = r]
  BY <1>1 DEF Made, TabRecord
<1>3. r \in TabRecord(fresh) /\ r.stage = s /\ r.send = tab[t].send /\ r.entry = tab[t].entry
  BY <1>2 DEF TabRecord, Stages
<1>4. spent \subseteq spent' /\ spent' \subseteq 1 .. fresh - 1
  BY <1>1, <1>2 DEF Made, Purse
<1> HIDE DEF r
<1> QED BY <1>1, <1>2, <1>3, <1>4, PresentedKeeps

\* The same token will go out once more.
LEMMA RetryKeeps == ASSUME IInv, NEW t \in Tabs, Retry(t) PROVE IInv'
<1> USE DEF IInv
<1> DEFINE r == [tab[t] EXCEPT !.stage = "posted", !.tried = @ \cup {tab[t].stage}]
<1>1. /\ tab[t].stage \in {"expired", "unreachable"} /\ tab' = [tab EXCEPT ![t] = r]
      /\ UNCHANGED <<inventory, pending, paste, lock, locks, spent, fresh, orphans, screen, pays>>
  BY DEF Retry, Made, store, counts
<1>2. tab[t] \in TabRecord(fresh) /\ spent \subseteq 1 .. fresh - 1
  BY DEF Made
<1>3. r \in TabRecord(fresh) /\ r.stage = "posted" /\ r.send = tab[t].send /\ r.entry = tab[t].entry
  BY <1>1, <1>2 DEF TabRecord, Stages
<1> HIDE DEF r
<1> QED BY <1>1, <1>2, <1>3, PresentedKeeps

\* The entry of a token that was honoured is cleared.
LEMMA GrantedKeeps == ASSUME IInv, NEW t \in Tabs, Granted(t) PROVE IInv'
<1>1. /\ tab[t].stage = "ok" /\ tab' = [tab EXCEPT ![t] = Blank("idle")] /\ pending' \subseteq pending
      /\ UNCHANGED <<inventory, paste, lock, locks, spent, fresh, orphans, screen, pays>>
  BY DEF Granted, ClearPending
<1> QED BY <1>1, EndKeeps DEF IInv, Made, AtMint

\* takeBack: the entry's proofs come home.
LEMMA GivesUpKeeps == ASSUME IInv, NEW t \in Tabs, GivesUp(t) PROVE IInv'
<1>1. /\ tab[t].stage \in {"posted", "failed", "refused"} \cup tab[t].tried
      /\ Reclaim(Own(t)) /\ tab' = [tab EXCEPT ![t] = Blank("idle")]
      /\ orphans' \subseteq orphans \cup {Secrets(tab[t].send)}
      /\ UNCHANGED <<paste, lock, locks, spent, fresh, screen, pays>>
  BY DEF GivesUp, Request
<1>2. Own(t) \in SUBSET pending
  BY DEF Own
<1>3. inventory \subseteq inventory' /\ inventory' \in Purse(fresh) /\ pending' \subseteq pending
  BY <1>1, <1>2, ReclaimMoves
<1>4. tab[t].stage \notin AtMint
  BY <1>1 DEF IInv, Made, TabRecord, AtMint
<1> QED BY <1>1, <1>3, <1>4, EndKeeps DEF IInv, Made

\* Requests without a sender, pasted tokens, and steps of others.
LEMMA PaymentsUntouched ==
  ASSUME IInv, UNCHANGED <<pending, tab, lock, locks, fresh, screen, pays>>,
         inventory \subseteq inventory', inventory' \in Purse(fresh),
         spent \subseteq spent', spent' \subseteq 1 .. fresh - 1, orphans' \subseteq orphans,
         paste' \in [Tabs -> [stage : {"none", "asked", "told"}, proofs : Purse(fresh)]]
  PROVE  IInv'
<1> USE DEF IInv
<1>1. Made'
  BY DEF Made
<1>2. NumberedOnce'
  BY DEF NumberedOnce
<1>3. ASSUME NEW t \in Tabs PROVE Sound(t)'
  BY DEF Sound, OwnIsSent, LoadedIsKept, PaidFor
<1>4. LockHeld' /\ LoadedStays'
  BY DEF LockHeld, LoadedStays
<1> QED BY <1>1, <1>2, <1>3, <1>4

\* A request whose sender is gone arrives or is lost.
LEMMA OrphanKeeps ==
  ASSUME IInv, NEW o \in orphans, OrphanArrives(o) \/ OrphanLost(o) PROVE IInv'
<1>1. /\ orphans' \subseteq orphans /\ spent' \in {spent, spent \cup o}
      /\ UNCHANGED <<inventory, pending, tab, paste, lock, locks, fresh, screen, pays>>
  BY DEF OrphanArrives, OrphanLost, store, counts
<1>2. o \subseteq 1 .. fresh - 1 /\ spent \subseteq 1 .. fresh - 1
  BY DEF IInv, Made
<1> QED BY <1>1, <1>2, PaymentsUntouched DEF IInv, Made

\* A token is pasted.
LEMMA PasteKeeps ==
  ASSUME IInv, NEW t \in Tabs, NEW token \in Paper, Paste(t, token) PROVE IInv'
<1> DEFINE new == {p \in token : Key(p) \notin Keys(inventory)}
<1>1. /\ paste' = [paste EXCEPT ![t] = [stage |-> "asked", proofs |-> new]]
      /\ UNCHANGED <<inventory, pending, tab, lock, locks, spent, fresh, orphans, screen, pays>>
  BY DEF Paste, Pastes, store
<1>2. new \in Purse(fresh)
  <2>1. new \subseteq Held \cup UNION Paper
    OBVIOUS
  <2> HIDE DEF new
  <2>2. IsFiniteSet(new) /\ new \subseteq Proof
    BY <2>1, FS_Subset, WalletAssumption
  <2>3. Secrets(new) \subseteq FirstSecrets
    BY <2>1 DEF Secrets, FirstSecrets
  <2> QED BY <2>2, <2>3 DEF Purse, IInv, Made
<1> HIDE DEF new
<1>3. paste' \in [Tabs -> [stage : {"none", "asked", "told"}, proofs : Purse(fresh)]]
  BY <1>1, <1>2 DEF IInv, Made
<1> QED BY <1>1, <1>3, PaymentsUntouched DEF IInv, Made

\* The mint answers which of its proofs are spent.
LEMMA CheckedKeeps == ASSUME IInv, NEW t \in Tabs, Checked(t) PROVE IInv'
<1>1. PICK S \in SUBSET paste[t].proofs :
        /\ paste' = [paste EXCEPT ![t] = [stage |-> "told", proofs |-> S]]
        /\ UNCHANGED <<inventory, pending, tab, lock, locks, spent, fresh, orphans, screen, pays>>
  BY DEF Checked, Pastes, store, counts
<1>2. paste[t].proofs \in Purse(fresh) /\ fresh \in Nat
  BY DEF IInv, Made
<1>3. S \in Purse(fresh)
  BY <1>2, PurseKeeps
<1>4. paste' \in [Tabs -> [stage : {"none", "asked", "told"}, proofs : Purse(fresh)]]
  BY <1>1, <1>3 DEF IInv, Made
<1> QED BY <1>1, <1>4, PaymentsUntouched DEF IInv, Made

\* Those that are not are merged into the inventory.
LEMMA AddedKeeps == ASSUME IInv, NEW t \in Tabs, Added(t) PROVE IInv'
<1>1. /\ inventory' \in {inventory, MergeProofs(inventory, paste[t].proofs)}
      /\ paste' = [paste EXCEPT ![t] = [stage |-> "none", proofs |-> {}]]
      /\ UNCHANGED <<pending, tab, lock, locks, spent, fresh, orphans, screen, pays>>
  BY DEF Added, Pastes, Merge
<1>2. paste[t].proofs \in Purse(fresh) /\ inventory \in Purse(fresh) /\ fresh \in Nat
  BY DEF IInv, Made
<1>3. /\ MergeProofs(inventory, paste[t].proofs) \in Purse(fresh) /\ {} \in Purse(fresh)
      /\ inventory \subseteq MergeProofs(inventory, paste[t].proofs)
  BY <1>2, MergeKeeps, PurseKeeps
<1>4. paste' \in [Tabs -> [stage : {"none", "asked", "told"}, proofs : Purse(fresh)]]
  BY <1>1, <1>3 DEF IInv, Made
<1> QED BY <1>1, <1>2, <1>3, <1>4, PaymentsUntouched DEF IInv, Made

\* Every action keeps the inductive invariant.
LEMMA NextIInv == IInv /\ [Next]_vars => IInv'
<1> SUFFICES ASSUME IInv, [Next]_vars PROVE IInv'
  OBVIOUS
<1>1. ASSUME NEW t \in Tabs, Open(t) \/ Close(t) \/ PressPay(t) PROVE IInv'
  BY <1>1, OpenKeeps, CloseKeeps, PressPayKeeps
<1>2. ASSUME NEW t \in Tabs, Proceed(t) PROVE IInv'
  <2>1. CASE Load(t) \/ MintSwaps(t) \/ SwapThrows(t) \/ Commit(t)
    BY <2>1, LoadKeeps, MintSwapsKeeps, SwapThrowsKeeps, CommitKeeps
  <2>2. CASE Present(t) \/ ServerRedeems(t) \/ ServerRefuses(t)
    BY <2>2, PresentKeeps, ServerKeeps
  <2>3. CASE Granted(t) \/ Retry(t) \/ GivesUp(t)
    BY <2>3, GrantedKeeps, RetryKeeps, GivesUpKeeps
  <2> QED BY <1>2, <2>1, <2>2, <2>3 DEF Proceed
<1>3. ASSUME NEW t \in Tabs, Checked(t) \/ Added(t) PROVE IInv'
  BY <1>3, CheckedKeeps, AddedKeeps
<1>4. ASSUME NEW t \in Tabs, NEW token \in Paper, Paste(t, token) PROVE IInv'
  BY <1>4, PasteKeeps
<1>5. ASSUME NEW o \in orphans, OrphanArrives(o) \/ OrphanLost(o) PROVE IInv'
  BY <1>5, OrphanKeeps
<1>6. CASE UNCHANGED vars
  BY <1>6, PaymentsUntouched DEF IInv, Made, vars, store, counts
<1> QED BY <1>1, <1>2, <1>3, <1>4, <1>5, <1>6 DEF Next

------------------------------------------------------------------------------

\* The strengthening holds in every reachable state.
THEOREM Invariance == Spec => []IInv
<1> QED BY InitIInv, NextIInv, PTL DEF Spec

\* Storage, tabs and mint keep their types, and the amounts of what is presented
\* add up to the price (payPopRequest's check of produced), whatever tokens are
\* pasted.  A proof that is held twice counts twice in it: such a token adds up
\* too, and is refused.
THEOREM TypeCorrect == Spec => []TypeOK
<1> QED BY Invariance, IInvGivesTypes, PTL

\* With Web Locks, what payPopRequest has loaded stays in the inventory until it
\* commits (wallet.ts, withInventoryLock).
THEOREM LoadedIsThere == Spec => []LoadedStays
<1>1. IInv => LoadedStays
  BY DEF IInv
<1> QED BY <1>1, Invariance, PTL

------------------------------------------------------------------------------
(* Nothing is lost. *)

Keeps == Recoverable \ spent' \subseteq Recoverable'

\* In storage there is no less than there was, but for what is spent.
LEMMA StoredKeeps ==
  ASSUME Secrets(inventory \cup InPending) \ spent' \subseteq Secrets(inventory' \cup InPending'),
         screen \subseteq screen'
  PROVE  Keeps
  BY DEF Keeps, Recoverable, Secrets

\* What leaves the inventory at a commit is in the stash, or spent.
LEMMA CommitLosesNothing == ASSUME IInv, NEW t \in Tabs, Commit(t) PROVE Keeps
<1> USE DEF IInv
<1>1. PICK atRisk \in Purse(fresh), saved, stashed \in BOOLEAN :
           /\ tab[t].send \subseteq atRisk
           /\ saved \/ atRisk = tab[t].keep \cup tab[t].send
           /\ inventory' = IF saved THEN NewInventory(t) ELSE inventory
           /\ pending' = IF stashed THEN Stash(atRisk, tab[t].no) ELSE pending
           /\ screen' \in {screen, screen \cup atRisk}
           /\ \/ tab' = [tab EXCEPT ![t].stage = "committed"] /\ saved /\ stashed /\ atRisk = tab[t].send
              \/ tab' = [tab EXCEPT ![t] = Blank("idle")] /\ screen' = screen \cup atRisk
  BY CommitWrites
<1>2. tab[t].stage = "swapped" /\ spent' = spent
  BY DEF Commit
<1>3. pending \subseteq pending' /\ (stashed => \E e \in pending' : Secrets(e.proofs) = Secrets(atRisk))
  BY <1>1, <1>2, StashAdds DEF Numbered, AtMint
<1>4. InPending \subseteq InPending' /\ (stashed => Secrets(atRisk) \subseteq Secrets(InPending'))
  <2>1. \A e \in pending' : e.proofs \subseteq InPending'
    BY DEF InPending
  <2>2. InPending \subseteq InPending'
    BY <1>3 DEF InPending
  <2> QED BY <1>3, <2>1, <2>2 DEF Secrets
<1>5. Secrets(tab[t].send) \subseteq Secrets(InPending' \cup screen')
  BY <1>1, <1>4 DEF Secrets
<1>6. ASSUME saved, NEW p \in inventory, p.secret \notin spent
      PROVE  p.secret \in Secrets(inventory' \cup InPending' \cup screen')
  <2>1. inventory' = NewInventory(t) /\ tab[t].keep \subseteq inventory'
    BY <1>1, <1>6, NewInventoryKeeps
  <2>2. p.secret \in Secrets(tab[t].loaded) \cup Secrets(inventory')
    BY <2>1, NewInventoryKeeps DEF Secrets
  <2>3. p.secret \in Secrets(tab[t].keep) \cup Secrets(tab[t].send) \cup Secrets(inventory')
    BY <1>2, <1>6, <2>2 DEF Sound, LoadedIsKept, AtMint
  <2> QED BY <1>5, <2>1, <2>3 DEF Secrets
<1>7. screen \subseteq screen' /\ (~saved => inventory' = inventory)
  BY <1>1
<1> QED BY <1>2, <1>4, <1>6, <1>7 DEF Keeps, Recoverable, Secrets

\* What leaves the stash with a 200 is spent.
LEMMA GrantedLosesNothing == ASSUME IInv, NEW t \in Tabs, Granted(t) PROVE Keeps
<1> USE DEF IInv
<1>1. /\ tab[t].stage = "ok" /\ spent' = spent /\ inventory' = inventory /\ screen' = screen
      /\ pending \ Own(t) \subseteq pending'
  BY DEF Granted, ClearPending
<1>2. \A e \in Own(t) : Secrets(e.proofs) = Secrets(tab[t].send)
  BY DEF Own, Sound, OwnIsSent
<1>3. Secrets(tab[t].send) \subseteq spent
  BY <1>1 DEF Sound, OwnIsSent
<1>4. ASSUME NEW p \in InPending PROVE p \in InPending' \/ p.secret \in spent
  <2>1. PICK e \in pending : p \in e.proofs
    BY DEF InPending
  <2>2. CASE e \in Own(t)
    <3>1. p.secret \in Secrets(e.proofs)
      BY <2>1 DEF Secrets
    <3> QED BY <1>2, <1>3, <2>2, <3>1
  <2>3. CASE e \notin Own(t)
    BY <1>1, <2>1, <2>3 DEF InPending
  <2> QED BY <2>2, <2>3
<1> QED BY <1>1, <1>3, <1>4 DEF Keeps, Recoverable, Secrets

\* Whatever tabs, mint and player do, a proof that can be found again can be
\* found again until it is spent (commit, takeBack, clearPendingPresentation).
THEOREM LosesNothing == Spec => NothingLost
<1>1. ASSUME IInv, [Next]_vars PROVE [Keeps]_vars
  <2>1. CASE store' = store /\ screen' = screen
    BY <2>1 DEF Keeps, Recoverable, InPending, store
  <2>2. ASSUME NEW t \in Tabs, Open(t) \/ GivesUp(t) PROVE Keeps
    <3>1. PICK E \in SUBSET pending : Reclaim(E) /\ screen' = screen
      BY <2>2 DEF Open, GivesUp, Own
    <3>2. Secrets(inventory \cup InPending) \subseteq Secrets(inventory' \cup InPending')
      BY <1>1, <3>1, ReclaimMoves
    <3> QED BY <3>1, <3>2, StoredKeeps
  <2>3. ASSUME NEW t \in Tabs, Added(t) PROVE Keeps
    <3>1. inventory \subseteq inventory' /\ pending' = pending /\ screen' = screen
      BY <2>3 DEF Added, Merge, MergeProofs
    <3> QED BY <3>1, StoredKeeps DEF Secrets, InPending
  <2>4. ASSUME NEW t \in Tabs, Close(t) \/ PressPay(t) \/ Checked(t)
        PROVE  store' = store /\ screen' = screen
    BY <2>4 DEF Close, PressPay, Checked, store
  <2>5. ASSUME NEW t \in Tabs, \/ Load(t) \/ MintSwaps(t) \/ SwapThrows(t) \/ Present(t)
                               \/ ServerRedeems(t) \/ ServerRefuses(t) \/ Retry(t)
        PROVE  store' = store /\ screen' = screen
    BY <2>5 DEF Load, MintSwaps, SwapThrows, Present, ServerRedeems, ServerRefuses, Retry, store
  <2>6. ASSUME NEW t \in Tabs, NEW token \in Paper, Paste(t, token)
        PROVE  store' = store /\ screen' = screen
    BY <2>6 DEF Paste, store
  <2>7. ASSUME NEW o \in orphans, OrphanArrives(o) \/ OrphanLost(o)
        PROVE  store' = store /\ screen' = screen
    BY <2>7 DEF OrphanArrives, OrphanLost, store
  <2>8. ASSUME NEW t \in Tabs, Commit(t) \/ Granted(t) PROVE Keeps
    BY <1>1, <2>8, CommitLosesNothing, GrantedLosesNothing
  <2> QED BY <1>1, <2>1, <2>2, <2>3, <2>4, <2>5, <2>6, <2>7, <2>8 DEF Next, Proceed
<1>2. IInv /\ [Next]_vars => [Recoverable \ spent' \subseteq Recoverable']_vars
  BY <1>1 DEF Keeps
<1> QED BY <1>2, Invariance, PTL DEF Spec, NothingLost

------------------------------------------------------------------------------
(* The payers. *)

\* Nothing moved before the checks were passed.
NothingMoved ==
  call.stage \in {"bare", "challenged"} =>
    /\ call.paid = 0 /\ call.token = 0 /\ call.presented = 0
    /\ call.unreachable = 0 /\ call.expired = 0

\* One presentation, and one more for each retry; none for fetchWithPop.
OnePerRetry ==
  /\ call.stage = "paid" => call.presented = call.unreachable + call.expired
  /\ call.stage = "presented" => call.presented = call.unreachable + call.expired + 1
  /\ call.payer = "fetchWithPop" => call.unreachable = 0 /\ call.expired = 0
  /\ call.stage # "idle" => call.payer \in {"payGate", "fetchWithPop"}

\* The challenge at hand is one the payer could read.
SeenIsRead ==
  /\ call.stage # "idle" /\ call.stage # "bare" => seen \in Offers
  /\ call.stage = "challenged" /\ call.payer = "fetchWithPop" => Detects(seen)
  /\ call.stage \in {"paid", "presented"} =>
       IF call.payer = "payGate" THEN ChallengeOf(seen) ELSE Detects(seen)

PayersIInv ==
  /\ PayersTypeOK
  /\ NothingMoved
  /\ OnePerRetry
  /\ SeenIsRead
  /\ WithinBudget
  /\ EchoVerifies

------------------------------------------------------------------------------
(* The codecs. *)

\* The text of an object of values is a set of names with their values.
LEMMA SealedText ==
  ASSUME NEW c
  PROVE  Jcs([p \in Issued(c) |-> Value(c, FALSE)])
           = {<<p, Value(c, FALSE)>> : p \in Issued(c)}
  BY DEF Jcs

\* A credential of charge01.ts holds what the verifier seals, all of it and
\* nothing else, unless a foreign scheme hid the parameter next to it.
LEMMA PlainEcho ==
  ASSUME NEW c, c.first \in DOMAIN c.params
  PROVE  /\ BuildCredential(c) \subseteq Known \X Values({c})
         /\ Verifies(BuildCredential(c), c) <=> ~Unechoed("payGate", c)
<1>1. BuildCredential(c) = {<<p, Value(c, FALSE)>> : p \in Read(c)}
  BY DEF BuildCredential, Jcs
<1>2. Read(c) \subseteq Issued(c) /\ Issued(c) \subseteq Known
  BY DEF Read, Issued
<1>3. BuildCredential(c) \subseteq Known \X Values({c})
  <2>1. Value(c, FALSE) \in Values({c})
    BY DEF Value, Values
  <2>2. ASSUME NEW x \in BuildCredential(c) PROVE x \in Known \X Values({c})
    <3>1. PICK p \in Read(c) : x = <<p, Value(c, FALSE)>>
      BY <1>1
    <3> QED BY <1>2, <2>1, <3>1
  <2> QED BY <2>2
<1>4. Read(c) = Issued(c) <=> ~Unechoed("payGate", c)
  <2>1. c.first \in Issued(c) <=> c.first \in Known
    BY DEF Issued
  <2> QED BY <2>1 DEF Read, Unechoed
<1>5. Verifies(BuildCredential(c), c) <=> Read(c) = Issued(c)
  <2>1. ASSUME Verifies(BuildCredential(c), c), NEW p \in Issued(c)
        PROVE  p \in Read(c)
    <3>1. BuildCredential(c) = {<<q, Value(c, FALSE)>> : q \in Issued(c)}
      BY <2>1, SealedText DEF Verifies
    <3>2. <<p, Value(c, FALSE)>> \in {<<q, Value(c, FALSE)>> : q \in Read(c)}
      BY <1>1, <2>1, <3>1
    <3> QED BY <3>2
  <2>2. ASSUME Read(c) = Issued(c)
        PROVE  Verifies(BuildCredential(c), c)
    BY <1>1, <2>2, SealedText DEF Verifies
  <2> QED BY <1>2, <2>1, <2>2
<1> QED BY <1>3, <1>4, <1>5

\* The envelope's echo of a challenge it detected holds what is sealed, unless
\* that has an option it does not carry, or a value it did not read in full.
LEMMA EnvelopeEcho ==
  ASSUME NEW c
  PROVE  /\ BuildPaymentCredential(c) \subseteq Known \X Values({c})
         /\ Detects(c) =>
              (Verifies(BuildPaymentCredential(c), c) <=> ~Unechoed("fetchWithPop", c))
<1> DEFINE Of(p) == Value(c, c.params[p] = "escaped")
<1>1. BuildPaymentCredential(c) = {<<p, Of(p)>> : p \in Carried(c)}
  BY DEF BuildPaymentCredential, Jcs
<1>2. Carried(c) \subseteq Issued(c) /\ Issued(c) \subseteq Known
  BY DEF Carried, Issued
<1>3. BuildPaymentCredential(c) \subseteq Known \X Values({c})
  <2>1. \A p : Of(p) \in Values({c})
    BY DEF Value, Values
  <2> QED BY <1>1, <1>2, <2>1
<1>4. \A p : Of(p) = Value(c, FALSE) <=> c.params[p] # "escaped"
  BY DEF Value
<1>5. ASSUME Detects(c)
      PROVE  Verifies(BuildPaymentCredential(c), c) <=> ~Unechoed("fetchWithPop", c)
  <2>1. ASSUME Verifies(BuildPaymentCredential(c), c)
        PROVE  ~Unechoed("fetchWithPop", c)
    <3>1. \A p \in Issued(c) : p \in Carried(c) /\ c.params[p] # "escaped"
      <4> SUFFICES ASSUME NEW p \in Issued(c)
                   PROVE  p \in Carried(c) /\ c.params[p] # "escaped"
        OBVIOUS
      <4>1. <<p, Value(c, FALSE)>> \in BuildPaymentCredential(c)
        BY <2>1, SealedText DEF Verifies
      <4>2. PICK q \in Carried(c) : <<p, Value(c, FALSE)>> = <<q, Of(q)>>
        BY <1>1, <4>1
      <4> HIDE DEF Of
      <4> QED BY <1>4, <4>2
    <3>2. \A p \in Issued(c) : p \in Required \cup {"expires"} /\ c.params[p] # "empty"
      BY <3>1 DEF Carried
    <3> QED BY <3>1, <3>2 DEF Unechoed, Required
  <2>2. ASSUME ~Unechoed("fetchWithPop", c)
        PROVE  Verifies(BuildPaymentCredential(c), c)
    <3>1. \A p \in Issued(c) : c.params[p] # "empty" /\ c.params[p] # "escaped"
                             /\ p \in Required \cup {"expires"}
      BY <1>5, <2>2, <1>2 DEF Unechoed, Detects, Known
    <3>2. Carried(c) = Issued(c)
      BY <3>1 DEF Carried
    <3>3. \A p \in Issued(c) : Of(p) = Value(c, FALSE)
      BY <1>4, <3>1
    <3>4. {<<p, Of(p)>> : p \in Carried(c)} = {<<p, Value(c, FALSE)>> : p \in Issued(c)}
      BY <3>2, <3>3
    <3> QED BY <1>1, <3>4, SealedText DEF Verifies
  <2> QED BY <2>1, <2>2
<1> QED BY <1>3, <1>5

------------------------------------------------------------------------------

\* A call stays a call when one field of it takes another value.
LEMMA CallUpdates ==
  ASSUME NEW c \in Call
  PROVE  /\ \A s \in {"idle", "bare", "challenged", "paid", "presented"} :
              [c EXCEPT !.stage = s] \in Call
         /\ \A a \in Offers : [c EXCEPT !.agreed = a] \in Call
         /\ \A n \in 0 .. Balance : [c EXCEPT !.token = n] \in Call
         /\ \A n \in 0 .. Balance : [c EXCEPT !.paid = n] \in Call
         /\ \A n \in 0 .. 3 : [c EXCEPT !.presented = n] \in Call
         /\ [c EXCEPT !.unreachable = 1] \in Call
         /\ [c EXCEPT !.expired = 1] \in Call
<1>1. \A s \in {"idle", "bare", "challenged", "paid", "presented"} :
        [c EXCEPT !.stage = s] \in Call
  BY DEF Call
<1>2. \A a \in Offers : [c EXCEPT !.agreed = a] \in Call
  BY DEF Call
<1>3. \A n \in 0 .. Balance : [c EXCEPT !.token = n] \in Call
  BY DEF Call
<1>4. \A n \in 0 .. Balance : [c EXCEPT !.paid = n] \in Call
  BY DEF Call
<1>5. \A n \in 0 .. 3 : [c EXCEPT !.presented = n] \in Call
  BY DEF Call
<1>6. [c EXCEPT !.unreachable = 1] \in Call /\ [c EXCEPT !.expired = 1] \in Call
  BY DEF Call
<1> QED BY <1>1, <1>2, <1>3, <1>4, <1>5, <1>6

\* The initial states have the inductive invariant: nothing was asked for.
LEMMA PayersInitIInv == PayersInit => PayersIInv
<1> USE PayersAssumption
<1> SUFFICES ASSUME PayersInit PROVE PayersIInv
  OBVIOUS
<1>1. PayersTypeOK
  BY DEF PayersInit, PayersTypeOK, Call, NoCall, NothingSent
<1>2. NothingMoved /\ OnePerRetry /\ SeenIsRead /\ EchoVerifies
  BY DEF PayersInit, NoCall, NothingMoved, OnePerRetry, SeenIsRead, EchoVerifies
<1>3. WithinBudget
  BY DEF PayersInit, NoCall, WithinBudget
<1> QED BY <1>1, <1>2, <1>3 DEF PayersIInv

\* A call that returns or throws leaves everything as it was found.
LEMMA EndsIInv == ASSUME PayersIInv, Ends PROVE PayersIInv'
<1> USE DEF PayersIInv, Ends
<1>1. PayersTypeOK'
  BY DEF PayersTypeOK, Call
<1>2. NothingMoved' /\ OnePerRetry' /\ SeenIsRead' /\ EchoVerifies'
  BY DEF PayersTypeOK, Call, NothingMoved, OnePerRetry, SeenIsRead, EchoVerifies
<1>3. WithinBudget'
  BY DEF PayersTypeOK, Call, WithinBudget
<1> QED BY <1>1, <1>2, <1>3

\* The checks before the swap bound what it takes.
LEMMA PaysIInv ==
  ASSUME PayersIInv, call.stage = "challenged", Agrees(seen), Covers(seen.creqa),
         call' = [call EXCEPT !.stage = "paid", !.agreed = seen,
                    !.token = seen.creqa.amount, !.paid = @ + seen.creqa.amount],
         UNCHANGED <<seen, sent>>
  PROVE  PayersIInv'
<1> USE PayersAssumption DEF PayersIInv
<1>1. seen \in Offers /\ seen # None /\ seen.creqa.amount \in Nat /\ seen.creqa.unit = Unit
  BY DEF SeenIsRead, IsChallenge, Creqa, Covers
<1>2. call.paid = 0 /\ call.token = 0 /\ call.presented = 0 /\ call.unreachable = 0
      /\ call.expired = 0
  BY DEF NothingMoved
<1>3. seen.creqa.amount \in 0 .. Balance
  BY <1>1, <1>2 DEF Covers
<1>4. /\ call'.stage = "paid" /\ call'.agreed = seen
      /\ call'.token = seen.creqa.amount /\ call'.paid = seen.creqa.amount
      /\ call'.payer = call.payer /\ call'.cap = call.cap /\ call'.presented = 0
      /\ call'.unreachable = 0 /\ call'.expired = 0
  BY <1>1, <1>2 DEF PayersTypeOK, Call
<1>5. PayersTypeOK'
  <2>1. call' \in Call
    <3>1. [call EXCEPT !.stage = "paid"] \in Call
      BY CallUpdates DEF PayersTypeOK
    <3>2. [call EXCEPT !.stage = "paid", !.agreed = seen] \in Call
      BY <1>1, <3>1, CallUpdates
    <3>3. [call EXCEPT !.stage = "paid", !.agreed = seen,
                       !.token = seen.creqa.amount] \in Call
      BY <1>3, <3>2, CallUpdates
    <3>4. call.paid + seen.creqa.amount \in 0 .. Balance
      BY <1>2, <1>3
    <3> QED BY <3>3, <3>4, CallUpdates
  <2> QED BY <1>1, <1>4, <2>1 DEF PayersTypeOK
<1>6. NothingMoved' /\ OnePerRetry' /\ EchoVerifies'
  BY <1>4 DEF NothingMoved, OnePerRetry, EchoVerifies
<1>7. SeenIsRead'
  BY <1>1, <1>4 DEF SeenIsRead, Agrees, OnePerRetry
<1>8. WithinBudget'
  <2>1. call.cap # NoCap => seen.creqa.amount <= call.cap
    BY DEF Agrees
  <2>2. Mint \in seen.creqa.mints \/ (call.payer = "fetchWithPop" /\ seen.creqa.mints = {})
    BY DEF Agrees, Covers, OnePerRetry
  <2> QED BY <1>1, <1>4, <2>1, <2>2 DEF WithinBudget
<1> QED BY <1>5, <1>6, <1>7, <1>8

\* What goes out is an echo of the challenge at hand.
LEMMA PresentsIInv == ASSUME PayersIInv, Presents PROVE PayersIInv'
<1> USE DEF PayersIInv, Presents
<1>1. /\ call'.stage = "presented" /\ call'.presented = call.presented + 1
      /\ call'.payer = call.payer /\ call'.cap = call.cap /\ call'.agreed = call.agreed
      /\ call'.token = call.token /\ call'.paid = call.paid
      /\ call'.unreachable = call.unreachable /\ call'.expired = call.expired
  BY DEF PayersTypeOK, Call
<1>2. seen \in Offers /\ call.presented = call.unreachable + call.expired
      /\ call.unreachable \in 0 .. 1 /\ call.expired \in 0 .. 1 /\ call.agreed # None
  BY DEF SeenIsRead, OnePerRetry, PayersTypeOK, Call
<1>3. seen.first \in DOMAIN seen.params
  BY <1>2, PayersAssumption DEF IsChallenge
<1>4. sent' \subseteq Known \X Values({seen})
  BY <1>3, PlainEcho, EnvelopeEcho DEF Authorization
<1>5. PayersTypeOK'
  <2>1. call' \in Call
    <3>1. [call EXCEPT !.stage = "presented"] \in Call
      BY CallUpdates DEF PayersTypeOK
    <3>2. call.presented + 1 \in 0 .. 3
      BY <1>2
    <3> QED BY <3>1, <3>2, CallUpdates
  <2>2. sent' \subseteq Known \X Values(Offers)
    <3>1. Values({seen}) \subseteq Values(Offers)
      BY <1>2 DEF Values
    <3> QED BY <1>4, <3>1
  <2> QED BY <1>1, <1>2, <2>1, <2>2 DEF PayersTypeOK
<1>6. NothingMoved' /\ OnePerRetry' /\ SeenIsRead'
  BY <1>1, <1>2 DEF NothingMoved, OnePerRetry, SeenIsRead
<1>7. WithinBudget'
  BY <1>1, <1>2 DEF WithinBudget, OnePerRetry
<1>8. EchoVerifies'
  <2>1. CASE call.payer = "payGate"
    <3>1. sent' = BuildCredential(seen)
      BY <2>1 DEF Authorization
    <3> QED BY <1>1, <1>3, <1>4, <2>1, <3>1, PlainEcho DEF EchoVerifies
  <2>2. CASE call.payer = "fetchWithPop"
    <3>1. sent' = BuildPaymentCredential(seen) /\ Detects(seen)
      BY <2>2 DEF Authorization, SeenIsRead
    <3> QED BY <1>1, <1>4, <2>2, <3>1, EnvelopeEcho DEF EchoVerifies
  <2> QED BY <2>1, <2>2 DEF OnePerRetry
<1> QED BY <1>5, <1>6, <1>7, <1>8

\* A retry of payGate is counted, and keeps the token and what was agreed.
LEMMA RetryIInv ==
  ASSUME PayersIInv, NEW c \in Offers, ChallengeOf(c),
         call.stage = "presented", call.payer = "payGate",
         \/ /\ call.unreachable = 0
            /\ call' = [call EXCEPT !.stage = "paid", !.unreachable = 1]
         \/ /\ call.expired = 0
            /\ call' = [call EXCEPT !.stage = "paid", !.expired = 1],
         seen' = c, UNCHANGED sent
  PROVE  PayersIInv'
<1> USE PayersAssumption DEF PayersIInv
<1>1. /\ call'.stage = "paid" /\ call'.payer = "payGate" /\ call'.cap = call.cap
      /\ call'.agreed = call.agreed /\ call'.token = call.token /\ call'.paid = call.paid
      /\ call'.presented = call.presented
      /\ call'.presented = call'.unreachable + call'.expired
  <2> DEFINE Kept == /\ call'.stage = "paid" /\ call'.payer = "payGate" /\ call'.cap = call.cap
                     /\ call'.agreed = call.agreed /\ call'.token = call.token
                     /\ call'.paid = call.paid /\ call'.presented = call.presented
  <2>1. /\ call.presented = call.unreachable + call.expired + 1
        /\ call.unreachable \in 0 .. 1 /\ call.expired \in 0 .. 1
    BY DEF OnePerRetry, PayersTypeOK, Call
  <2>2. CASE /\ call.unreachable = 0
             /\ call' = [call EXCEPT !.stage = "paid", !.unreachable = 1]
    <3>1. Kept /\ call'.unreachable = 1 /\ call'.expired = call.expired
      BY <2>2 DEF PayersTypeOK, Call
    <3> QED BY <2>1, <2>2, <3>1
  <2>3. CASE /\ call.expired = 0
             /\ call' = [call EXCEPT !.stage = "paid", !.expired = 1]
    <3>1. Kept /\ call'.expired = 1 /\ call'.unreachable = call.unreachable
      BY <2>3 DEF PayersTypeOK, Call
    <3> QED BY <2>1, <2>3, <3>1
  <2> QED BY <2>2, <2>3
<1>2. c # None /\ call.agreed # None
  BY DEF PayersTypeOK, Call
<1>3. PayersTypeOK'
  <2>1. call' \in Call
    <3>1. [call EXCEPT !.stage = "paid"] \in Call
      BY CallUpdates DEF PayersTypeOK
    <3> QED BY <3>1, CallUpdates
  <2> QED BY <1>1, <1>2, <2>1 DEF PayersTypeOK
<1>4. NothingMoved' /\ OnePerRetry' /\ SeenIsRead' /\ EchoVerifies'
  BY <1>1, <1>2 DEF NothingMoved, OnePerRetry, SeenIsRead, EchoVerifies
<1>5. WithinBudget'
  BY <1>1 DEF WithinBudget
<1> QED BY <1>3, <1>4, <1>5

\* Every action keeps the inductive invariant.
LEMMA PayersNextIInv == PayersIInv /\ [PayersNext]_payersVars => PayersIInv'
<1> SUFFICES ASSUME PayersIInv, [PayersNext]_payersVars
             PROVE  PayersIInv'
  OBVIOUS
<1>1. ASSUME NEW payer \in {"payGate", "fetchWithPop"}, NEW cap \in Caps \cup {NoCap},
             NEW already \in BOOLEAN, Start(payer, cap, already)
      PROVE  PayersIInv'
  <2> USE PayersAssumption
  <2>1. call' = [payer |-> payer, cap |-> cap, already |-> already, stage |-> "bare",
                 agreed |-> None, token |-> 0, paid |-> 0, presented |-> 0,
                 unreachable |-> 0, expired |-> 0]
        /\ seen' = None /\ sent' = {}
    BY <1>1 DEF Start, NoCall, NothingSent
  <2>2. PayersTypeOK'
    BY <2>1 DEF PayersTypeOK, Call
  <2>3. NothingMoved' /\ OnePerRetry' /\ SeenIsRead' /\ EchoVerifies'
    BY <2>1 DEF NothingMoved, OnePerRetry, SeenIsRead, EchoVerifies
  <2>4. WithinBudget'
    <3>1. cap # NoCap => cap \in Nat
      OBVIOUS
    <3> QED BY <2>1, <3>1 DEF WithinBudget
  <2> QED BY <2>2, <2>3, <2>4 DEF PayersIInv
<1>2. CASE BareAnswer \/ Refuses \/ Answered
  BY <1>2, EndsIInv DEF BareAnswer, Refuses, Answered
<1>3. CASE Pays
  BY <1>3, PaysIInv, EndsIInv DEF Pays
<1>4. CASE Presents
  BY <1>4, PresentsIInv
<1>5. CASE Unreachable
  <2>1. CASE call.payer = "payGate" /\ call.unreachable = 0
    <3>1. seen \in Offers /\ ChallengeOf(seen)
      BY <1>5, <2>1 DEF Unreachable, PayersIInv, SeenIsRead
    <3> QED BY <1>5, <2>1, <3>1, RetryIInv DEF Unreachable
  <2>2. CASE ~(call.payer = "payGate" /\ call.unreachable = 0)
    BY <1>5, <2>2, EndsIInv DEF Unreachable
  <2> QED BY <2>1, <2>2
<1>6. ASSUME NEW c \in Offers, Challenged(c)
      PROVE  PayersIInv'
  <2> USE <1>6, PayersAssumption DEF Challenged, PayersIInv
  <2>1. /\ call'.stage = "challenged" /\ call'.payer = call.payer /\ call'.cap = call.cap
        /\ call'.agreed = call.agreed /\ call'.token = call.token /\ call'.paid = call.paid
        /\ call'.presented = call.presented
        /\ call'.unreachable = call.unreachable /\ call'.expired = call.expired
        /\ c # None
    BY DEF PayersTypeOK, Call
  <2>2. PayersTypeOK'
    BY DEF PayersTypeOK, Call
  <2>3. NothingMoved' /\ OnePerRetry' /\ SeenIsRead' /\ EchoVerifies'
    BY <2>1 DEF NothingMoved, OnePerRetry, SeenIsRead, EchoVerifies
  <2>4. WithinBudget'
    BY <2>1 DEF WithinBudget
  <2> QED BY <2>2, <2>3, <2>4
<1>7. ASSUME NEW c \in Offers, Expired(c)
      PROVE  PayersIInv'
  <2>1. CASE call.payer = "payGate" /\ call.expired = 0 /\ ChallengeOf(c)
    BY <1>7, <2>1, RetryIInv DEF Expired
  <2>2. CASE ~(call.payer = "payGate" /\ call.expired = 0 /\ ChallengeOf(c))
    BY <1>7, <2>2, EndsIInv DEF Expired
  <2> QED BY <2>1, <2>2
<1>8. CASE UNCHANGED payersVars
  BY <1>8 DEF payersVars, PayersIInv, PayersTypeOK, Call, NothingMoved, OnePerRetry,
            SeenIsRead, WithinBudget, EchoVerifies
<1> QED BY <1>1, <1>2, <1>3, <1>4, <1>5, <1>6, <1>7, <1>8 DEF PayersNext

\* The strengthening holds in every reachable state.
THEOREM PayersInvariance == PayersSpec => []PayersIInv
  BY PayersInitIInv, PayersNextIInv, PTL DEF PayersSpec

\* The variables keep their types; a token goes out three times at most.
THEOREM PayersTypeCorrect == PayersSpec => []PayersTypeOK
<1>1. PayersIInv => PayersTypeOK
  BY DEF PayersIInv
<1> QED BY <1>1, PayersInvariance, PTL

\* No server, whatever challenges it issues in whatever order, gets more out of
\* a wallet than the caller of payGate or fetchWithPop approved, gets it in more
\* than one token or in another unit, or for a mint that is not the wallet's.
THEOREM StaysWithinBudget == PayersSpec => []WithinBudget
<1>1. PayersIInv => WithinBudget
  BY DEF PayersIInv
<1> QED BY <1>1, PayersInvariance, PTL

\* What is presented answers the challenge issued last, after any retries, and
\* passes its seal exactly when the header has none of the forms Unechoed names.
THEOREM EchoesVerify == PayersSpec => []EchoVerifies
<1>1. PayersIInv => EchoVerifies
  BY DEF PayersIInv
<1> QED BY <1>1, PayersInvariance, PTL
==============================================================================
