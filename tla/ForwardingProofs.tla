--------------------------- MODULE ForwardingProofs ---------------------------
(***************************************************************************)
(* The forwarding service follows the store, for any paths, segments and   *)
(* records.                                                                *)
(*                                                                         *)
(* What the service should know of is one set of paths, which a startup    *)
(* fills one by one and commands then change.  The invariant says that the *)
(* trie has terminals where that set is outermost and nowhere else, that   *)
(* each path of the set has one at or above it, and that a path which went *)
(* astray took all those beneath it along.                                 *)
(***************************************************************************)
EXTENDS Forwarding, FiniteSetTheorems, TLAPS

\* What the service should know of.
Known == IF pc = "starting" THEN Outside \ toLoad ELSE {p \in Paths : Accepted(work[p])}

Covered(t, p) == \E q \in Paths : Prefix(q, p) /\ t[q] \in Records

\* The trie t tells of the delegations of the paths known, at all paths but those in out.
Follows(t, known, delegation, out) ==
  /\ \A a \in Addresses : t[a] \in Records => a \in Paths
  /\ \A p \in Paths \ out :
       IF p \in known /\ \A q \in Paths : Beneath(p, q) => q \notin known
       THEN t[p] = delegation[p].record
       ELSE t[p] \notin Records
  /\ \A p \in known \ out : Covered(t, p)

Closed(out) == \A p \in out : Family(p) \subseteq out

\* Where the transaction stands.
Standing ==
  /\ pc = "starting" => work = stored /\ toLoad \subseteq Outside /\ Overlooked \subseteq astray
  /\ \A p \in Paths : work[p] # stored[p] => p \in changed
  /\ pc \in {"idle", "starting"} => changed = {}

ProxiesFollow ==
  \A p \in Paths \ astray :
    proxyForwards[p] = IF p \in Known /\ work[p].record \in Proxied THEN work[p].record ELSE None

IInv ==
  /\ TypeOK /\ Shape(trie)
  /\ Follows(trie, Known, work, astray) /\ Closed(astray) /\ Standing
  /\ ProxiesFollow /\ ConfigFollowsProxies

------------------------------------------------------------------------------
(* Prefixes.                                                                *)

LEMMA PrefixReflexive == ASSUME NEW p \in Addresses PROVE Prefix(p, p)
  BY TrieAssumption DEF Prefix

LEMMA PrefixTransitive ==
  ASSUME NEW p \in Addresses, NEW q \in Addresses, NEW r \in Addresses, Prefix(p, q), Prefix(q, r)
  PROVE  Prefix(p, r)
<1>1. /\ Len(p) \in Nat /\ Len(q) \in Nat /\ Len(r) \in Nat
  BY TrieAssumption
<1> QED
  BY <1>1 DEF Prefix

LEMMA PrefixAntisymmetric ==
  ASSUME NEW p \in Addresses, NEW q \in Addresses, Prefix(p, q), Prefix(q, p)
  PROVE  p = q
<1>1. /\ p \in Seq(Segments) /\ q \in Seq(Segments)
      /\ Len(p) \in Nat /\ Len(q) \in Nat
  BY TrieAssumption
<1>2. Len(p) = Len(q) /\ \A i \in 1..Len(p) : p[i] = q[i]
  BY <1>1 DEF Prefix
<1> QED
  BY <1>1, <1>2

LEMMA PrefixesComparable ==
  ASSUME NEW p \in Addresses, NEW q \in Addresses, NEW r \in Addresses, Prefix(p, r), Prefix(q, r)
  PROVE  Prefix(p, q) \/ Prefix(q, p)
<1>1. /\ Len(p) \in Nat /\ Len(q) \in Nat /\ Len(r) \in Nat
  BY TrieAssumption
<1> QED
  BY <1>1 DEF Prefix

LEMMA BeneathPrefix ==
  ASSUME NEW p \in Addresses, NEW q \in Addresses, NEW r \in Addresses
  PROVE  /\ Beneath(p, q) /\ Prefix(p, r) => Beneath(r, q)
         /\ Prefix(q, p) /\ Beneath(r, p) => Beneath(r, q)
         /\ Prefix(q, p) => p = q \/ Beneath(p, q)
         /\ ~(Beneath(p, q) /\ Prefix(p, q))
  BY PrefixTransitive, PrefixAntisymmetric DEF Beneath

------------------------------------------------------------------------------
(* The trie.                                                                *)

LEMMA RegisterShape ==
  ASSUME NEW t \in Tries, NEW p \in Addresses, NEW r \in Records, Shape(t)
  PROVE  TrieRegister(t, p, r) \in Tries /\ Shape(TrieRegister(t, p, r))
<1> DEFINE n == TrieRegister(t, p, r)
<1>1. CASE Blocked(t, p)
  BY <1>1 DEF TrieRegister
<1>2. CASE ~Blocked(t, p)
  <2>1. n = [a \in Addresses |-> IF a = p THEN r
                                 ELSE IF Beneath(p, a) THEN Branch
                                 ELSE IF Beneath(a, p) THEN NoNode ELSE t[a]]
    BY <1>2 DEF TrieRegister
  <2>2. n \in Tries
    BY <2>1 DEF Tries
  <2>3. ASSUME NEW a \in Addresses, NEW b \in Addresses, Beneath(b, a), n[b] # NoNode
        PROVE  n[a] = Branch
    <3>1. ~Beneath(b, p)
      BY <2>1, <2>3, BeneathPrefix DEF Beneath
    <3>2. CASE b = p
      BY <2>1, <2>3, <3>2 DEF Beneath
    <3>3. CASE Beneath(p, b)
      <4>1. Beneath(p, a)
        BY <2>3, <3>3, BeneathPrefix DEF Beneath
      <4> QED
        BY <2>1, <4>1 DEF Beneath
    <3>4. CASE b # p /\ ~Beneath(p, b)
      <4>1. t[b] # NoNode
        BY <2>1, <2>3, <3>1, <3>4
      <4>2. t[a] = Branch
        BY <2>3, <4>1 DEF Shape
      <4>3. a # p /\ ~Beneath(a, p)
        BY <2>3, <3>1, BeneathPrefix DEF Beneath
      <4> QED
        BY <2>1, <4>2, <4>3
    <3> QED
      BY <3>2, <3>3, <3>4
  <2> QED
    BY <2>2, <2>3 DEF Shape
<1> QED
  BY <1>1, <1>2

LEMMA UnregisterShape ==
  ASSUME NEW t \in Tries, NEW p \in Addresses, Shape(t)
  PROVE  TrieUnregister(t, p) \in Tries /\ Shape(TrieUnregister(t, p))
<1> DEFINE n == TrieUnregister(t, p)
<1>1. CASE Blocked(t, p)
  BY <1>1 DEF TrieUnregister
<1>2. CASE ~Blocked(t, p)
  <2>1. n = [a \in Addresses |-> IF Prefix(p, a) THEN NoNode ELSE t[a]]
    BY <1>2 DEF TrieUnregister
  <2>2. n \in Tries
    BY <2>1 DEF Tries
  <2>3. ASSUME NEW a \in Addresses, NEW b \in Addresses, Beneath(b, a), n[b] # NoNode
        PROVE  n[a] = Branch
    <3>1. ~Prefix(p, b) /\ t[b] # NoNode
      BY <2>1, <2>3
    <3>2. t[a] = Branch
      BY <2>3, <3>1 DEF Shape
    <3>3. ~Prefix(p, a)
      BY <2>3, <3>1, PrefixTransitive DEF Beneath
    <3> QED
      BY <2>1, <3>2, <3>3
  <2> QED
    BY <2>2, <2>3 DEF Shape
<1> QED
  BY <1>1, <1>2

\* What is registered is told of, and all else as before.
LEMMA RegisterFollows ==
  ASSUME NEW t \in Tries, NEW known \in SUBSET Paths, NEW old, NEW new, NEW out \in SUBSET Paths,
         NEW p \in Paths, new[p].record \in Records,
         \A q \in Paths \ {p} : new[q] = old[q],
         Shape(t), Follows(t, known, old, out), Closed(out)
  PROVE  Follows(TrieRegister(t, p, new[p].record), known \union {p}, new, out)
<1> DEFINE r == new[p].record
           n == TrieRegister(t, p, r)
           more == known \union {p}
<1> Paths \subseteq Addresses /\ p \in Addresses
  BY ForwardingAssumption
<1> NoNode \notin Records /\ Branch \notin Records /\ r \in Records
  BY TrieAssumption
<1>1. CASE Blocked(t, p)
  <2>1. n = t
    BY <1>1 DEF TrieRegister
  <2>2. PICK a \in Addresses : Beneath(p, a) /\ t[a] \in Records
    BY <1>1 DEF Blocked
  <2>3. a \in Paths
    BY <2>2 DEF Follows
  <2>4. ASSUME NEW q \in Paths \ out, Prefix(p, q)
        PROVE  a \in known /\ Beneath(q, a) /\ t[q] \notin Records
    <3>1. Beneath(q, a)
      BY <2>2, <2>3, <2>4, BeneathPrefix
    <3>2. a \notin out
      BY <2>3, <2>4, <3>1 DEF Closed, Family, Beneath
    <3>3. a \in known
      BY <2>2, <2>3, <3>2 DEF Follows
    <3>4. t[q] \notin Records
      BY <2>3, <2>4, <3>1, <3>3 DEF Follows
    <3> QED
      BY <3>1, <3>3, <3>4
  <2>5. ASSUME NEW q \in Paths \ out
        PROVE  IF q \in more /\ \A s \in Paths : Beneath(q, s) => s \notin more
               THEN t[q] = new[q].record ELSE t[q] \notin Records
    <3>1. CASE Prefix(p, q)
      BY <2>3, <2>4, <3>1
    <3>2. CASE ~Prefix(p, q)
      <4>1. q # p /\ ~Beneath(q, p)
        BY <3>2, PrefixReflexive DEF Beneath
      <4>2. (q \in more <=> q \in known) /\ new[q] = old[q]
            /\ \A s \in Paths : Beneath(q, s) => (s \in more <=> s \in known)
        BY <4>1
      <4> QED
        BY <4>2 DEF Follows
    <3> QED
      BY <3>1, <3>2
  <2>6. ASSUME NEW q \in more \ out PROVE Covered(t, q)
    <3>1. CASE q = p
      BY <2>2, <2>3, <3>1 DEF Covered, Beneath
    <3>2. CASE q # p
      BY <3>2 DEF Follows
    <3> QED
      BY <3>1, <3>2
  <2>7. \A a2 \in Addresses : t[a2] \in Records => a2 \in Paths
    BY DEF Follows
  <2> QED
    BY <2>1, <2>5, <2>6, <2>7 DEF Follows
<1>2. CASE ~Blocked(t, p)
  <2>1. n = [a \in Addresses |-> IF a = p THEN r
                                 ELSE IF Beneath(p, a) THEN Branch
                                 ELSE IF Beneath(a, p) THEN NoNode ELSE t[a]]
    BY <1>2 DEF TrieRegister
  <2>2. \A a \in Addresses : Beneath(p, a) => t[a] \notin Records
    BY <1>2 DEF Blocked
  <2>3. \A a \in Addresses : n[a] \in Records =>
           a = p \/ (t[a] \in Records /\ n[a] = t[a] /\ ~Prefix(p, a))
    BY <2>1, BeneathPrefix DEF Beneath
  <2>4. \A a \in Addresses : n[a] \in Records => a \in Paths
    BY <2>3 DEF Follows
  <2>5. ASSUME p \notin out, NEW q \in Paths, Beneath(p, q) PROVE q \notin known
    <3>1. q \notin out
      BY <2>5 DEF Closed, Family, Beneath
    <3>2. q \in known => Covered(t, q)
      BY <3>1 DEF Follows
    <3>3. ~Covered(t, q)
      BY <2>2, <2>5, BeneathPrefix DEF Covered
    <3> QED
      BY <3>2, <3>3
  <2>6. ASSUME NEW q \in Paths \ out
        PROVE  IF q \in more /\ \A s \in Paths : Beneath(q, s) => s \notin more
               THEN n[q] = new[q].record ELSE n[q] \notin Records
    <3>1. CASE q = p
      <4>1. \A s \in Paths : Beneath(q, s) => s \notin more
        BY <2>5, <2>6, <3>1 DEF Beneath
      <4>2. q \in more /\ n[q] = new[q].record
        BY <2>1, <3>1
      <4> QED
        BY <4>1, <4>2
    <3>2. CASE Beneath(q, p)
      <4>1. n[q] = NoNode
        BY <2>1, <3>2, BeneathPrefix DEF Beneath
      <4> QED
        BY <3>2, <4>1
    <3>3. CASE q # p /\ ~Beneath(q, p)
      <4>1. (q \in more <=> q \in known) /\ new[q] = old[q]
            /\ \A s \in Paths : Beneath(q, s) => (s \in more <=> s \in known)
        BY <3>3
      <4>2. IF q \in more /\ \A s \in Paths : Beneath(q, s) => s \notin more
            THEN t[q] = new[q].record ELSE t[q] \notin Records
        BY <4>1 DEF Follows
      <4>3. CASE Beneath(p, q)
        <5>1. n[q] = Branch
          BY <2>1, <3>3, <4>3
        <5>2. ~Covered(t, q)
          BY <2>2, <4>3, BeneathPrefix DEF Covered
        <5>3. q \notin known
          BY <5>2 DEF Follows
        <5> QED
          BY <4>1, <5>1, <5>3
      <4>4. CASE ~Beneath(p, q)
        BY <2>1, <3>3, <4>2, <4>4
      <4> QED
        BY <4>3, <4>4
    <3> QED
      BY <3>1, <3>2, <3>3
  <2>7. ASSUME NEW q \in more \ out PROVE Covered(n, q)
    <3>1. CASE Prefix(p, q)
      <4>1. n[p] \in Records
        BY <2>1
      <4> QED
        BY <3>1, <4>1 DEF Covered
    <3>2. CASE ~Prefix(p, q)
      <4>1. q \in known
        BY <3>2, PrefixReflexive
      <4>2. PICK s \in Paths : Prefix(s, q) /\ t[s] \in Records
        BY <2>7, <4>1 DEF Follows, Covered
      <4>3. s # p /\ ~Beneath(p, s) /\ ~Beneath(s, p)
        BY <2>2, <3>2, <4>1, <4>2, PrefixTransitive DEF Beneath
      <4>4. n[s] \in Records
        BY <2>1, <4>2, <4>3
      <4> QED
        BY <4>2, <4>4 DEF Covered
    <3> QED
      BY <3>1, <3>2
  <2> QED
    BY <2>4, <2>6, <2>7 DEF Follows
<1> QED
  BY <1>1, <1>2

\* What is unregistered is no longer told of, and what was told of beneath it went astray.
LEMMA UnregisterFollows ==
  ASSUME NEW t \in Tries, NEW known \in SUBSET Paths, NEW old, NEW new, NEW out \in SUBSET Paths,
         NEW p \in Paths, NEW more \in SUBSET Paths,
         \A q \in Paths \ {p} : new[q] = old[q],
         out \subseteq more, \A q \in known : Beneath(q, p) => q \in more,
         Shape(t), Follows(t, known, old, out), Closed(out), Closed(more)
  PROVE  Follows(TrieUnregister(t, p), known \ {p}, new, more)
<1> DEFINE n == TrieUnregister(t, p)
           less == known \ {p}
<1> Paths \subseteq Addresses /\ p \in Addresses
  BY ForwardingAssumption
<1> NoNode \notin Records
  BY TrieAssumption
<1>1. CASE Blocked(t, p)
  <2>1. n = t
    BY <1>1 DEF TrieUnregister
  <2>2. PICK a \in Addresses : Beneath(p, a) /\ t[a] \in Records
    BY <1>1 DEF Blocked
  <2>3. a \in Paths
    BY <2>2 DEF Follows
  <2>4. ASSUME NEW q \in Paths \ out, Prefix(p, q)
        PROVE  a \in less /\ Beneath(q, a) /\ t[q] \notin Records
    <3>1. Beneath(q, a)
      BY <2>2, <2>3, <2>4, BeneathPrefix
    <3>2. a \notin out
      BY <2>3, <2>4, <3>1 DEF Closed, Family, Beneath
    <3>3. a \in known /\ a # p
      BY <2>2, <2>3, <3>2 DEF Follows, Beneath
    <3>4. t[q] \notin Records
      BY <2>3, <2>4, <3>1, <3>3 DEF Follows
    <3> QED
      BY <3>1, <3>3, <3>4
  <2>5. ASSUME NEW q \in Paths \ more
        PROVE  IF q \in less /\ \A s \in Paths : Beneath(q, s) => s \notin less
               THEN t[q] = new[q].record ELSE t[q] \notin Records
    <3>1. CASE Prefix(p, q)
      BY <2>3, <2>4, <3>1
    <3>2. CASE ~Prefix(p, q)
      <4>1. q # p /\ ~Beneath(q, p)
        BY <3>2, PrefixReflexive DEF Beneath
      <4>2. (q \in less <=> q \in known) /\ new[q] = old[q]
            /\ \A s \in Paths : Beneath(q, s) => (s \in less <=> s \in known)
        BY <4>1
      <4> QED
        BY <4>2 DEF Follows
    <3> QED
      BY <3>1, <3>2
  <2>6. ASSUME NEW q \in less \ more PROVE Covered(t, q)
    BY DEF Follows
  <2>7. \A a2 \in Addresses : t[a2] \in Records => a2 \in Paths
    BY DEF Follows
  <2> QED
    BY <2>1, <2>5, <2>6, <2>7 DEF Follows
<1>2. CASE ~Blocked(t, p)
  <2>1. n = [a \in Addresses |-> IF Prefix(p, a) THEN NoNode ELSE t[a]]
    BY <1>2 DEF TrieUnregister
  <2>2. \A a \in Addresses : n[a] \in Records => t[a] \in Records
    BY <2>1
  <2>3. \A a \in Addresses : n[a] \in Records => a \in Paths
    BY <2>2 DEF Follows
  <2>4. ASSUME NEW q \in Paths \ more
        PROVE  IF q \in less /\ \A s \in Paths : Beneath(q, s) => s \notin less
               THEN n[q] = new[q].record ELSE n[q] \notin Records
    <3>1. CASE Prefix(p, q)
      <4>1. n[q] = NoNode
        BY <2>1, <3>1
      <4>2. q \notin less
        BY <2>4, <3>1 DEF Beneath
      <4> QED
        BY <4>1, <4>2
    <3>2. CASE ~Prefix(p, q)
      <4>1. q # p /\ ~Beneath(q, p)
        BY <3>2, PrefixReflexive DEF Beneath
      <4>2. (q \in less <=> q \in known) /\ new[q] = old[q] /\ n[q] = t[q]
            /\ \A s \in Paths : Beneath(q, s) => (s \in less <=> s \in known)
        BY <2>1, <3>2, <4>1
      <4> QED
        BY <4>2 DEF Follows
    <3> QED
      BY <3>1, <3>2
  <2>5. ASSUME NEW q \in less \ more PROVE Covered(n, q)
    <3>1. ~Prefix(p, q)
      BY <2>5 DEF Beneath
    <3>2. PICK s \in Paths : Prefix(s, q) /\ t[s] \in Records
      BY <2>5 DEF Follows, Covered
    <3>3. n[s] \in Records
      BY <2>1, <3>1, <3>2, PrefixTransitive
    <3> QED
      BY <3>2, <3>3 DEF Covered
  <2> QED
    BY <2>3, <2>4, <2>5 DEF Follows
<1> QED
  BY <1>1, <1>2

\* Whatever else becomes of the paths that went astray, the others keep their forwards.
LEMMA AstrayFollows ==
  ASSUME NEW t \in Tries, NEW known \in SUBSET Paths, NEW old, NEW new,
         NEW out \in SUBSET Paths, NEW more \in SUBSET Paths, NEW now \in SUBSET Paths,
         out \subseteq more, Closed(more),
         \A q \in Paths \ more : new[q] = old[q] /\ (q \in now <=> q \in known),
         Follows(t, known, old, out)
  PROVE  Follows(t, now, new, more)
<1>1. ASSUME NEW q \in Paths \ more, NEW s \in Paths, Beneath(q, s) PROVE s \notin more
  BY <1>1 DEF Closed, Family, Beneath
<1>2. ASSUME NEW q \in Paths \ more
      PROVE  IF q \in now /\ \A s \in Paths : Beneath(q, s) => s \notin now
             THEN t[q] = new[q].record ELSE t[q] \notin Records
  <2>1. (q \in now <=> q \in known) /\ new[q] = old[q] /\ q \notin out
        /\ \A s \in Paths : Beneath(q, s) => (s \in now <=> s \in known)
    BY <1>1
  <2> QED
    BY <2>1 DEF Follows
<1>3. ASSUME NEW q \in now \ more PROVE Covered(t, q)
  BY DEF Follows
<1>4. \A a \in Addresses : t[a] \in Records => a \in Paths
  BY DEF Follows
<1> QED
  BY <1>2, <1>3, <1>4 DEF Follows

LEMMA FamilyClosed ==
  ASSUME NEW out \in SUBSET Paths, NEW S \in SUBSET Paths, Closed(out)
  PROVE  /\ out \union UNION {Family(p) : p \in S} \in SUBSET Paths
         /\ Closed(out \union UNION {Family(p) : p \in S})
         /\ S \subseteq out \union UNION {Family(p) : p \in S}
<1> Paths \subseteq Addresses
  BY ForwardingAssumption
<1>1. \A p \in Paths : Family(p) \subseteq Paths
  BY DEF Family
<1>2. ASSUME NEW p \in S, NEW q \in Family(p) PROVE Family(q) \subseteq Family(p)
  BY PrefixTransitive DEF Family
<1>3. \A p \in S : p \in Family(p)
  BY PrefixReflexive DEF Family
<1> QED
  BY <1>1, <1>2, <1>3 DEF Closed

------------------------------------------------------------------------------
(* The actions.                                                             *)

Items == [record : Records, accepted : BOOLEAN]

LEMMA DelegationType ==
  ASSUME NEW d \in Delegations, d # None
  PROVE  d \in Items /\ d.record \in Records /\ d.accepted \in BOOLEAN
  BY DEF Delegations, Items

LEMMA KnownType == Known \in SUBSET Paths
  BY DEF Known, Outside

\* A delegation is registered.
LEMMA Told ==
  ASSUME IInv, NEW p \in Paths, work'[p].record \in Records, Register(p, work'[p].record),
         Known' = Known \union {p}, \A q \in Paths \ {p} : work'[q] = work[q],
         UNCHANGED <<astray, config, written>>
  PROVE  /\ trie' \in Tries /\ Shape(trie)' /\ Follows(trie', Known', work', astray')
         /\ proxyForwards' \in [Paths -> Proxied \union {None}] /\ configUpdateNeeded' \in BOOLEAN
         /\ ProxiesFollow' /\ ConfigFollowsProxies'
<1> DEFINE r == work'[p].record
<1>1. /\ trie \in Tries /\ Shape(trie) /\ Closed(astray) /\ astray \in SUBSET Paths
      /\ Follows(trie, Known, work, astray) /\ p \in Addresses /\ Known \in SUBSET Paths
  BY ForwardingAssumption, KnownType DEF IInv, TypeOK
<1>2. /\ trie' = TrieRegister(trie, p, r)
      /\ proxyForwards' = [proxyForwards EXCEPT ![p] = IF r \in Proxied THEN r ELSE None]
      /\ configUpdateNeeded' = (configUpdateNeeded \/ r \in Proxied \/ proxyForwards[p] # None)
  BY DEF Register
<1>3. trie' \in Tries /\ Shape(trie)'
  <2>1. TrieRegister(trie, p, r) \in Tries /\ Shape(TrieRegister(trie, p, r))
    BY <1>1, RegisterShape
  <2> QED
    BY <1>2, <2>1 DEF Shape
<1>4. Follows(trie', Known', work', astray')
  <2>1. Follows(TrieRegister(trie, p, r), Known \union {p}, work', astray)
    BY <1>1, RegisterFollows
  <2> QED
    BY <1>2, <2>1
<1>5. proxyForwards' \in [Paths -> Proxied \union {None}] /\ configUpdateNeeded' \in BOOLEAN
  BY <1>2 DEF IInv, TypeOK
<1>6. ProxiesFollow'
  <2>1. SUFFICES ASSUME NEW q \in Paths \ astray
                 PROVE  proxyForwards'[q] = IF q \in Known' /\ work'[q].record \in Proxied
                                            THEN work'[q].record ELSE None
    BY DEF ProxiesFollow
  <2>2. CASE q = p
    BY <1>2, <2>2 DEF IInv, TypeOK
  <2>3. CASE q # p
    BY <1>2, <2>3 DEF IInv, TypeOK, ProxiesFollow
  <2> QED
    BY <2>2, <2>3
<1>7. ConfigFollowsProxies'
  <2>1. ASSUME ~configUpdateNeeded' PROVE proxyForwards' = proxyForwards /\ ~configUpdateNeeded
    BY <1>2, <2>1 DEF IInv, TypeOK
  <2> QED
    BY <2>1 DEF IInv, ConfigFollowsProxies
<1> QED
  BY <1>3, <1>4, <1>5, <1>6, <1>7

\* A path is unregistered.
LEMMA Untold ==
  ASSUME IInv, NEW p \in Paths, Unregister(p),
         Known' = Known \ {p}, \A q \in Paths \ {p} : work'[q] = work[q],
         astray \subseteq astray', astray' \in SUBSET Paths, Closed(astray'),
         \A q \in Known : Beneath(q, p) => q \in astray',
         UNCHANGED <<config, written>>
  PROVE  /\ trie' \in Tries /\ Shape(trie)' /\ Follows(trie', Known', work', astray')
         /\ proxyForwards' \in [Paths -> Proxied \union {None}] /\ configUpdateNeeded' \in BOOLEAN
         /\ ProxiesFollow' /\ ConfigFollowsProxies'
<1>1. /\ trie \in Tries /\ Shape(trie) /\ Closed(astray) /\ astray \in SUBSET Paths
      /\ Follows(trie, Known, work, astray) /\ p \in Addresses /\ Known \in SUBSET Paths
  BY ForwardingAssumption, KnownType DEF IInv, TypeOK
<1>2. /\ trie' = TrieUnregister(trie, p)
      /\ proxyForwards' = [proxyForwards EXCEPT ![p] = None]
      /\ configUpdateNeeded' = (configUpdateNeeded \/ proxyForwards[p] # None)
  BY DEF Unregister
<1>3. trie' \in Tries /\ Shape(trie)'
  <2>1. TrieUnregister(trie, p) \in Tries /\ Shape(TrieUnregister(trie, p))
    BY <1>1, UnregisterShape
  <2> QED
    BY <1>2, <2>1 DEF Shape
<1>4. Follows(trie', Known', work', astray')
  <2>1. Follows(TrieUnregister(trie, p), Known \ {p}, work', astray')
    BY <1>1, UnregisterFollows
  <2> QED
    BY <1>2, <2>1
<1>5. proxyForwards' \in [Paths -> Proxied \union {None}] /\ configUpdateNeeded' \in BOOLEAN
  BY <1>2 DEF IInv, TypeOK
<1>6. ProxiesFollow'
  <2>1. SUFFICES ASSUME NEW q \in Paths \ astray'
                 PROVE  proxyForwards'[q] = IF q \in Known' /\ work'[q].record \in Proxied
                                            THEN work'[q].record ELSE None
    BY DEF ProxiesFollow
  <2>2. CASE q = p
    BY <1>2, <2>2 DEF IInv, TypeOK
  <2>3. CASE q # p
    BY <1>2, <2>3 DEF IInv, TypeOK, ProxiesFollow
  <2> QED
    BY <2>2, <2>3
<1>7. ConfigFollowsProxies'
  <2>1. ASSUME ~configUpdateNeeded' PROVE proxyForwards' = proxyForwards /\ ~configUpdateNeeded
    BY <1>2, <2>1 DEF IInv, TypeOK
  <2> QED
    BY <2>1 DEF IInv, ConfigFollowsProxies
<1> QED
  BY <1>3, <1>4, <1>5, <1>6, <1>7

\* The service is left alone while paths change that have gone astray.
LEMMA Ignored ==
  ASSUME IInv, UNCHANGED <<trie, proxyForwards>>,
         astray \subseteq astray', astray' \in SUBSET Paths, Closed(astray'),
         \A q \in Paths \ astray' : work'[q] = work[q] /\ (q \in Known' <=> q \in Known)
  PROVE  Shape(trie)' /\ Follows(trie', Known', work', astray') /\ ProxiesFollow'
<1>1. /\ trie \in Tries /\ Shape(trie) /\ astray \in SUBSET Paths
      /\ Follows(trie, Known, work, astray) /\ Known \in SUBSET Paths
  BY KnownType DEF IInv, TypeOK
<1>2. Known' \in SUBSET Paths
  BY KnownType DEF Known, Outside
<1>3. Follows(trie, Known', work', astray')
  BY <1>1, <1>2, AstrayFollows
<1>4. Shape(trie)'
  BY <1>1 DEF Shape
<1>5. ProxiesFollow'
  BY DEF IInv, ProxiesFollow
<1> QED
  BY <1>3, <1>4, <1>5

LEMMA InitInv == Init => IInv
<1> SUFFICES ASSUME Init PROVE IInv
  OBVIOUS
<1> USE TrieAssumption, ForwardingAssumption
<1>1. TypeOK
  <2>1. stored \in [Paths -> Delegations] /\ work \in [Paths -> Delegations]
    BY DEF Init, Delegations
  <2>2. trie \in Tries
    BY DEF Init, Tries, EmptyTrie
  <2>3. /\ proxyForwards \in [Paths -> Proxied \union {None}]
        /\ config \in [Paths -> Proxied \union {None}]
    BY DEF Init, NoProxies
  <2>4. /\ pc \in {"idle", "write", "config", "starting"}
        /\ toLoad \subseteq Paths /\ changed \subseteq Paths /\ astray \subseteq Paths
        /\ changes \in 0..MaxChanges /\ starts \in 0..MaxStarts
    BY DEF Init
  <2>5. configUpdateNeeded \in BOOLEAN /\ written \in BOOLEAN
    BY DEF Init
  <2> QED
    BY <2>1, <2>2, <2>3, <2>4, <2>5 DEF TypeOK
<1>2. Shape(trie)
  BY DEF Init, Shape, EmptyTrie, Beneath, Prefix
<1>3. Known = {}
  BY DEF Init, Known, Accepted
<1>4. Follows(trie, {}, work, astray)
  BY DEF Init, Follows, EmptyTrie
<1>5. Closed(astray) /\ Standing
  BY DEF Init, Closed, Standing
<1>6. ProxiesFollow /\ ConfigFollowsProxies
  BY <1>3 DEF Init, ProxiesFollow, ConfigFollowsProxies, NoProxies
<1> QED
  BY <1>1, <1>2, <1>3, <1>4, <1>5, <1>6 DEF IInv

LEMMA BeginWriteInv == IInv /\ BeginWrite => IInv'
<1> SUFFICES ASSUME IInv, BeginWrite PROVE IInv'
  OBVIOUS
<1>1. TypeOK' /\ Standing' /\ Closed(astray)' /\ ConfigFollowsProxies'
  BY DEF IInv, TypeOK, Standing, Closed, Family, ConfigFollowsProxies, BeginWrite, service
<1>2. Known' = Known
  BY DEF Known, Outside, BeginWrite
<1>3. Shape(trie)' /\ Follows(trie', Known', work', astray') /\ ProxiesFollow'
  BY <1>2, Ignored DEF IInv, TypeOK, BeginWrite, service
<1> QED
  BY <1>1, <1>3 DEF IInv

LEMMA ChangeInv == ASSUME NEW p \in Paths PROVE IInv /\ Change(p) => IInv'
<1> SUFFICES ASSUME IInv, Change(p) PROVE IInv'
  OBVIOUS
<1>1. PICK d \in Delegations \ {None} :
        /\ work' = [work EXCEPT ![p] = d]
        /\ \/ Accepted(d) /\ Register(p, d.record) /\ UNCHANGED astray
           \/ /\ ~Accepted(d) /\ Unregister(p)
              /\ astray' = astray \union UNION {Family(q) : q \in {q \in Family(p) \ {p} :
                                                                       Accepted(work[q])}}
  BY DEF Change
<1>2. /\ pc = "write" /\ pc' = "config" /\ changed' = changed \union {p}
      /\ changes < MaxChanges /\ changes' = changes + 1
      /\ UNCHANGED <<stored, toLoad, config, written, starts>>
  BY DEF Change
<1>3. /\ d.record \in Records /\ work'[p] = d /\ work' \in [Paths -> Delegations]
      /\ \A q \in Paths \ {p} : work'[q] = work[q]
  BY <1>1, DelegationType DEF IInv, TypeOK
<1>4. Known' = IF Accepted(d) THEN Known \union {p} ELSE Known \ {p}
  BY <1>2, <1>3 DEF Known
<1>5. /\ trie' \in Tries /\ Shape(trie)' /\ Follows(trie', Known', work', astray')
      /\ proxyForwards' \in [Paths -> Proxied \union {None}] /\ configUpdateNeeded' \in BOOLEAN
      /\ ProxiesFollow' /\ ConfigFollowsProxies'
      /\ astray' \in SUBSET Paths /\ Closed(astray')
  <2>1. CASE Accepted(d)
    <3>1. Register(p, d.record) /\ UNCHANGED <<astray, config, written>>
      BY <1>1, <1>2, <2>1
    <3>2. astray' \in SUBSET Paths /\ Closed(astray')
      BY <3>1 DEF IInv, TypeOK
    <3> QED
      BY <1>3, <1>4, <2>1, <3>1, <3>2, Told
  <2>2. CASE ~Accepted(d)
    <3> DEFINE cut == {q \in Family(p) \ {p} : Accepted(work[q])}
    <3>1. Unregister(p) /\ astray' = astray \union UNION {Family(q) : q \in cut}
      BY <1>1, <2>2
    <3>2. cut \in SUBSET Paths /\ astray \in SUBSET Paths /\ Closed(astray)
      BY DEF Family, IInv, TypeOK
    <3>3. \A q \in Known : Beneath(q, p) => q \in cut
      BY <1>2 DEF Known, Family, Beneath
    <3> HIDE DEF cut
    <3>4. /\ astray' \in SUBSET Paths /\ Closed(astray') /\ cut \subseteq astray'
          /\ astray \subseteq astray'
      BY <3>1, <3>2, FamilyClosed
    <3>5. UNCHANGED <<config, written>>
      BY <1>2
    <3> QED
      BY <1>3, <1>4, <2>2, <3>1, <3>3, <3>4, <3>5, Untold
  <2> QED
    BY <2>1, <2>2
<1>6. Standing'
  BY <1>2, <1>3 DEF IInv, TypeOK, Standing
<1>7. TypeOK'
  <2>1. written' \in BOOLEAN
    BY <1>2 DEF IInv, TypeOK
  <2>2. changes' \in 0..MaxChanges /\ starts' \in 0..MaxStarts
    BY <1>2, ForwardingAssumption DEF IInv, TypeOK
  <2>3. /\ stored' \in [Paths -> Delegations] /\ config' \in [Paths -> Proxied \union {None}]
        /\ toLoad' \subseteq Paths /\ changed' \subseteq Paths
    BY <1>2 DEF IInv, TypeOK
  <2> QED
    BY <1>2, <1>3, <1>5, <2>1, <2>2, <2>3 DEF TypeOK
<1> QED
  BY <1>5, <1>6, <1>7 DEF IInv

\* The service is left alone, but for the configuration, and so are the delegations.
LEMMA Undisturbed ==
  ASSUME IInv, UNCHANGED <<trie, proxyForwards, work, astray>>, Known' = Known
  PROVE  Shape(trie)' /\ Follows(trie', Known', work', astray') /\ Closed(astray') /\ ProxiesFollow'
<1>1. astray' \in SUBSET Paths /\ Closed(astray')
  BY DEF IInv, TypeOK
<1> QED
  BY <1>1, Ignored

LEMMA WriteConfigInv ==
  ASSUME IInv, WriteConfig, UNCHANGED proxyForwards
  PROVE  /\ ConfigFollowsProxies' /\ config' \in [Paths -> Proxied \union {None}]
         /\ configUpdateNeeded' \in BOOLEAN /\ written' \in BOOLEAN
<1>1. CASE configUpdateNeeded
  <2>1. \/ config' = proxyForwards /\ written' = TRUE
        \/ config' = config /\ written' = FALSE
    BY <1>1 DEF WriteConfig
  <2> QED
    BY <2>1 DEF WriteConfig, IInv, TypeOK, ConfigFollowsProxies
<1>2. CASE ~configUpdateNeeded
  BY <1>2 DEF WriteConfig, IInv, TypeOK, ConfigFollowsProxies
<1> QED
  BY <1>1, <1>2

LEMMA UpdateConfigInv == IInv /\ UpdateConfig => IInv'
<1> SUFFICES ASSUME IInv, UpdateConfig PROVE IInv'
  OBVIOUS
<1>1. Known' = Known
  BY DEF Known, Outside, UpdateConfig
<1>2. Shape(trie)' /\ Follows(trie', Known', work', astray') /\ Closed(astray') /\ ProxiesFollow'
  BY <1>1, Undisturbed DEF UpdateConfig
<1>3. /\ ConfigFollowsProxies' /\ config' \in [Paths -> Proxied \union {None}]
      /\ configUpdateNeeded' \in BOOLEAN /\ written' \in BOOLEAN
  BY WriteConfigInv DEF UpdateConfig
<1>4. Standing'
  BY DEF IInv, Standing, UpdateConfig
<1>5. TypeOK'
  BY <1>3 DEF IInv, TypeOK, UpdateConfig
<1> QED
  BY <1>2, <1>3, <1>4, <1>5 DEF IInv

LEMMA DeleteInv == ASSUME NEW p \in Paths PROVE IInv /\ Delete(p) => IInv'
<1> SUFFICES ASSUME IInv, Delete(p) PROVE IInv'
  OBVIOUS
<1>1. /\ pc = "write" /\ pc' = pc /\ changed' = changed \union {p} /\ work[p] # None
      /\ changes < MaxChanges /\ changes' = changes + 1
      /\ astray' = (IF Accepted(work[p]) THEN astray \union Family(p) ELSE astray)
      /\ UNCHANGED <<stored, trie, proxyForwards, configUpdateNeeded, toLoad, config, written, starts>>
  BY DEF Delete, service
<1>2. work[p] \in Items
  BY <1>1, DelegationType DEF IInv, TypeOK
<1>3. /\ work' \in [Paths -> Delegations] /\ \A q \in Paths \ {p} : work'[q] = work[q]
      /\ ~Accepted(work'[p])
  <2>1. CASE work' = [work EXCEPT ![p] = None]
    BY <2>1 DEF IInv, TypeOK, Accepted, Delegations
  <2>2. CASE work' = [work EXCEPT ![p] = [record |-> @.record, accepted |-> FALSE]]
    BY <1>2, <2>2 DEF IInv, TypeOK, Accepted, Delegations, Items
  <2> QED
    BY <2>1, <2>2 DEF Delete
<1>4. astray' \in SUBSET Paths /\ Closed(astray') /\ astray \subseteq astray'
      /\ (Accepted(work[p]) => p \in astray')
  <2>1. CASE Accepted(work[p])
    <3>1. astray' = astray \union UNION {Family(q) : q \in {p}}
      BY <1>1, <2>1
    <3>2. {p} \in SUBSET Paths /\ astray \in SUBSET Paths /\ Closed(astray)
      BY DEF IInv, TypeOK
    <3> QED
      BY <3>1, <3>2, FamilyClosed
  <2>2. CASE ~Accepted(work[p])
    BY <1>1, <2>2 DEF IInv, TypeOK
  <2> QED
    BY <2>1, <2>2
<1>5. Known' = Known \ {p} /\ (~Accepted(work[p]) => p \notin Known)
  BY <1>1, <1>3 DEF Known
<1>6. Shape(trie)' /\ Follows(trie', Known', work', astray') /\ ProxiesFollow'
  <2>1. CASE Accepted(work[p])
    <3>1. \A q \in Paths \ astray' : work'[q] = work[q] /\ (q \in Known' <=> q \in Known)
      BY <1>3, <1>4, <1>5, <2>1
    <3> QED
      BY <1>1, <1>4, <3>1, Ignored
  <2>2. CASE ~Accepted(work[p])
    <3>1. Known' = Known /\ p \notin Known /\ astray' = astray
      BY <1>1, <1>5, <2>2
    <3>2. ProxiesFollow'
      BY <1>1, <1>3, <3>1 DEF IInv, ProxiesFollow
    <3>3. Follows(trie, Known, work', astray)
      BY <1>3, <3>1 DEF IInv, Follows
    <3>4. Follows(trie', Known', work', astray') /\ Shape(trie)'
      BY <1>1, <3>1, <3>3 DEF IInv, Shape
    <3> QED
      BY <3>2, <3>4
  <2> QED
    BY <2>1, <2>2
<1>7. Standing' /\ ConfigFollowsProxies'
  BY <1>1, <1>3 DEF IInv, TypeOK, Standing, ConfigFollowsProxies
<1>8. TypeOK'
  <2>1. written' \in BOOLEAN /\ configUpdateNeeded' \in BOOLEAN
    BY <1>1 DEF IInv, TypeOK
  <2>2. changes' \in 0..MaxChanges /\ starts' \in 0..MaxStarts
    BY <1>1, ForwardingAssumption DEF IInv, TypeOK
  <2>3. /\ stored' \in [Paths -> Delegations] /\ config' \in [Paths -> Proxied \union {None}]
        /\ toLoad' \subseteq Paths /\ changed' \subseteq Paths /\ trie' \in Tries
        /\ proxyForwards' \in [Paths -> Proxied \union {None}]
    BY <1>1 DEF IInv, TypeOK
  <2> QED
    BY <1>1, <1>3, <1>4, <2>1, <2>2, <2>3 DEF TypeOK
<1> QED
  BY <1>4, <1>6, <1>7, <1>8 DEF IInv

LEMMA CommitInv == IInv /\ Commit => IInv'
<1> SUFFICES ASSUME IInv, Commit PROVE IInv'
  OBVIOUS
<1>1. Known' = Known
  BY DEF Known, Outside, Commit
<1>2. Shape(trie)' /\ Follows(trie', Known', work', astray') /\ Closed(astray') /\ ProxiesFollow'
  BY <1>1, Undisturbed DEF Commit, service
<1>3. Standing' /\ ConfigFollowsProxies' /\ TypeOK'
  BY DEF IInv, TypeOK, Standing, ConfigFollowsProxies, Commit, service
<1> QED
  BY <1>2, <1>3 DEF IInv

LEMMA AbortInv == IInv /\ Abort => IInv'
<1> SUFFICES ASSUME IInv, Abort PROVE IInv'
  OBVIOUS
<1>1. /\ astray \in SUBSET Paths /\ changed \in SUBSET Paths /\ Closed(astray)
      /\ astray' = astray \union UNION {Family(p) : p \in changed}
  BY DEF IInv, TypeOK, Abort
<1>2. /\ astray' \in SUBSET Paths /\ Closed(astray') /\ changed \subseteq astray'
      /\ astray \subseteq astray'
  BY <1>1, FamilyClosed
<1>3. \A q \in Paths \ astray' : work'[q] = work[q]
  BY <1>2 DEF IInv, Standing, Abort
<1>4. pc # "starting" /\ pc' # "starting"
  BY DEF Abort
<1>5. \A q \in Paths \ astray' : q \in Known' <=> q \in Known
  BY <1>3, <1>4 DEF Known
<1>6. Shape(trie)' /\ Follows(trie', Known', work', astray') /\ ProxiesFollow'
  BY <1>2, <1>3, <1>5, Ignored DEF Abort, service
<1>7. Standing' /\ ConfigFollowsProxies'
  BY DEF IInv, TypeOK, Standing, ConfigFollowsProxies, Abort, service
<1>8. TypeOK'
  BY <1>2 DEF IInv, TypeOK, Abort, service
<1> QED
  BY <1>2, <1>6, <1>7, <1>8 DEF IInv

LEMMA RestartInv == IInv /\ Restart => IInv'
<1> SUFFICES ASSUME IInv, Restart PROVE IInv'
  OBVIOUS
<1> USE TrieAssumption, ForwardingAssumption
<1>1. /\ pc' = "starting" /\ toLoad' = Outside /\ trie' = EmptyTrie /\ proxyForwards' = NoProxies
      /\ configUpdateNeeded' = FALSE /\ work' = stored /\ changed' = {}
      /\ astray' = UNION {Family(p) : p \in Overlooked}
      /\ written' = FALSE /\ UNCHANGED <<stored, config, changes>>
  BY DEF Restart
<1>2. /\ Outside' = Outside /\ Outside \subseteq Paths
      /\ Overlooked' = Overlooked /\ Overlooked \subseteq Paths
  BY <1>1 DEF Outside, Overlooked
<1>3. Known' = {}
  BY <1>1, <1>2 DEF Known
<1>4. Shape(trie)'
  BY <1>1 DEF Shape, EmptyTrie, Beneath, Prefix
<1>5. Follows(trie', Known', work', astray')
  BY <1>1, <1>3 DEF Follows, EmptyTrie
<1>6. ProxiesFollow'
  BY <1>1, <1>3 DEF ProxiesFollow, NoProxies
<1>7. Closed(astray') /\ astray' \in SUBSET Paths /\ Overlooked \subseteq astray'
  <2>1. \A p \in Overlooked : p \in Family(p) /\ Family(p) \subseteq Paths
    BY <1>2, PrefixReflexive DEF Family
  <2>2. \A p \in Overlooked : \A q \in Family(p) : Family(q) \subseteq Family(p)
    BY <1>2, PrefixTransitive DEF Family
  <2> QED
    BY <1>1, <2>1, <2>2 DEF Closed
<1>9. Standing' /\ ConfigFollowsProxies'
  BY <1>1, <1>2, <1>7 DEF Standing, ConfigFollowsProxies
<1>8. TypeOK'
  <2>1. trie' \in Tries
    BY <1>1 DEF Tries, EmptyTrie
  <2>2. proxyForwards' \in [Paths -> Proxied \union {None}]
    BY <1>1 DEF NoProxies
  <2>3. configUpdateNeeded' \in BOOLEAN /\ written' \in BOOLEAN
    BY <1>1
  <2>4. starts' \in 0..MaxStarts /\ changes' \in 0..MaxChanges
    BY <1>1 DEF Restart, IInv, TypeOK
  <2>5. /\ stored' \in [Paths -> Delegations] /\ work' \in [Paths -> Delegations]
        /\ config' \in [Paths -> Proxied \union {None}]
    BY <1>1 DEF IInv, TypeOK
  <2> QED
    BY <1>1, <1>2, <1>7, <2>1, <2>2, <2>3, <2>4, <2>5 DEF TypeOK
<1> QED
  BY <1>4, <1>5, <1>6, <1>7, <1>8, <1>9 DEF IInv

LEMMA LoadInv == IInv /\ Load => IInv'
<1> SUFFICES ASSUME IInv, Load PROVE IInv'
  OBVIOUS
<1>1. PICK p \in toLoad : Register(p, stored[p].record) /\ toLoad' = toLoad \ {p}
  BY DEF Load
<1>2. /\ pc = "starting" /\ pc' = pc
      /\ UNCHANGED <<stored, work, config, written, changed, astray, changes, starts>>
  BY DEF Load
<1>3. work = stored /\ toLoad \subseteq Outside /\ Outside \subseteq Paths
  BY <1>2 DEF IInv, Standing, Outside
<1>4. p \in Paths /\ p \in Outside /\ Outside' = Outside /\ work'[p] = stored[p]
  BY <1>1, <1>2, <1>3 DEF Outside
<1>5. work'[p].record \in Records
  <2>1. stored[p] \in Delegations /\ stored[p] # None
    BY <1>4 DEF IInv, TypeOK, Outside, Accepted
  <2> QED
    BY <1>4, <2>1, DelegationType
<1>6. Known' = Known \union {p}
  BY <1>1, <1>2, <1>3, <1>4 DEF Known
<1>7. /\ trie' \in Tries /\ Shape(trie)' /\ Follows(trie', Known', work', astray')
      /\ proxyForwards' \in [Paths -> Proxied \union {None}] /\ configUpdateNeeded' \in BOOLEAN
      /\ ProxiesFollow' /\ ConfigFollowsProxies'
  <2>1. Register(p, work'[p].record) /\ \A q \in Paths \ {p} : work'[q] = work[q]
    BY <1>1, <1>2, <1>4
  <2> QED
    BY <1>2, <1>4, <1>5, <1>6, <2>1, Told
<1>8. Standing' /\ Closed(astray')
  <2>1. Overlooked' = Overlooked
    BY <1>2, <1>4 DEF Overlooked
  <2> QED
    BY <1>1, <1>2, <1>3, <1>4, <2>1 DEF IInv, Standing
<1>9. TypeOK'
  <2>1. written' \in BOOLEAN
    BY <1>2 DEF IInv, TypeOK
  <2> QED
    BY <1>1, <1>2, <1>7, <2>1 DEF IInv, TypeOK
<1> QED
  BY <1>7, <1>8, <1>9 DEF IInv

LEMMA StartedInv == IInv /\ Started => IInv'
<1> SUFFICES ASSUME IInv, Started PROVE IInv'
  OBVIOUS
<1>1. /\ pc = "starting" /\ pc' = "idle" /\ toLoad = {} /\ WriteConfig
      /\ UNCHANGED <<stored, work, trie, proxyForwards, toLoad, changed, astray, changes, starts>>
  BY DEF Started
<1>2. \A p \in Paths \ astray : p \in Known' <=> p \in Known
  <2>1. work = stored /\ Overlooked \subseteq astray
    BY <1>1 DEF IInv, Standing
  <2>2. Known = Outside /\ Known' = {p \in Paths : Accepted(work[p])}
    BY <1>1 DEF Known
  <2> QED
    BY <2>1, <2>2 DEF Outside, Overlooked
<1>3. Shape(trie)' /\ Follows(trie', Known', work', astray') /\ Closed(astray') /\ ProxiesFollow'
  <2>1. astray' \in SUBSET Paths /\ Closed(astray')
    BY <1>1 DEF IInv, TypeOK
  <2> QED
    BY <1>1, <1>2, <2>1, Ignored
<1>4. /\ ConfigFollowsProxies' /\ config' \in [Paths -> Proxied \union {None}]
      /\ configUpdateNeeded' \in BOOLEAN /\ written' \in BOOLEAN
  BY <1>1, WriteConfigInv
<1>5. Standing'
  BY <1>1 DEF IInv, Standing
<1>6. TypeOK'
  BY <1>1, <1>4 DEF IInv, TypeOK
<1> QED
  BY <1>3, <1>4, <1>5, <1>6 DEF IInv

LEMMA StepInv == IInv /\ [Next]_vars => IInv'
<1> SUFFICES ASSUME IInv, [Next]_vars PROVE IInv'
  OBVIOUS
<1>1. CASE UNCHANGED vars
  <2>1. Known' = Known
    BY <1>1 DEF Known, Outside, vars
  <2>2. Shape(trie)' /\ Follows(trie', Known', work', astray') /\ Closed(astray') /\ ProxiesFollow'
    BY <1>1, <2>1, Undisturbed DEF vars
  <2>3. Standing' /\ ConfigFollowsProxies'
    BY <1>1, <2>1 DEF IInv, Standing, Outside, Overlooked, ConfigFollowsProxies, vars
  <2>4. TypeOK'
    BY <1>1 DEF IInv, TypeOK, vars
  <2> QED
    BY <2>2, <2>3, <2>4 DEF IInv
<1>2. CASE Next
  BY <1>2, BeginWriteInv, UpdateConfigInv, CommitInv, AbortInv, RestartInv, LoadInv, StartedInv,
     ChangeInv, DeleteInv DEF Next
<1> QED
  BY <1>1, <1>2

LEMMA Inductive == Spec => []IInv
<1>1. QED
  BY InitInv, StepInv, PTL DEF Spec

------------------------------------------------------------------------------
\* The variables of the forwarding service keep their types (ForwardingServiceImpl).
THEOREM TypeCorrect == Spec => []TypeOK
<1>1. IInv => TypeOK
  BY DEF IInv
<1> QED
  BY <1>1, Inductive, PTL

\* Requests are forwarded as the outermost accepted delegations say, but for the paths that
\* went astray (ForwardingServiceImpl.update, Registry.startup).
THEOREM ForwardsRight == Spec => []ForwardsFollowStore
<1>1. IInv => ForwardsFollowStore
  <2>1. SUFFICES ASSUME IInv, pc # "starting", NEW p \in Paths \ astray
                 PROVE  IF Outermost(p) THEN trie[p] = work[p].record ELSE trie[p] \notin Records
    BY DEF ForwardsFollowStore
  <2>2. \A q \in Paths : q \in Known <=> Accepted(work[q])
    BY <2>1 DEF Known
  <2>3. Outermost(p) <=> p \in Known /\ \A q \in Paths : Beneath(p, q) => q \notin Known
    BY <2>2 DEF Outermost
  <2> QED
    BY <2>1, <2>3 DEF IInv, Follows
<1> QED
  BY <1>1, Inductive, PTL

\* The proxy knows the accepted delegations of code 200, with the same exceptions
\* (ForwardingServiceImpl.register and unregister).
THEOREM ProxiesRight == Spec => []ProxiesFollowStore
<1>1. IInv => ProxiesFollowStore
  BY DEF IInv, ProxiesFollow, ProxiesFollowStore, Known
<1> QED
  BY <1>1, Inductive, PTL

\* What the proxy serves is what the service knows, once written and until writing fails
\* (ForwardingServiceImpl.updateConfig).
THEOREM ConfigRight == Spec => []ConfigFollowsProxies
<1>1. IInv => ConfigFollowsProxies
  BY DEF IInv
<1> QED
  BY <1>1, Inductive, PTL

\* Two terminals on the way to a path would be one above the other, and the upper one is a
\* branch.
LEMMA MatchUnique ==
  ASSUME NEW t \in Tries, Shape(t), NEW p \in Addresses
  PROVE  Cardinality(Matches(t, p)) <= 1
<1> DEFINE M == Matches(t, p)
<1>1. ASSUME NEW a \in M, NEW b \in M PROVE a = b
  <2>1. a \in Addresses /\ b \in Addresses /\ Prefix(a, p) /\ Prefix(b, p)
        /\ t[a] \in Records /\ t[b] \in Records
    BY <1>1 DEF Matches
  <2>2. Branch \notin Records /\ NoNode \notin Records
    BY TrieAssumption
  <2>3. ~Beneath(a, b) /\ ~Beneath(b, a)
    BY <2>1, <2>2 DEF Shape
  <2> QED
    BY <2>1, <2>3, PrefixesComparable DEF Beneath
<1>2. CASE M = {}
  BY <1>2, FS_EmptySet
<1>3. CASE M # {}
  <2>1. PICK a : a \in M
    BY <1>3
  <2>2. M = {a}
    BY <1>1, <2>1
  <2> HIDE DEF M
  <2>3. Cardinality(M) = 1
    BY <2>2, FS_Singleton
  <2> QED
    BY <2>3 DEF M
<1> QED
  BY <1>2, <1>3

\* The trie keeps its shape, and a request has at most one match (Trie.match).
THEOREM MatchesAtMostOne == Spec => []OneMatch
<1>1. IInv => OneMatch
  BY MatchUnique DEF IInv, TypeOK, OneMatch
<1> QED
  BY <1>1, Inductive, PTL

Local(p) ==
  (trie'[p] \in Records \/ trie[p] \in Records) /\ trie'[p] # trie[p] =>
    \/ pc' = "starting"
    \/ \E q \in Paths : Prefix(q, p) /\ work'[q] # work[q]
    \/ \E q \in Paths : Prefix(q, p) /\ q \in changed'

\* A step changes the forwards at and beneath the path it is about and no others
\* (Trie.register and unregister).
THEOREM ChangesLocal == Spec => ChangesStayInFamily
<1>1. TypeOK /\ [Next]_vars => \A p \in Addresses : Local(p)
  <2> SUFFICES ASSUME TypeOK, [Next]_vars, NEW p \in Addresses,
                      trie'[p] \in Records \/ trie[p] \in Records, trie'[p] # trie[p],
                      pc' # "starting"
               PROVE  \E q \in Paths : Prefix(q, p) /\ q \in changed'
    BY DEF Local
  <2>1. \E q \in Paths : Change(q)
    BY DEF Next, vars, BeginWrite, UpdateConfig, Commit, Abort, Restart, Load, Started, Delete, service
  <2>2. PICK q \in Paths : Change(q)
    BY <2>1
  <2>3. q \in changed' /\ q \in Addresses
    BY <2>2, ForwardingAssumption DEF Change
  <2>4. PICK r : trie' = TrieRegister(trie, q, r) \/ trie' = TrieUnregister(trie, q)
    BY <2>2 DEF Change, Register, Unregister
  <2>5. Branch \notin Records /\ NoNode \notin Records /\ trie \in Tries
    BY TrieAssumption DEF TypeOK
  <2>6. Prefix(q, p)
    <3>1. ~Blocked(trie, q)
      BY <2>4 DEF TrieRegister, TrieUnregister
    <3>2. Beneath(q, p) => trie[p] \notin Records
      BY <3>1 DEF Blocked
    <3>3. CASE trie' = TrieRegister(trie, q, r)
      <4>1. trie'[p] = IF p = q THEN r
                       ELSE IF Beneath(q, p) THEN Branch
                       ELSE IF Beneath(p, q) THEN NoNode ELSE trie[p]
        BY <3>1, <3>3 DEF TrieRegister
      <4> QED
        BY <2>3, <2>5, <3>2, <4>1, PrefixReflexive DEF Beneath
    <3>4. CASE trie' = TrieUnregister(trie, q)
      BY <3>1, <3>4 DEF TrieUnregister
    <3> QED
      BY <2>4, <3>3, <3>4
  <2> QED
    BY <2>3, <2>6
<1>2. TypeOK /\ [Next]_vars => [\A p \in Addresses : Local(p)]_vars
  BY <1>1
<1> QED
  BY <1>2, TypeCorrect, PTL DEF Spec, ChangesStayInFamily, Local
==============================================================================
