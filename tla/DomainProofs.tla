---------------------------- MODULE DomainProofs ----------------------------
(***************************************************************************)
(* Proofs about the discovery of domains, for any domains and any counts,  *)
(* rates and delays, and about the synchronization with one of them, for   *)
(* any products, services and URLs and any number of restarts.             *)
(***************************************************************************)
EXTENDS DomainDiscovery, DomainSync, TLAPS, FiniteSetTheorems,
        SequenceTheorems, WellFoundedInduction

(***************************************************************************)
(* Discovery: what the commands do to the maps of domains.                 *)
(***************************************************************************)

Commands == [kind : {"Add", "Update", "Remove"}, domain : Domains]

\* What one command does to a map of domains.
CarryOut(c, domains) ==
    IF c.kind = "Remove" THEN domains \ {c.domain} ELSE domains \cup {c.domain}

\* An Add is for a domain that is not there, any other command for one that is.
Fits(c, domains) == (c.kind = "Add") <=> (c.domain \notin domains)

InOrder(cs, domains) ==
    \A i \in 1..Len(cs) :
        Fits(cs[i], Applied(SubSeq(cs, 1, i - 1), domains))

\* Are there commands about d, and does the last of them leave it there?
None(cs, d) == \A i \in 1..Len(cs) : cs[i].domain # d

Keeps(cs, d) ==
    \E i \in 1..Len(cs) :
        /\ cs[i].domain = d /\ cs[i].kind # "Remove"
        /\ \A j \in (i + 1)..Len(cs) : cs[j].domain # d

(***************************************************************************)
(* Commands that are carried out.                                          *)
(***************************************************************************)

LEMMA AppliedMeans ==
    ASSUME NEW cs, NEW domains, NEW d \in Domains
    PROVE  d \in Applied(cs, domains) <=>
             (d \in domains /\ None(cs, d)) \/ Keeps(cs, d)
  BY DEF Applied, None, Keeps

\* The elements of a concatenation.
LEMMA Elements ==
    ASSUME NEW a \in Seq(Commands), NEW b \in Seq(Commands)
    PROVE  /\ a \o b \in Seq(Commands) /\ Len(a \o b) = Len(a) + Len(b)
           /\ Len(a) \in Nat /\ Len(b) \in Nat
           /\ \A i \in 1..Len(a) : (a \o b)[i] = a[i] /\ i \in 1..Len(a \o b)
           /\ \A i \in 1..Len(b) : /\ (a \o b)[Len(a) + i] = b[i]
                                   /\ Len(a) + i \in 1..Len(a \o b)
<1>1. /\ a \o b \in Seq(Commands) /\ Len(a \o b) = Len(a) + Len(b)
      /\ \A i \in 1..(Len(a) + Len(b)) :
           (a \o b)[i] = IF i <= Len(a) THEN a[i] ELSE b[i - Len(a)]
  BY ConcatProperties
<1>2. Len(a) \in Nat /\ Len(b) \in Nat
  OBVIOUS
<1>3. ASSUME NEW i \in 1..Len(a)
      PROVE  (a \o b)[i] = a[i] /\ i \in 1..Len(a \o b)
  <2>1. i \in 1..(Len(a) + Len(b)) /\ i <= Len(a)
    BY <1>2
  <2>. QED
    BY <1>1, <2>1
<1>4. ASSUME NEW i \in 1..Len(b)
      PROVE  (a \o b)[Len(a) + i] = b[i] /\ Len(a) + i \in 1..Len(a \o b)
  <2>1. /\ Len(a) + i \in 1..(Len(a) + Len(b)) /\ ~(Len(a) + i <= Len(a))
        /\ (Len(a) + i) - Len(a) = i
    BY <1>2
  <2>. QED
    BY <1>1, <2>1
<1>. QED
  BY <1>1, <1>2, <1>3, <1>4

\* A position in a concatenation is one in either part.
LEMMA Positions ==
    ASSUME NEW a \in Seq(Commands), NEW b \in Seq(Commands), NEW i \in 1..Len(a \o b)
    PROVE  \/ i \in 1..Len(a)
           \/ i - Len(a) \in 1..Len(b) /\ i = Len(a) + (i - Len(a))
<1>1. Len(a \o b) = Len(a) + Len(b) /\ Len(a) \in Nat /\ Len(b) \in Nat
  BY Elements
<1>. QED
  BY <1>1

LEMMA NoneConcat ==
    ASSUME NEW a \in Seq(Commands), NEW b \in Seq(Commands), NEW d
    PROVE  None(a \o b, d) <=> None(a, d) /\ None(b, d)
<1>1. ASSUME None(a \o b, d) PROVE None(a, d) /\ None(b, d)
  BY <1>1, Elements DEF None
<1>2. ASSUME None(a, d), None(b, d), NEW i \in 1..Len(a \o b)
      PROVE  (a \o b)[i].domain # d
  <2>1. CASE i \in 1..Len(a)
    BY <1>2, <2>1, Elements DEF None
  <2>2. CASE i - Len(a) \in 1..Len(b) /\ i = Len(a) + (i - Len(a))
    <3>1. (a \o b)[Len(a) + (i - Len(a))] = b[i - Len(a)]
      BY <2>2, Elements
    <3>. QED
      BY <1>2, <2>2, <3>1 DEF None
  <2>. QED
    BY <2>1, <2>2, Positions
<1>. QED
  BY <1>1, <1>2 DEF None

LEMMA KeepsConcat ==
    ASSUME NEW a \in Seq(Commands), NEW b \in Seq(Commands), NEW d
    PROVE  Keeps(a \o b, d) <=> Keeps(b, d) \/ (None(b, d) /\ Keeps(a, d))
<1> DEFINE e == a \o b
           n == Len(a)
<1>0. /\ e \in Seq(Commands) /\ Len(e) = n + Len(b) /\ n \in Nat /\ Len(b) \in Nat
      /\ \A i \in 1..n : e[i] = a[i] /\ i \in 1..Len(e)
      /\ \A i \in 1..Len(b) : e[n + i] = b[i] /\ n + i \in 1..Len(e)
  BY Elements
<1>a. \A i \in 1..Len(e) : i \in 1..n \/ (i - n \in 1..Len(b) /\ i = n + (i - n))
  BY Positions
<1> HIDE DEF e, n
<1>1. ASSUME Keeps(b, d) PROVE Keeps(e, d)
  <2>1. PICK i \in 1..Len(b) :
           /\ b[i].domain = d /\ b[i].kind # "Remove"
           /\ \A j \in (i + 1)..Len(b) : b[j].domain # d
    BY <1>1 DEF Keeps
  <2>2. ASSUME NEW j \in (n + i + 1)..Len(e) PROVE e[j].domain # d
    <3>1. j - n \in (i + 1)..Len(b) /\ j - n \in 1..Len(b) /\ j = n + (j - n)
      BY <1>0
    <3>. QED
      BY <1>0, <2>1, <3>1
  <2>. QED
    BY <1>0, <2>1, <2>2 DEF Keeps
<1>2. ASSUME None(b, d), Keeps(a, d) PROVE Keeps(e, d)
  <2>1. PICK i \in 1..n :
           /\ a[i].domain = d /\ a[i].kind # "Remove"
           /\ \A j \in (i + 1)..n : a[j].domain # d
    BY <1>2 DEF Keeps, n
  <2>2. ASSUME NEW j \in (i + 1)..Len(e) PROVE e[j].domain # d
    <3>1. j \in 1..Len(e)
      BY <1>0
    <3>2. CASE j \in 1..n
      <4>1. j \in (i + 1)..n
        BY <1>0, <3>2
      <4>. QED
        BY <1>0, <2>1, <3>2, <4>1
    <3>3. CASE j - n \in 1..Len(b) /\ j = n + (j - n)
      BY <1>0, <1>2, <3>3 DEF None
    <3>. QED
      BY <1>a, <3>1, <3>2, <3>3
  <2>. QED
    BY <1>0, <2>1, <2>2 DEF Keeps
<1>3. ASSUME Keeps(e, d) PROVE Keeps(b, d) \/ (None(b, d) /\ Keeps(a, d))
  <2>1. PICK i \in 1..Len(e) :
           /\ e[i].domain = d /\ e[i].kind # "Remove"
           /\ \A j \in (i + 1)..Len(e) : e[j].domain # d
    BY <1>3 DEF Keeps
  <2>2. CASE i \in 1..n
    <3>1. ASSUME NEW j \in 1..Len(b) PROVE b[j].domain # d
      <4>1. n + j \in (i + 1)..Len(e)
        BY <1>0, <2>2
      <4>. QED
        BY <1>0, <2>1, <4>1
    <3>2. ASSUME NEW j \in (i + 1)..n PROVE a[j].domain # d
      <4>1. j \in (i + 1)..Len(e) /\ j \in 1..n
        BY <1>0, <2>2
      <4>. QED
        BY <1>0, <2>1, <4>1
    <3>3. Keeps(a, d)
      BY <1>0, <2>1, <2>2, <3>2 DEF Keeps, n
    <3>. QED
      BY <3>1, <3>3 DEF None
  <2>3. CASE i - n \in 1..Len(b) /\ i = n + (i - n)
    <3>1. ASSUME NEW j \in ((i - n) + 1)..Len(b) PROVE b[j].domain # d
      <4>1. n + j \in (i + 1)..Len(e) /\ j \in 1..Len(b)
        BY <1>0, <2>3
      <4>. QED
        BY <1>0, <2>1, <4>1
    <3>2. b[i - n].domain = d /\ b[i - n].kind # "Remove"
      BY <1>0, <2>1, <2>3
    <3>. QED
      BY <2>3, <3>1, <3>2 DEF Keeps
  <2>. QED
    BY <1>a, <2>2, <2>3
<1>. QED
  BY <1>1, <1>2, <1>3 DEF e

LEMMA AppliedType ==
    ASSUME NEW cs, NEW domains
    PROVE  Applied(cs, domains) \subseteq Domains
  BY DEF Applied

\* Commands may be carried out in two parts.
LEMMA AppliedConcat ==
    ASSUME NEW a \in Seq(Commands), NEW b \in Seq(Commands), NEW domains
    PROVE  Applied(a \o b, domains) = Applied(b, Applied(a, domains))
<1>1. ASSUME NEW d \in Domains
      PROVE  d \in Applied(a \o b, domains) <=> d \in Applied(b, Applied(a, domains))
  <2>1. d \in Applied(a \o b, domains) <=>
          (d \in domains /\ None(a \o b, d)) \/ Keeps(a \o b, d)
    BY AppliedMeans
  <2>2. d \in Applied(b, Applied(a, domains)) <=>
          (d \in Applied(a, domains) /\ None(b, d)) \/ Keeps(b, d)
    BY AppliedMeans
  <2>3. d \in Applied(a, domains) <=> (d \in domains /\ None(a, d)) \/ Keeps(a, d)
    BY AppliedMeans
  <2>. QED
    BY <2>1, <2>2, <2>3, NoneConcat, KeepsConcat
<1>2. /\ Applied(a \o b, domains) \subseteq Domains
      /\ Applied(b, Applied(a, domains)) \subseteq Domains
  BY AppliedType
<1>. QED
  BY <1>1, <1>2

LEMMA AppliedNone ==
    ASSUME NEW domains \in SUBSET Domains
    PROVE  Applied(<< >>, domains) = domains
  BY DEF Applied

LEMMA AppliedOne ==
    ASSUME NEW c \in Commands, NEW domains \in SUBSET Domains
    PROVE  Applied(<<c>>, domains) = CarryOut(c, domains)
<1>1. Len(<<c>>) = 1 /\ <<c>>[1] = c /\ 1..1 = {1} /\ (1 + 1)..1 = {}
  OBVIOUS
<1>2. c.domain \in Domains
  BY DEF Commands
<1>3. ASSUME NEW d \in Domains
      PROVE  d \in Applied(<<c>>, domains) <=> d \in CarryOut(c, domains)
  <2>1. None(<<c>>, d) <=> c.domain # d
    BY <1>1 DEF None
  <2>2. Keeps(<<c>>, d) <=> c.domain = d /\ c.kind # "Remove"
    BY <1>1 DEF Keeps
  <2>3. d \in Applied(<<c>>, domains) <=>
          (d \in domains /\ None(<<c>>, d)) \/ Keeps(<<c>>, d)
    BY AppliedMeans
  <2>. QED
    BY <2>1, <2>2, <2>3 DEF CarryOut
<1>4. CarryOut(c, domains) \subseteq Domains
  BY <1>2 DEF CarryOut
<1>. QED
  BY <1>3, <1>4, AppliedType

(***************************************************************************)
(* Commands that fit.                                                      *)
(***************************************************************************)

\* The first commands of a sequence.
LEMMA Firsts ==
    ASSUME NEW a \in Seq(Commands), NEW n \in 0..Len(a)
    PROVE  /\ SubSeq(a, 1, n) \in Seq(Commands) /\ Len(SubSeq(a, 1, n)) = n
           /\ \A i \in 1..n : SubSeq(a, 1, n)[i] = a[i]
<1>1. \A i \in 1..n : a[i] \in Commands
  OBVIOUS
<1>2. /\ SubSeq(a, 1, n) \in Seq(Commands)
      /\ Len(SubSeq(a, 1, n)) = IF 1 <= n THEN n - 1 + 1 ELSE 0
      /\ \A i \in 1..(n - 1 + 1) : SubSeq(a, 1, n)[i] = a[1 + i - 1]
  BY <1>1, SubSeqProperties
<1>3. n \in Nat /\ n - 1 + 1 = n
  OBVIOUS
<1>4. Len(SubSeq(a, 1, n)) = n
  BY <1>2, <1>3
<1>5. ASSUME NEW i \in 1..n PROVE SubSeq(a, 1, n)[i] = a[i]
  <2>1. 1 + i - 1 = i /\ i \in 1..(n - 1 + 1)
    BY <1>3
  <2>2. SubSeq(a, 1, n)[i] = a[1 + i - 1]
    BY <1>2, <2>1
  <2>. QED
    BY <2>1, <2>2
<1>. QED
  BY <1>2, <1>4, <1>5

LEMMA FirstsOfConcat ==
    ASSUME NEW a \in Seq(Commands), NEW b \in Seq(Commands)
    PROVE  /\ \A i \in 1..Len(a) : SubSeq(a \o b, 1, i - 1) = SubSeq(a, 1, i - 1)
           /\ \A i \in 1..Len(b) :
                SubSeq(a \o b, 1, (Len(a) + i) - 1) = a \o SubSeq(b, 1, i - 1)
<1> DEFINE e == a \o b
<1>0. /\ e \in Seq(Commands) /\ Len(e) = Len(a) + Len(b)
      /\ Len(a) \in Nat /\ Len(b) \in Nat
      /\ \A i \in 1..Len(a) : e[i] = a[i] /\ i \in 1..Len(e)
      /\ \A i \in 1..Len(b) : e[Len(a) + i] = b[i] /\ Len(a) + i \in 1..Len(e)
  BY Elements
<1> HIDE DEF e
<1>1. ASSUME NEW i \in 1..Len(a)
      PROVE  SubSeq(e, 1, i - 1) = SubSeq(a, 1, i - 1)
  <2>1. i - 1 \in 0..Len(a) /\ i - 1 \in 0..Len(e) /\ \A j \in 1..(i - 1) : j \in 1..Len(a)
    BY <1>0
  <2> DEFINE f == SubSeq(e, 1, i - 1)
             g == SubSeq(a, 1, i - 1)
  <2>2. /\ f \in Seq(Commands) /\ Len(f) = i - 1 /\ \A j \in 1..(i - 1) : f[j] = e[j]
    BY <1>0, <2>1, Firsts
  <2>3. /\ g \in Seq(Commands) /\ Len(g) = i - 1 /\ \A j \in 1..(i - 1) : g[j] = a[j]
    BY <2>1, Firsts
  <2>4. \A j \in 1..Len(f) : f[j] = g[j]
    BY <1>0, <2>1, <2>2, <2>3
  <2> HIDE DEF f, g
  <2>5. f = g
    BY <2>2, <2>3, <2>4, SeqEqual
  <2>. QED
    BY <2>5 DEF f, g
<1>2. ASSUME NEW i \in 1..Len(b)
      PROVE  SubSeq(e, 1, (Len(a) + i) - 1) = a \o SubSeq(b, 1, i - 1)
  <2> DEFINE n == (Len(a) + i) - 1
             f == SubSeq(e, 1, n)
             h == SubSeq(b, 1, i - 1)
             g == a \o h
  <2>1. n \in 0..Len(e) /\ i - 1 \in 0..Len(b) /\ n = Len(a) + (i - 1)
    BY <1>0
  <2>2. /\ f \in Seq(Commands) /\ Len(f) = n /\ \A j \in 1..n : f[j] = e[j]
    BY <1>0, <2>1, Firsts
  <2>3. /\ h \in Seq(Commands) /\ Len(h) = i - 1 /\ \A j \in 1..(i - 1) : h[j] = b[j]
    BY <2>1, Firsts
  <2> HIDE DEF f, h
  <2>4. /\ g \in Seq(Commands) /\ Len(g) = Len(a) + Len(h)
        /\ \A j \in 1..Len(a) : g[j] = a[j]
        /\ \A j \in 1..Len(h) : g[Len(a) + j] = h[j]
    BY <2>3, Elements
  <2> HIDE DEF g, n
  <2>5. ASSUME NEW j \in 1..Len(f) PROVE f[j] = g[j]
    <3>1. f[j] = e[j] /\ j \in 1..n
      BY <2>2
    <3>2. CASE j <= Len(a)
      <4>1. j \in 1..Len(a)
        BY <1>0, <3>1, <3>2, <2>1
      <4>. QED
        BY <1>0, <2>4, <3>1, <4>1
    <3>3. CASE ~(j <= Len(a))
      <4>1. /\ j - Len(a) \in 1..(i - 1) /\ j - Len(a) \in 1..Len(h)
            /\ j - Len(a) \in 1..Len(b) /\ j = Len(a) + (j - Len(a))
        BY <1>0, <2>1, <2>3, <3>1, <3>3
      <4>2. e[j] = b[j - Len(a)] /\ g[j] = h[j - Len(a)]
        BY <1>0, <2>4, <4>1
      <4>. QED
        BY <2>3, <3>1, <4>1, <4>2
    <3>. QED
      BY <3>2, <3>3
  <2>6. f = g
    BY <2>1, <2>2, <2>3, <2>4, <2>5, SeqEqual
  <2>. QED
    BY <2>6 DEF f, g, h, n
<1>. QED
  BY <1>1, <1>2 DEF e

\* Commands fit in two parts.
LEMMA InOrderConcat ==
    ASSUME NEW a \in Seq(Commands), NEW b \in Seq(Commands), NEW domains
    PROVE  InOrder(a \o b, domains) <=>
             InOrder(a, domains) /\ InOrder(b, Applied(a, domains))
<1> DEFINE F(i) == Fits((a \o b)[i], Applied(SubSeq(a \o b, 1, i - 1), domains))
           A(i) == Fits(a[i], Applied(SubSeq(a, 1, i - 1), domains))
           B(i) == Fits(b[i], Applied(SubSeq(b, 1, i - 1), Applied(a, domains)))
<1>1. \A i \in 1..Len(a) : F(i) <=> A(i)
  BY Elements, FirstsOfConcat
<1>2. ASSUME NEW i \in 1..Len(b) PROVE F(Len(a) + i) <=> B(i)
  <2>1. (a \o b)[Len(a) + i] = b[i]
    BY Elements
  <2>2. SubSeq(a \o b, 1, (Len(a) + i) - 1) = a \o SubSeq(b, 1, i - 1)
    BY FirstsOfConcat
  <2>3. SubSeq(b, 1, i - 1) \in Seq(Commands)
    <3>1. i - 1 \in 0..Len(b)
      OBVIOUS
    <3>. QED
      BY <3>1, Firsts
  <2>4. Applied(a \o SubSeq(b, 1, i - 1), domains) =
          Applied(SubSeq(b, 1, i - 1), Applied(a, domains))
    BY <2>3, AppliedConcat
  <2>. QED
    BY <2>1, <2>2, <2>4
<1>3. \A i \in 1..Len(a \o b) :
        i \in 1..Len(a) \/ (i - Len(a) \in 1..Len(b) /\ i = Len(a) + (i - Len(a)))
  BY Positions
<1>4. /\ \A i \in 1..Len(a) : i \in 1..Len(a \o b)
      /\ \A i \in 1..Len(b) : Len(a) + i \in 1..Len(a \o b)
  BY Elements
<1>5. /\ InOrder(a \o b, domains) <=> \A i \in 1..Len(a \o b) : F(i)
      /\ InOrder(a, domains) <=> \A i \in 1..Len(a) : A(i)
      /\ InOrder(b, Applied(a, domains)) <=> \A i \in 1..Len(b) : B(i)
  BY DEF InOrder
<1> HIDE DEF F, A, B
<1>6. (\A i \in 1..Len(a \o b) : F(i)) <=>
        (\A i \in 1..Len(a) : F(i)) /\ (\A i \in 1..Len(b) : F(Len(a) + i))
  BY <1>3, <1>4
<1>. QED
  BY <1>1, <1>2, <1>5, <1>6

LEMMA InOrderOne ==
    ASSUME NEW c \in Commands, NEW domains \in SUBSET Domains
    PROVE  InOrder(<<c>>, domains) <=> Fits(c, domains)
<1>1. Len(<<c>>) = 1 /\ <<c>>[1] = c /\ 1..1 = {1} /\ 1 - 1 = 0
  OBVIOUS
<1>2. SubSeq(<<c>>, 1, 0) = << >>
  BY SubSeqEmpty
<1>3. InOrder(<<c>>, domains) <=>
        Fits(<<c>>[1], Applied(SubSeq(<<c>>, 1, 1 - 1), domains))
  BY <1>1 DEF InOrder
<1>4. Applied(SubSeq(<<c>>, 1, 1 - 1), domains) = domains
  BY <1>1, <1>2, AppliedNone
<1>. QED
  BY <1>1, <1>3, <1>4

\* Commands that remove domains which are there, each of them once.
LEMMA Removes ==
    ASSUME NEW r \in Seq(Commands), NEW domains \in SUBSET Domains,
           \A i \in 1..Len(r) : r[i].kind = "Remove" /\ r[i].domain \in domains,
           \A i, j \in 1..Len(r) : r[i].domain = r[j].domain => i = j
    PROVE  /\ InOrder(r, domains)
           /\ Applied(r, domains) = {d \in domains : None(r, d)}
<1>1. \A d : ~Keeps(r, d)
  BY DEF Keeps
<1>2. Applied(r, domains) = {d \in domains : None(r, d)}
  BY <1>1, AppliedMeans, AppliedType
<1>3. ASSUME NEW i \in 1..Len(r)
      PROVE  Fits(r[i], Applied(SubSeq(r, 1, i - 1), domains))
  <2> DEFINE f == SubSeq(r, 1, i - 1)
  <2>1. i - 1 \in 0..Len(r) /\ \A j \in 1..(i - 1) : j \in 1..Len(r) /\ j # i
    OBVIOUS
  <2>2. Len(f) = i - 1 /\ \A j \in 1..(i - 1) : f[j] = r[j]
    BY <2>1, Firsts
  <2> HIDE DEF f
  <2>3. None(f, r[i].domain)
    BY <2>1, <2>2 DEF None
  <2>4. r[i].domain \in Applied(f, domains)
    BY <2>3, AppliedMeans
  <2>. QED
    BY <2>4 DEF Fits, f
<1>. QED
  BY <1>2, <1>3 DEF InOrder

\* A set of domains, one after the other.
LEMMA Enumeration ==
    ASSUME NEW S \in SUBSET Domains
    PROVE  /\ Cardinality(S) \in Nat
           /\ SetToSeq(S) \in [1..Cardinality(S) -> S]
           /\ \A i, j \in 1..Cardinality(S) :
                SetToSeq(S)[i] = SetToSeq(S)[j] => i = j
           /\ \A d \in S : \E i \in 1..Cardinality(S) : SetToSeq(S)[i] = d
<1> DEFINE n == Cardinality(S)
           f == SetToSeq(S)
<1>1. IsFiniteSet(S) /\ n \in Nat
  <2>1. IsFiniteSet(S)
    BY DiscoveryAssumption, FS_Subset
  <2>. QED
    BY <2>1, FS_CardinalityType
<1>2. f \in [1..n -> S] /\ IsInjective(f)
  <2>1. ExistsBijection(1..n, S)
    BY <1>1, FS_CardinalityType
  <2>2. \E g \in [1..n -> S] : IsInjective(g)
    BY <2>1 DEF ExistsBijection, Bijection, Injection
  <2>. QED
    BY <2>2 DEF SetToSeq
<1>3. f \in Surjection(1..n, S)
  <2>1. f \in Injection(1..n, S)
    BY <1>2 DEF Injection
  <2>2. Cardinality(1..n) = n
    BY <1>1, FS_Interval
  <2> HIDE DEF f, n
  <2>3. Cardinality(1..n) = Cardinality(S)
    BY <2>2 DEF n
  <2>. QED
    BY <1>1, <2>1, <2>3, FS_Injection
<1> HIDE DEF f
<1>4. \A i, j \in 1..n : f[i] = f[j] => i = j
  BY <1>2 DEF IsInjective
<1>5. \A d \in S : \E i \in 1..n : f[i] = d
  BY <1>3 DEF Surjection
<1>. QED
  BY <1>1, <1>2, <1>4, <1>5 DEF f

\* The commands that CountMisses sends.
LEMMA RemoveCommands ==
    ASSUME NEW removed \in SUBSET Domains, NEW domains \in SUBSET Domains,
           removed \subseteq domains
    PROVE  LET r == [i \in 1..Cardinality(removed) |->
                       Command("Remove", SetToSeq(removed)[i])]
           IN  /\ r \in Seq(Commands) /\ InOrder(r, domains)
               /\ Applied(r, domains) = domains \ removed
<1> DEFINE n == Cardinality(removed)
           f == SetToSeq(removed)
           r == [i \in 1..n |-> Command("Remove", f[i])]
<1>1. /\ n \in Nat /\ f \in [1..n -> removed]
      /\ \A i, j \in 1..n : f[i] = f[j] => i = j
      /\ \A d \in removed : \E i \in 1..n : f[i] = d
  BY Enumeration
<1> HIDE DEF f
<1>2. \A i \in 1..n : f[i] \in removed /\ Command("Remove", f[i]) \in Commands
  BY <1>1 DEF Command, Commands
<1>3. r \in Seq(Commands) /\ Len(r) = n
  <2>1. r \in [1..n -> Commands]
    BY <1>2
  <2> HIDE DEF r
  <2>. QED
    BY <1>1, <2>1
<1>4. \A i \in 1..n : r[i].kind = "Remove" /\ r[i].domain = f[i]
  BY DEF Command
<1> HIDE DEF r, n
<1>5. /\ \A i \in 1..Len(r) : r[i].kind = "Remove" /\ r[i].domain \in domains
      /\ \A i, j \in 1..Len(r) : r[i].domain = r[j].domain => i = j
  BY <1>1, <1>2, <1>3, <1>4
<1>6. \A d : None(r, d) <=> d \notin removed
  BY <1>1, <1>2, <1>3, <1>4 DEF None
<1>7. InOrder(r, domains) /\ Applied(r, domains) = {d \in domains : None(r, d)}
  BY <1>3, <1>5, Removes
<1>. QED
  BY <1>3, <1>6, <1>7 DEF r, f, n

(***************************************************************************)
(* The timer.                                                              *)
(***************************************************************************)

LEMMA Smallest ==
    ASSUME NEW T, T \subseteq Nat, T # {}
    PROVE  Min(T) \in T
<1>1. IsWellFoundedOn(OpToRel(<, Nat), Nat)
  BY NatLessThanWellFounded, Zenon
<1>2. PICK x \in T : \A y \in T : ~(<<y, x>> \in OpToRel(<, Nat))
  BY <1>1, WFMin, Zenon
<1>3. ASSUME NEW y \in T PROVE x <= y
  <2>1. x \in Nat /\ y \in Nat
    OBVIOUS
  <2>2. ~(y < x)
    BY <1>2, <2>1 DEF OpToRel
  <2>. QED
    BY <2>1, <2>2
<1>4. \E z \in T : \A y \in T : z =< y
  BY <1>3
<1>. QED
  BY <1>4 DEF Min

\* The receiver waits for ever or for at most the time between two broadcasts,
\* and a unit.
LEMMA TimerType ==
    ASSUME NEW expected \in [Domains -> Oldest..Rate], NEW domains \in SUBSET Domains
    PROVE  Timers(Timeout(expected, domains)) \subseteq {Forever} \cup 0..(Rate + 1)
<1> DEFINE n == Cardinality(domains)
           order == SetToSeq(domains)
           behind == {i \in 1..Len(order) :
                        \A j \in i..Len(order) : expected[order[j]] > 0}
           T == {expected[order[i]] : i \in behind}
<1>0. Rate \in Nat /\ Oldest \in Int
  BY DiscoveryAssumption DEF Oldest
<1>1. n \in Nat /\ order \in [1..n -> domains]
  BY Enumeration
<1> HIDE DEF n, order
<1>2. Len(order) = n
  BY <1>1
<1>3. \A i \in behind : expected[order[i]] \in 1..Rate
  <2>1. ASSUME NEW i \in behind PROVE expected[order[i]] \in 1..Rate
    <3>1. i \in 1..n /\ i \in i..Len(order) /\ order[i] \in Domains
      BY <1>1, <1>2
    <3>2. expected[order[i]] > 0 /\ expected[order[i]] \in Oldest..Rate
      BY <3>1
    <3>. QED
      BY <1>0, <3>2
  <2>. QED
    BY <2>1
<1>4. Timeout(expected, domains) = IF behind = {} THEN 0 ELSE Min(T)
  BY DEF Timeout, order
<1> HIDE DEF behind
<1>5. Timeout(expected, domains) \in 0..Rate
  <2>1. CASE behind = {}
    BY <1>0, <1>4, <2>1
  <2>2. CASE behind # {}
    <3>1. T \subseteq Nat /\ T # {} /\ T \subseteq 0..Rate
      BY <1>0, <1>3, <2>2
    <3> HIDE DEF T
    <3>2. Min(T) \in T
      BY <3>1, Smallest
    <3>. QED
      BY <1>4, <2>2, <3>1, <3>2
  <2>. QED
    BY <2>1, <2>2
<1>. QED
  BY <1>0, <1>5 DEF Timers, Forever

(***************************************************************************)
(* The threads.                                                            *)
(***************************************************************************)

\* ThreadsAgree without the types, with the commands that are on their way to
\* each thread looked at on their own.
Agree ==
    /\ Applied(domainCommands, domainMap) = Connected
    /\ Applied(synchronizerCommands, syncMap) = domainMap
    /\ announced = domainMap
    /\ InOrder(synchronizerCommands, syncMap)
    /\ InOrder(domainCommands, domainMap)

LEMMA Bounds ==
    /\ Rate \in Nat \ {0} /\ MaxLate \in Nat /\ MaxStarts \in Nat \ {0}
    /\ MAX_RECEIVE_COUNT \in Nat \ {0} /\ MaxDatagrams \in Nat \ {0}
    /\ Oldest \in Int /\ Oldest <= 0
  BY DiscoveryAssumption DEF Oldest

LEMMA CommandsTyped ==
    ASSUME TypeOK
    PROVE  domainCommands \in Seq(Commands) /\ synchronizerCommands \in Seq(Commands)
  BY DEF TypeOK, Commands

LEMMA AgreeMeans ==
    ASSUME TypeOK PROVE ThreadsAgree <=> Agree
<1> DEFINE e == synchronizerCommands \o domainCommands
<1>1. InOrder(e, syncMap) <=>
        /\ InOrder(synchronizerCommands, syncMap)
        /\ InOrder(domainCommands, Applied(synchronizerCommands, syncMap))
  BY CommandsTyped, InOrderConcat
<1>2. InOrder(e, syncMap) <=>
        \A i \in 1..Len(e) :
            LET before == Applied(SubSeq(e, 1, i - 1), syncMap)
            IN (e[i].kind = "Add") <=> (e[i].domain \notin before)
  BY DEF InOrder, Fits
<1>3. ThreadsAgree <=>
        /\ Applied(domainCommands, domainMap) = Connected
        /\ Applied(synchronizerCommands, syncMap) = domainMap
        /\ announced = domainMap
        /\ InOrder(e, syncMap)
  BY <1>2 DEF ThreadsAgree
<1> HIDE DEF e
<1>. QED
  BY <1>1, <1>3 DEF Agree

\* The second half of a round of the receiver's loop: the commands that it
\* adds remove domains that are connected, and those are no longer connected.
LEMMA RoundTyped ==
    ASSUME NEW count \in [Domains -> 0..MAX_RECEIVE_COUNT],
           NEW expected \in [Domains -> Oldest..Rate],
           NEW connected \in [Domains -> 0..MaxStarts],
           NEW cs,
           CheckExpected(count, expected, connected, cs)
    PROVE  /\ receivedCountMap' \in [Domains -> 0..MAX_RECEIVE_COUNT]
           /\ expectedMsgTimeMap' \in [Domains -> Oldest..Rate]
           /\ connectedDomainMap' \in [Domains -> 0..MaxStarts]
           /\ timer' \in {Forever} \cup 0..(Rate + 1)
<1> DEFINE gone == UsedUp(count, expected)
           missed == {d \in Domains : count[d] # 0 /\ expected[d] <= 0}
<1>1. /\ receivedCountMap' = [d \in Domains |->
           IF d \in gone THEN 0
           ELSE IF d \in missed /\ count[d] > 1 THEN count[d] - 1 ELSE count[d]]
      /\ expectedMsgTimeMap' = [d \in Domains |->
           IF d \in gone THEN 0
           ELSE IF d \in missed THEN expected[d] + Rate ELSE expected[d]]
      /\ connectedDomainMap' = [d \in Domains |->
           IF d \in gone THEN 0 ELSE connected[d]]
      /\ timer' \in Timers(Timeout(expectedMsgTimeMap',
                                  {d \in Domains : receivedCountMap'[d] # 0}))
  BY DEF CheckExpected, CountMisses
<1>2. receivedCountMap' \in [Domains -> 0..MAX_RECEIVE_COUNT]
  <2>1. ASSUME NEW d \in Domains
        PROVE  (IF d \in gone THEN 0
                ELSE IF d \in missed /\ count[d] > 1 THEN count[d] - 1 ELSE count[d])
                 \in 0..MAX_RECEIVE_COUNT
    <3>1. count[d] \in 0..MAX_RECEIVE_COUNT
      OBVIOUS
    <3> HIDE DEF gone, missed
    <3>. QED
      BY <3>1, Bounds
  <2> HIDE DEF gone, missed
  <2>. QED
    BY <1>1, <2>1
<1>3. expectedMsgTimeMap' \in [Domains -> Oldest..Rate]
  <2>1. ASSUME NEW d \in Domains
        PROVE  (IF d \in gone THEN 0
                ELSE IF d \in missed THEN expected[d] + Rate ELSE expected[d])
                 \in Oldest..Rate
    <3>1. expected[d] \in Oldest..Rate
      OBVIOUS
    <3>2. d \in missed => expected[d] <= 0
      OBVIOUS
    <3> HIDE DEF gone, missed
    <3>. QED
      BY <3>1, <3>2, Bounds
  <2> HIDE DEF gone, missed
  <2>. QED
    BY <1>1, <2>1
<1>4. connectedDomainMap' \in [Domains -> 0..MaxStarts]
  <2> HIDE DEF gone
  <2>. QED
    BY <1>1, Bounds
<1>5. timer' \in {Forever} \cup 0..(Rate + 1)
  <2> DEFINE known == {d \in Domains : receivedCountMap'[d] # 0}
  <2>1. known \in SUBSET Domains
    OBVIOUS
  <2>2. timer' \in Timers(Timeout(expectedMsgTimeMap', known))
    BY <1>1
  <2> HIDE DEF known
  <2>3. Timers(Timeout(expectedMsgTimeMap', known)) \subseteq {Forever} \cup 0..(Rate + 1)
    BY <1>3, <2>1, TimerType
  <2>. QED
    BY <2>2, <2>3
<1>. QED
  BY <1>2, <1>3, <1>4, <1>5

LEMMA RoundAgrees ==
    ASSUME NEW count, NEW expected,
           NEW connected \in [Domains -> 0..MaxStarts],
           NEW cs \in Seq(Commands),
           NEW domains \in SUBSET Domains,
           Applied(cs, domains) = {d \in Domains : connected[d] # 0},
           InOrder(cs, domains),
           CheckExpected(count, expected, connected, cs)
    PROVE  /\ domainCommands' \in Seq(Commands)
           /\ Applied(domainCommands', domains) = Connected'
           /\ InOrder(domainCommands', domains)
<1> DEFINE gone == UsedUp(count, expected)
           there == {d \in Domains : connected[d] # 0}
           removed == {d \in gone : connected[d] # 0}
           r == [i \in 1..Cardinality(removed) |->
                   Command("Remove", SetToSeq(removed)[i])]
<1>1. /\ connectedDomainMap' = [d \in Domains |->
           IF d \in gone THEN 0 ELSE connected[d]]
      /\ domainCommands' = cs \o r
  BY DEF CheckExpected, CountMisses
<1>2. gone \subseteq Domains
  BY DEF UsedUp
<1>3. /\ removed \in SUBSET Domains /\ there \in SUBSET Domains
      /\ removed \subseteq there
  BY <1>2
<1>4. Connected' = there \ removed
  <2> HIDE DEF gone
  <2>. QED
    BY <1>1, <1>2 DEF Connected
<1> HIDE DEF removed, there
<1>5. /\ r \in Seq(Commands) /\ InOrder(r, there)
      /\ Applied(r, there) = there \ removed
  BY <1>3, RemoveCommands
<1> HIDE DEF r
<1>6. Applied(cs, domains) = there
  BY DEF there
<1>7. /\ cs \o r \in Seq(Commands)
      /\ Applied(cs \o r, domains) = Applied(r, there)
      /\ InOrder(cs \o r, domains)
  BY <1>5, <1>6, AppliedConcat, InOrderConcat, Elements
<1>. QED
  BY <1>1, <1>4, <1>5, <1>7

\* A command that is sent.
LEMMA LastCommand ==
    ASSUME NEW s \in Seq(Commands), NEW c \in Commands, NEW domains,
           InOrder(s, domains), Fits(c, Applied(s, domains))
    PROVE  /\ s \o <<c>> \in Seq(Commands)
           /\ InOrder(s \o <<c>>, domains)
           /\ Applied(s \o <<c>>, domains) = CarryOut(c, Applied(s, domains))
<1> DEFINE t == <<c>>
           after == Applied(s, domains)
<1>1. t \in Seq(Commands)
  OBVIOUS
<1>2. after \in SUBSET Domains
  BY AppliedType
<1>3. InOrder(t, after) /\ Applied(t, after) = CarryOut(c, after)
  BY <1>2, InOrderOne, AppliedOne
<1> HIDE DEF t
<1>4. s \o t \in Seq(Commands)
  BY <1>1, Elements
<1>5. InOrder(s \o t, domains)
  BY <1>1, <1>3, InOrderConcat
<1>6. Applied(s \o t, domains) = Applied(t, after)
  BY <1>1, AppliedConcat
<1>. QED
  BY <1>3, <1>4, <1>5, <1>6 DEF t

\* The first half: a broadcast is counted, and the command that it gives rise
\* to fits what is on its way already.
LEMMA MessageTyped ==
    ASSUME TypeOK, NEW m \in [domain : Domains, starttime : 1..MaxStarts]
    PROVE  /\ [receivedCountMap EXCEPT ![m.domain] = Counted(m.domain)]
                \in [Domains -> 0..MAX_RECEIVE_COUNT]
           /\ [expectedMsgTimeMap EXCEPT ![m.domain] = Rate]
                \in [Domains -> Oldest..Rate]
           /\ ConnectedWith(m) \in [Domains -> 0..MaxStarts]
<1>1. m.domain \in Domains /\ m.starttime \in 0..MaxStarts
  BY Bounds
<1>2. Counted(m.domain) \in 0..MAX_RECEIVE_COUNT
  <2>1. receivedCountMap[m.domain] \in 0..MAX_RECEIVE_COUNT
    BY <1>1 DEF TypeOK
  <2>. QED
    BY <2>1, Bounds DEF Counted
<1>3. Rate \in Oldest..Rate
  BY Bounds
<1>. QED
  BY <1>1, <1>2, <1>3 DEF TypeOK, ConnectedWith

LEMMA MessageAgrees ==
    ASSUME TypeOK, Agree, NEW m \in [domain : Domains, starttime : 1..MaxStarts]
    PROVE  LET cs == domainCommands \o CommandFor(m)
           IN  /\ cs \in Seq(Commands)
               /\ InOrder(cs, domainMap)
               /\ Applied(cs, domainMap) =
                    {d \in Domains : ConnectedWith(m)[d] # 0}
<1> DEFINE d0 == m.domain
           with == {d \in Domains : ConnectedWith(m)[d] # 0}
<1>1. d0 \in Domains /\ m.starttime # 0
  BY Bounds
<1>2. /\ domainCommands \in Seq(Commands) /\ InOrder(domainCommands, domainMap)
      /\ Applied(domainCommands, domainMap) = Connected
      /\ Connected \in SUBSET Domains
  BY CommandsTyped DEF Agree, Connected
<1>3. connectedDomainMap \in [Domains -> 0..MaxStarts]
  BY DEF TypeOK
<1>4. CASE CommandFor(m) = << >>
  <2>1. domainCommands \o CommandFor(m) = domainCommands
    BY <1>2, <1>4, ConcatEmptySeq
  <2>2. with = Connected
    <3>1. CASE ~Enough(d0)
      BY <3>1 DEF ConnectedWith, Connected
    <3>2. CASE Enough(d0)
      <4>1. connectedDomainMap[d0] # 0
        <5>1. CASE connectedDomainMap[d0] = 0
          BY <1>4, <3>2, <5>1 DEF CommandFor
        <5>. QED
          BY <5>1
      <4>. QED
        BY <1>1, <1>3, <3>2, <4>1 DEF ConnectedWith, Connected
    <3>. QED
      BY <3>1, <3>2
  <2>. QED
    BY <1>2, <2>1, <2>2
<1>5. ASSUME NEW c \in Commands, CommandFor(m) = <<c>>, Fits(c, Connected),
             CarryOut(c, Connected) = with
      PROVE  /\ domainCommands \o CommandFor(m) \in Seq(Commands)
             /\ InOrder(domainCommands \o CommandFor(m), domainMap)
             /\ Applied(domainCommands \o CommandFor(m), domainMap) = with
  <2> HIDE DEF with
  <2>1. /\ domainCommands \o <<c>> \in Seq(Commands)
        /\ InOrder(domainCommands \o <<c>>, domainMap)
        /\ Applied(domainCommands \o <<c>>, domainMap) = CarryOut(c, Connected)
    BY <1>2, <1>5, LastCommand
  <2>. QED
    BY <1>5, <2>1
<1>6. CASE Enough(d0) /\ connectedDomainMap[d0] = 0
  <2> DEFINE c == Command("Add", d0)
  <2>1. c \in Commands /\ c.kind = "Add" /\ c.domain = d0
    BY <1>1 DEF Command, Commands
  <2>2. CommandFor(m) = <<c>>
    BY <1>6 DEF CommandFor
  <2>3. Fits(c, Connected)
    BY <1>6, <2>1 DEF Fits, Connected
  <2>4. with = Connected \cup {d0}
    BY <1>1, <1>3, <1>6 DEF ConnectedWith, Connected
  <2>5. CarryOut(c, Connected) = with
    BY <2>1, <2>4 DEF CarryOut
  <2> HIDE DEF c, with
  <2>6. /\ domainCommands \o CommandFor(m) \in Seq(Commands)
        /\ InOrder(domainCommands \o CommandFor(m), domainMap)
        /\ Applied(domainCommands \o CommandFor(m), domainMap) = with
    BY <1>5, <2>1, <2>2, <2>3, <2>5
  <2>. QED
    BY <2>6 DEF with
<1>7. CASE /\ Enough(d0) /\ connectedDomainMap[d0] # 0
           /\ connectedDomainMap[d0] # m.starttime
  <2> DEFINE c == Command("Update", d0)
  <2>1. c \in Commands /\ c.kind = "Update" /\ c.domain = d0
    BY <1>1 DEF Command, Commands
  <2>2. CommandFor(m) = <<c>>
    BY <1>7 DEF CommandFor
  <2>3. Fits(c, Connected) /\ d0 \in Connected
    BY <1>1, <1>7, <2>1 DEF Fits, Connected
  <2>4. with = Connected
    BY <1>1, <1>3, <1>7 DEF ConnectedWith, Connected
  <2>5. CarryOut(c, Connected) = with
    BY <2>1, <2>3, <2>4 DEF CarryOut
  <2> HIDE DEF c, with
  <2>6. /\ domainCommands \o CommandFor(m) \in Seq(Commands)
        /\ InOrder(domainCommands \o CommandFor(m), domainMap)
        /\ Applied(domainCommands \o CommandFor(m), domainMap) = with
    BY <1>5, <2>1, <2>2, <2>3, <2>5
  <2>. QED
    BY <2>6 DEF with
<1>8. CASE ~Enough(d0) \/ connectedDomainMap[d0] = m.starttime
  <2>1. CommandFor(m) = << >>
    BY <1>1, <1>8 DEF CommandFor
  <2>. QED
    BY <1>4, <2>1
<1>. QED
  BY <1>6, <1>7, <1>8

\* A first command that is carried out.
LEMMA FirstCommand ==
    ASSUME NEW s \in Seq(Commands), s # << >>, NEW domains \in SUBSET Domains,
           InOrder(s, domains)
    PROVE  /\ Head(s) \in Commands /\ Tail(s) \in Seq(Commands)
           /\ Fits(Head(s), domains)
           /\ InOrder(Tail(s), CarryOut(Head(s), domains))
           /\ Applied(Tail(s), CarryOut(Head(s), domains)) = Applied(s, domains)
<1> DEFINE c == Head(s)
           t == Tail(s)
<1>1. c \in Commands /\ t \in Seq(Commands) /\ Len(s) # 0
  OBVIOUS
<1>2. s = <<c>> \o t
  BY <1>1
<1>3. <<c>> \in Seq(Commands)
  BY <1>1
<1> HIDE DEF c, t
<1>4. InOrder(<<c>>, domains) /\ InOrder(t, Applied(<<c>>, domains))
  BY <1>1, <1>2, <1>3, InOrderConcat
<1>5. Applied(s, domains) = Applied(t, Applied(<<c>>, domains))
  BY <1>1, <1>2, <1>3, AppliedConcat
<1>6. Applied(<<c>>, domains) = CarryOut(c, domains) /\ Fits(c, domains)
  BY <1>1, <1>4, AppliedOne, InOrderOne
<1>. QED
  BY <1>1, <1>4, <1>5, <1>6 DEF c, t

(***************************************************************************)
(* Every step keeps the types and the agreement.                           *)
(***************************************************************************)

LEMMA InitAgrees ==
    ASSUME Init PROVE TypeOK /\ Agree
<1>1. TypeOK
  <2>1. << >> \in Seq([domain : Domains, starttime : 1..MaxStarts])
    OBVIOUS
  <2>2. << >> \in Seq([kind : {"Add", "Update", "Remove"}, domain : Domains])
    OBVIOUS
  <2>3. /\ 0 \in 0..Rate /\ 1 \in 1..MaxStarts /\ Len(<< >>) <= MaxDatagrams
        /\ 0 \in 0..MAX_RECEIVE_COUNT /\ 0 \in Oldest..Rate /\ 0 \in 0..MaxStarts
        /\ 0 \in 0..MaxLate
    BY Bounds
  <2>4. \A d \in Domains : (d = OwnDomain /\ BroadcastEnabled) \in BOOLEAN
    OBVIOUS
  <2>. QED
    BY <2>1, <2>2, <2>3, <2>4 DEF Init, TypeOK
<1>2. Agree
  <2>1. Applied(<< >>, {}) = {}
    BY AppliedNone
  <2>2. \A domains : InOrder(<< >>, domains)
    BY DEF InOrder
  <2>3. Connected = {}
    BY DEF Init, Connected
  <2>. QED
    BY <2>1, <2>2, <2>3 DEF Init, Agree
<1>. QED
  BY <1>1, <1>2

\* Steps that leave the maps and the commands alone.
LEMMA OthersAgree ==
    ASSUME Agree,
           UNCHANGED <<connectedDomainMap, domainCommands, mainVars, synchronizerVars>>
    PROVE  Agree'
  BY DEF Agree, Connected, mainVars, synchronizerVars

LEMMA BroadcastersAgree ==
    ASSUME TypeOK, Agree, NEW d \in Domains, Start(d) \/ Stop(d) \/ Broadcast(d)
    PROVE  TypeOK' /\ Agree'
<1>1. Agree'
  BY OthersAgree DEF Start, Stop, Broadcast, receiverVars
<1>2. CASE Start(d)
  <2>1. PICK s \in starttime[d]..MaxStarts : starttime' = [starttime EXCEPT ![d] = s]
    BY <1>2 DEF Start
  <2>2. s \in 1..MaxStarts
    <3>1. starttime[d] \in 1..MaxStarts
      BY DEF TypeOK
    <3>. QED
      BY <2>1, <3>1, Bounds
  <2>3. starttime' \in [Domains -> 1..MaxStarts]
    BY <2>1, <2>2 DEF TypeOK
  <2>4. up' \in [Domains -> BOOLEAN] /\ sleep' \in [Domains -> 0..Rate]
    BY <1>2, Bounds DEF Start, TypeOK
  <2>. QED
    BY <1>1, <1>2, <2>3, <2>4
    DEF Start, TypeOK, receiverVars, mainVars, synchronizerVars
<1>3. CASE Stop(d)
  <2>1. up' \in [Domains -> BOOLEAN] /\ sleep' \in [Domains -> 0..Rate]
    BY <1>3, Bounds DEF Stop, TypeOK
  <2>. QED
    BY <1>1, <1>3, <2>1 DEF Stop, TypeOK, receiverVars, mainVars, synchronizerVars
<1>4. CASE Broadcast(d)
  <2> DEFINE M == [domain : Domains, starttime : 1..MaxStarts]
             m == [domain |-> d, starttime |-> starttime[d]]
  <2>1. sleep' \in [Domains -> 0..Rate]
    BY <1>4, Bounds DEF Broadcast, TypeOK
  <2>2. m \in M
    BY DEF TypeOK
  <2>3. datagrams \in Seq(M) /\ Len(datagrams) <= MaxDatagrams /\ Len(datagrams) \in Nat
    BY DEF TypeOK
  <2>4. \/ Len(datagrams) < MaxDatagrams /\ datagrams' = Append(datagrams, m)
        \/ datagrams' = datagrams
    BY <1>4 DEF Broadcast
  <2> HIDE DEF m, M
  <2>5. datagrams' \in Seq(M) /\ Len(datagrams') <= MaxDatagrams
    <3>1. Append(datagrams, m) \in Seq(M) /\ Len(Append(datagrams, m)) = Len(datagrams) + 1
      BY <2>2, <2>3, AppendProperties
    <3>. QED
      BY <2>3, <2>4, <3>1, Bounds
  <2>. QED
    BY <1>1, <1>4, <2>1, <2>5
    DEF Broadcast, TypeOK, receiverVars, mainVars, synchronizerVars, M
<1>. QED
  BY <1>2, <1>3, <1>4

\* A round of the receiver's loop, with a message or without.
LEMMA RoundKeeps ==
    ASSUME TypeOK, Agree,
           NEW count \in [Domains -> 0..MAX_RECEIVE_COUNT],
           NEW expected \in [Domains -> Oldest..Rate],
           NEW connected \in [Domains -> 0..MaxStarts],
           NEW cs \in Seq(Commands),
           Applied(cs, domainMap) = {d \in Domains : connected[d] # 0},
           InOrder(cs, domainMap),
           CheckExpected(count, expected, connected, cs),
           datagrams' \in Seq([domain : Domains, starttime : 1..MaxStarts]),
           Len(datagrams') <= MaxDatagrams,
           late' = 0,
           UNCHANGED <<remoteVars, mainVars, synchronizerVars>>
    PROVE  TypeOK' /\ Agree'
<1>1. /\ receivedCountMap' \in [Domains -> 0..MAX_RECEIVE_COUNT]
      /\ expectedMsgTimeMap' \in [Domains -> Oldest..Rate]
      /\ connectedDomainMap' \in [Domains -> 0..MaxStarts]
      /\ timer' \in {Forever} \cup 0..(Rate + 1)
  BY RoundTyped
<1>2. domainMap \in SUBSET Domains
  BY DEF TypeOK
<1>3. /\ domainCommands' \in Seq(Commands)
      /\ Applied(domainCommands', domainMap) = Connected'
      /\ InOrder(domainCommands', domainMap)
  BY <1>2, RoundAgrees
<1>4. late' \in 0..MaxLate
  BY Bounds
<1>5. TypeOK'
  BY <1>1, <1>3, <1>4 DEF TypeOK, Commands, remoteVars, mainVars, synchronizerVars
<1>6. Agree'
  BY <1>3 DEF Agree, mainVars, synchronizerVars
<1>. QED
  BY <1>5, <1>6

LEMMA ReceiverAgrees ==
    ASSUME TypeOK, Agree, Receive \/ ReceiveTimeout
    PROVE  TypeOK' /\ Agree'
<1> DEFINE M == [domain : Domains, starttime : 1..MaxStarts]
<1>1. datagrams \in Seq(M) /\ Len(datagrams) <= MaxDatagrams
  BY DEF TypeOK
<1>2. ASSUME CheckExpected(receivedCountMap, expectedMsgTimeMap,
                           connectedDomainMap, domainCommands),
             datagrams' \in Seq(M), Len(datagrams') <= MaxDatagrams, late' = 0,
             UNCHANGED <<remoteVars, mainVars, synchronizerVars>>
      PROVE  TypeOK' /\ Agree'
  <2>1. /\ receivedCountMap \in [Domains -> 0..MAX_RECEIVE_COUNT]
        /\ expectedMsgTimeMap \in [Domains -> Oldest..Rate]
        /\ connectedDomainMap \in [Domains -> 0..MaxStarts]
        /\ domainCommands \in Seq(Commands)
    BY CommandsTyped DEF TypeOK
  <2>2. /\ Applied(domainCommands, domainMap) =
             {d \in Domains : connectedDomainMap[d] # 0}
        /\ InOrder(domainCommands, domainMap)
    BY DEF Agree, Connected
  <2>. QED
    BY <1>2, <2>1, <2>2, RoundKeeps
<1>3. CASE ReceiveTimeout
  BY <1>1, <1>2, <1>3 DEF ReceiveTimeout
<1>4. CASE Receive
  <2> DEFINE m == Head(datagrams)
  <2>1. datagrams # << >> /\ datagrams' = Tail(datagrams)
    BY <1>4 DEF Receive
  <2>2. /\ m \in M /\ datagrams' \in Seq(M)
        /\ Len(datagrams') = Len(datagrams) - 1 /\ Len(datagrams) \in Nat
    <3> HIDE DEF M
    <3>. QED
      BY <1>1, <2>1, HeadTailProperties, LenProperties
  <2>3. Len(datagrams') <= MaxDatagrams
    BY <1>1, <2>2, Bounds
  <2>4. late' = 0 /\ UNCHANGED <<remoteVars, mainVars, synchronizerVars>>
    BY <1>4 DEF Receive
  <2>5. CASE CheckExpected([receivedCountMap EXCEPT ![m.domain] = Counted(m.domain)],
                           [expectedMsgTimeMap EXCEPT ![m.domain] = Rate],
                           ConnectedWith(m), domainCommands \o CommandFor(m))
    <3> HIDE DEF m
    <3>1. /\ [receivedCountMap EXCEPT ![m.domain] = Counted(m.domain)]
               \in [Domains -> 0..MAX_RECEIVE_COUNT]
          /\ [expectedMsgTimeMap EXCEPT ![m.domain] = Rate]
               \in [Domains -> Oldest..Rate]
          /\ ConnectedWith(m) \in [Domains -> 0..MaxStarts]
      BY <2>2, MessageTyped
    <3>2. /\ domainCommands \o CommandFor(m) \in Seq(Commands)
          /\ InOrder(domainCommands \o CommandFor(m), domainMap)
          /\ Applied(domainCommands \o CommandFor(m), domainMap) =
               {d \in Domains : ConnectedWith(m)[d] # 0}
      BY <2>2, MessageAgrees
    <3>. QED
      BY <2>2, <2>3, <2>4, <2>5, <3>1, <3>2, RoundKeeps
  <2>6. CASE CheckExpected(receivedCountMap, expectedMsgTimeMap,
                           connectedDomainMap, domainCommands)
    BY <1>2, <2>2, <2>3, <2>4, <2>6
  <2>. QED
    BY <1>4, <2>5, <2>6 DEF Receive
<1>. QED
  BY <1>3, <1>4

LEMMA MainLoopAgrees ==
    ASSUME TypeOK, Agree, MainLoop
    PROVE  TypeOK' /\ Agree'
<1> DEFINE c == Head(domainCommands)
<1>1. /\ domainCommands # << >> /\ domainCommands' = Tail(domainCommands)
      /\ domainMap' = CarryOut(c, domainMap)
      /\ announced' = IF c.kind = "Update" THEN announced ELSE domainMap'
      /\ synchronizerCommands' = Append(synchronizerCommands, c)
      /\ UNCHANGED <<remoteVars, datagrams, receiverVars, syncMap>>
  BY DEF MainLoop, CarryOut
<1>2. /\ domainCommands \in Seq(Commands) /\ synchronizerCommands \in Seq(Commands)
      /\ domainMap \in SUBSET Domains
  BY CommandsTyped DEF TypeOK
<1>3. /\ c \in Commands /\ domainCommands' \in Seq(Commands)
      /\ Fits(c, domainMap)
      /\ InOrder(domainCommands', domainMap')
      /\ Applied(domainCommands', domainMap') = Connected
  BY <1>1, <1>2, FirstCommand DEF Agree
<1> HIDE DEF c
<1>4. Append(synchronizerCommands, c) = synchronizerCommands \o <<c>>
  BY <1>2, <1>3, AppendIsConcat
<1>5. /\ synchronizerCommands' \in Seq(Commands)
      /\ InOrder(synchronizerCommands', syncMap)
      /\ Applied(synchronizerCommands', syncMap) = domainMap'
  BY <1>1, <1>2, <1>3, <1>4, LastCommand DEF Agree
<1>6. announced' = domainMap'
  BY <1>1, <1>3 DEF Agree, Fits, CarryOut
<1>7. domainMap' \subseteq Domains
  BY <1>1, <1>2, <1>3 DEF CarryOut, Commands
<1>8. Agree'
  BY <1>1, <1>3, <1>5, <1>6 DEF Agree, Connected, receiverVars
<1>9. TypeOK'
  BY <1>1, <1>3, <1>5, <1>6, <1>7 DEF TypeOK, Commands, remoteVars, receiverVars
<1>. QED
  BY <1>8, <1>9

LEMMA SynchronizeAgrees ==
    ASSUME TypeOK, Agree, Synchronize
    PROVE  TypeOK' /\ Agree'
<1> DEFINE c == Head(synchronizerCommands)
<1>1. /\ synchronizerCommands # << >>
      /\ synchronizerCommands' = Tail(synchronizerCommands)
      /\ syncMap' = CarryOut(c, syncMap)
      /\ UNCHANGED <<remoteVars, datagrams, receiverVars, domainCommands, mainVars>>
  BY DEF Synchronize, CarryOut
<1>2. synchronizerCommands \in Seq(Commands) /\ syncMap \in SUBSET Domains
  BY CommandsTyped DEF TypeOK
<1>3. /\ c \in Commands /\ synchronizerCommands' \in Seq(Commands)
      /\ InOrder(synchronizerCommands', syncMap')
      /\ Applied(synchronizerCommands', syncMap') = domainMap
  BY <1>1, <1>2, FirstCommand DEF Agree
<1> HIDE DEF c
<1>4. syncMap' \subseteq Domains
  BY <1>1, <1>2, <1>3 DEF CarryOut, Commands
<1>5. Agree'
  BY <1>1, <1>3 DEF Agree, Connected, receiverVars, mainVars
<1>6. TypeOK'
  BY <1>1, <1>3, <1>4 DEF TypeOK, Commands, remoteVars, receiverVars, mainVars
<1>. QED
  BY <1>5, <1>6

LEMMA TickAgrees ==
    ASSUME TypeOK, Agree, Tick
    PROVE  TypeOK' /\ Agree'
<1>1. Agree'
  BY OthersAgree DEF Tick
<1>2. sleep' \in [Domains -> 0..Rate]
  <2>1. ASSUME NEW d \in Domains
        PROVE  (IF up[d] THEN sleep[d] - 1 ELSE 0) \in 0..Rate
    <3>1. sleep[d] \in 0..Rate /\ up[d] \in BOOLEAN
      BY DEF TypeOK
    <3>2. up[d] => sleep[d] > 0
      BY DEF Tick
    <3>. QED
      BY <3>1, <3>2, Bounds
  <2>. QED
    BY <2>1 DEF Tick
<1>3. expectedMsgTimeMap' \in [Domains -> Oldest..Rate]
  <2>1. ASSUME NEW d \in Domains
        PROVE  (IF d \in Known /\ expectedMsgTimeMap[d] > Oldest
                THEN expectedMsgTimeMap[d] - 1 ELSE expectedMsgTimeMap[d])
                 \in Oldest..Rate
    <3>1. expectedMsgTimeMap[d] \in Oldest..Rate
      BY DEF TypeOK
    <3>. QED
      BY <3>1, Bounds
  <2>. QED
    BY <2>1 DEF Tick
<1>4. late' \in 0..MaxLate
  <2>1. late \in 0..MaxLate
    BY DEF TypeOK
  <2>2. \/ late < MaxLate /\ late' = late + 1
        \/ late' = 0
    BY DEF Tick
  <2>. QED
    BY <2>1, <2>2, Bounds
<1>5. timer' \in {Forever} \cup 0..(Rate + 1)
  BY Bounds DEF TypeOK, Tick, Forever
<1>. QED
  BY <1>1, <1>2, <1>3, <1>4, <1>5 DEF Tick, TypeOK, mainVars, synchronizerVars

\* Once the commands that are on their way have been carried out, the
\* receiver, the main loop and the synchronizer know the same domains, which
\* are the ones clients were last told of, and every command fits the map of
\* the thread that carries it out: the look-up of an Update's domain in
\* ServiceDirectorySynchronizer.cpp never fails.  For any number of domains,
\* however late a thread is and whichever broadcasts are lost.
THEOREM ThreadsAgreeHolds == Spec => []ThreadsAgree
<1>1. Init => TypeOK /\ Agree
  BY InitAgrees
<1>2. (TypeOK /\ Agree) /\ [Next]_vars => (TypeOK /\ Agree)'
  <2> SUFFICES ASSUME TypeOK, Agree, [Next]_vars PROVE TypeOK' /\ Agree'
    OBVIOUS
  <2>1. ASSUME NEW d \in Domains, Start(d) \/ Stop(d) \/ Broadcast(d)
        PROVE  TypeOK' /\ Agree'
    BY <2>1, BroadcastersAgree
  <2>2. CASE Receive \/ ReceiveTimeout
    BY <2>2, ReceiverAgrees
  <2>3. CASE MainLoop
    BY <2>3, MainLoopAgrees
  <2>4. CASE Synchronize
    BY <2>4, SynchronizeAgrees
  <2>5. CASE Tick
    BY <2>5, TickAgrees
  <2>6. CASE UNCHANGED vars
    <3>1. Agree'
      BY <2>6, OthersAgree DEF vars, receiverVars
    <3>. QED
      BY <2>6, <3>1 DEF vars, TypeOK, remoteVars, receiverVars, mainVars,
                       synchronizerVars
  <2>. QED
    BY <2>1, <2>2, <2>3, <2>4, <2>5, <2>6 DEF Next
<1>3. TypeOK /\ Agree => ThreadsAgree
  BY AgreeMeans
<1>. QED
  BY <1>1, <1>2, <1>3, PTL DEF Spec

-----------------------------------------------------------------------------
(***************************************************************************)
(* Synchronization: the types, and how two registrations can be in each    *)
(* other's way.                                                            *)
(***************************************************************************)

\* The values of the variables, and what the maps, the requests and the
\* messages look like.
Phases == {"down", "up", "details", "timed", "ready"}
PublisherType == [id : AllProducts, url : AllUrls, registration_time : Nat]
MapsType == [data : SUBSET PublisherType,
             service : [AllServices -> AllUrls \cup {NoUrl}],
             instance : [AllUrls -> Nat]]
Named == [type : {"DATA", "SERVICE"}, id : AllProducts \cup AllServices,
          url : AllUrls, timestamp : Nat]
RequestType == [kind : {"register"}, entry : Registrations]
               \cup [kind : {"unregister"}, secs : Nat, entry : Named]
DetailsType == [socket : {"none", "lookup", "sub"}, initialized : BOOLEAN,
                registrationTime : Nat, map : SUBSET Registrations,
                type : {"DATA", "SERVICE"}]
LookupType == [state : {"none", "sent", "lost", "empty", "found"}, time : Nat]

\* Do two registrations share a URL or the ID of a service?
Touch(e, a) ==
    e.url = a.url \/ (e.type = "SERVICE" /\ a.type = "SERVICE" /\ e.id = a.id)

\* At most one registration at a URL, and one provider of a service.
Clean(S) == \A e, f \in S : Touch(e, f) => e = f

\* A DomainDetails message: its map comes from a leader that purges nothing.
MessageType ==
    {m \in [registration_time : Nat, map : SUBSET Registrations,
            change_type : {"ADD", "REMOVE"}, change : Registrations] :
        IsFiniteSet(m.map) /\ Clean(m.map)}

(***************************************************************************)
(* The maps of a directory                                                 *)
(***************************************************************************)

\* What the maps of the leader are like when nothing is purged.
Timed(maps) ==
    /\ \A p \in maps.data : /\ maps.instance[p.url] # 0
                            /\ p.registration_time = Secs(maps.instance[p.url])
    /\ \A s \in AllServices :
          maps.service[s] # NoUrl => maps.instance[maps.service[s]] # 0

\* Every URL with an instance has its entry, and no two entries are in each
\* other's way: then the entries say all there is in the maps.
Faithful(maps) ==
    /\ Timed(maps)
    /\ \A u \in AllUrls :
          maps.instance[u] # 0 => \E e \in Entries(maps) : e.url = u
    /\ Clean(Entries(maps))

\* The maps hold exactly this registration.
Has(maps, e) ==
    /\ maps.instance[e.url] = e.timestamp
    /\ IF e.type = "DATA" THEN Publisher(e.id, e.url, Secs(e.timestamp)) \in maps.data
       ELSE maps.service[e.id] = e.url

\* Seconds are numbers.
LEMMA SecsNat ==
    ASSUME NEW t \in Nat
    PROVE  Secs(t) \in Nat
  BY DomainSyncAssumption DEF Secs

\* The next full second is later, and the time in seconds of a timestamp after
\* the first second is not 0.
LEMMA NextSecond ==
    ASSUME NEW t \in Nat
    PROVE  /\ (Secs(t) + 1) * TicksPerSecond \in Nat
           /\ (Secs(t) + 1) * TicksPerSecond >= t
           /\ (Secs(t) + 1) * TicksPerSecond >= TicksPerSecond
           /\ t >= TicksPerSecond => Secs(t) # 0
<1> DEFINE k == TicksPerSecond
           x == t \div k
<1>1. k \in Nat /\ k > 0
  BY DomainSyncAssumption
<1>2. x \in Nat /\ t < k * x + k
  BY <1>1
<1> HIDE DEF k, x
<1>3. (x + 1) * k = k * x + k /\ k * x \in Nat
  BY <1>1, <1>2
<1>4. x = 0 => k * x = 0
  BY <1>1
<1>. QED
  BY <1>1, <1>2, <1>3, <1>4 DEF k, x, Secs

\* No registration has NoUrl.
LEMMA NoUrlOut == NoUrl \notin AllUrls
  BY DomainSyncAssumption DEF AllUrls

\* The fields of a registration.
LEMMA RegistrationIs ==
    ASSUME NEW e \in Registrations
    PROVE  /\ e = Registration(e.type, e.id, e.url, e.timestamp)
           /\ e.url \in AllUrls /\ e.timestamp \in Nat
           /\ e.type \in {"DATA", "SERVICE"}
           /\ e.type = "DATA" => e.id \in AllProducts
           /\ e.type = "SERVICE" => e.id \in AllServices
           /\ e \in Named
  BY DEF Registrations, Registration, Named

\* What ServiceDirectoryMapPB shows of maps whose times are right.
LEMMA EntriesHas ==
    ASSUME NEW maps \in MapsType, Timed(maps)
    PROVE  /\ Entries(maps) \subseteq Registrations
           /\ \A e \in Registrations : e \in Entries(maps) <=> Has(maps, e)
           /\ \A e \in Entries(maps) : e.timestamp # 0
<1>1. ASSUME NEW e \in Entries(maps)
      PROVE  e \in Registrations /\ Has(maps, e) /\ e.timestamp # 0
  <2>1. CASE \E p \in maps.data : e = Registration("DATA", p.id, p.url, maps.instance[p.url])
    <3>1. PICK p \in maps.data : e = Registration("DATA", p.id, p.url, maps.instance[p.url])
      BY <2>1
    <3>2. p \in PublisherType /\ p = Publisher(p.id, p.url, p.registration_time)
      BY DEF MapsType, PublisherType, Publisher
    <3>3. /\ p.id \in AllProducts /\ p.url \in AllUrls
          /\ maps.instance[p.url] \in Nat /\ maps.instance[p.url] # 0
          /\ p.registration_time = Secs(maps.instance[p.url])
      BY <3>2 DEF MapsType, PublisherType, Timed
    <3>. QED
      BY <3>1, <3>2, <3>3 DEF Registrations, Registration, Has
  <2>2. CASE \E s \in AllServices : maps.service[s] # NoUrl
               /\ e = Registration("SERVICE", s, maps.service[s],
                                   maps.instance[maps.service[s]])
    <3>1. PICK s \in AllServices : maps.service[s] # NoUrl
               /\ e = Registration("SERVICE", s, maps.service[s],
                                   maps.instance[maps.service[s]])
      BY <2>2
    <3>2. /\ maps.service[s] \in AllUrls
          /\ maps.instance[maps.service[s]] \in Nat /\ maps.instance[maps.service[s]] # 0
      BY <3>1 DEF MapsType, Timed
    <3>. QED
      BY <3>1, <3>2 DEF Registrations, Registration, Has
  <2>. QED
    BY <2>1, <2>2 DEF Entries
<1>2. ASSUME NEW e \in Registrations, Has(maps, e)
      PROVE  e \in Entries(maps)
  <2>1. CASE e.type = "DATA"
    <3>1. PICK p \in maps.data : p = Publisher(e.id, e.url, Secs(e.timestamp))
      BY <1>2, <2>1 DEF Has
    <3>2. e = Registration("DATA", p.id, p.url, maps.instance[p.url])
      BY <1>2, <2>1, <3>1, RegistrationIs DEF Has, Publisher
    <3>. QED
      BY <3>2 DEF Entries
  <2>2. CASE e.type = "SERVICE"
    <3>1. e.id \in AllServices /\ maps.service[e.id] = e.url /\ e.url # NoUrl
      BY <1>2, <2>2, RegistrationIs, NoUrlOut DEF Has
    <3>2. e = Registration("SERVICE", e.id, maps.service[e.id], maps.instance[maps.service[e.id]])
      BY <1>2, <2>2, <3>1, RegistrationIs DEF Has
    <3>. QED
      BY <3>1, <3>2 DEF Entries
  <2>. QED
    BY <2>1, <2>2, RegistrationIs
<1>. QED
  BY <1>1, <1>2

\* A registration that touches nothing that is listed.
Fresh(maps, e) == \A f \in Entries(maps) : ~Touch(e, f)

\* Nothing in the maps has the URL or the service of a fresh registration.
LEMMA FreshMeans ==
    ASSUME NEW maps \in MapsType, Faithful(maps), NEW e \in Registrations,
           Fresh(maps, e)
    PROVE  /\ \A p \in maps.data : p.url # e.url
           /\ \A s \in AllServices : maps.service[s] # e.url
           /\ maps.instance[e.url] = 0
           /\ e.type = "SERVICE" => maps.service[e.id] = NoUrl
<1>1. Timed(maps) /\ e.url \in AllUrls /\ e.url # NoUrl
  BY RegistrationIs, NoUrlOut DEF Faithful
<1>2. maps.instance[e.url] = 0
  BY <1>1 DEF Faithful, Fresh, Touch
<1>3. ASSUME NEW p \in maps.data PROVE p.url # e.url
  BY <1>1, <1>2 DEF Timed
<1>4. ASSUME NEW s \in AllServices PROVE maps.service[s] # e.url
  BY <1>1, <1>2 DEF Timed
<1>5. ASSUME e.type = "SERVICE", maps.service[e.id] # NoUrl PROVE FALSE
  <2>1. e.id \in AllServices
    BY <1>5, RegistrationIs
  <2> DEFINE f == Registration("SERVICE", e.id, maps.service[e.id], maps.instance[maps.service[e.id]])
  <2>2. f \in Entries(maps)
    BY <1>5, <2>1 DEF Entries
  <2>3. Touch(e, f)
    BY <1>5 DEF Touch, Registration
  <2>. QED
    BY <2>2, <2>3 DEF Fresh
<1>. QED
  BY <1>2, <1>3, <1>4, <1>5

\* The maps with a registration that touches nothing.
Added(maps, e) ==
    IF e.type = "DATA" THEN Entered(maps, e)
    ELSE Instanced(Entered(maps, e), e, e.timestamp)

\* The parts of the maps after a fresh registration.
LEMMA AddedIs ==
    ASSUME NEW maps \in MapsType, Faithful(maps), NEW e \in Registrations,
           Fresh(maps, e)
    PROVE  /\ Added(maps, e) \in MapsType
           /\ Added(maps, e).instance = [maps.instance EXCEPT ![e.url] = e.timestamp]
           /\ Added(maps, e).data =
                 IF e.type = "DATA"
                 THEN maps.data \cup {Publisher(e.id, e.url, Secs(e.timestamp))}
                 ELSE maps.data
           /\ Added(maps, e).service =
                 IF e.type = "DATA" THEN maps.service
                 ELSE [maps.service EXCEPT ![e.id] = e.url]
<1>1. /\ e.url \in AllUrls /\ e.timestamp \in Nat /\ e.type \in {"DATA", "SERVICE"}
      /\ e.type = "DATA" => e.id \in AllProducts
      /\ e.type = "SERVICE" => e.id \in AllServices
      /\ Secs(e.timestamp) \in Nat
  BY RegistrationIs, SecsNat
<1>2. /\ maps.data \in SUBSET PublisherType
      /\ maps.service \in [AllServices -> AllUrls \cup {NoUrl}]
      /\ maps.instance \in [AllUrls -> Nat]
      /\ maps = [data |-> maps.data, service |-> maps.service, instance |-> maps.instance]
  BY DEF MapsType
<1>3. {p \in maps.data : p.id # e.id \/ p.url # e.url} = maps.data
  BY FreshMeans
<1>4. CASE e.type = "DATA"
  <2>1. Added(maps, e) = [data |-> maps.data \cup {Publisher(e.id, e.url, Secs(e.timestamp))},
                          service |-> maps.service,
                          instance |-> [maps.instance EXCEPT ![e.url] = e.timestamp]]
    BY <1>1, <1>2, <1>3, <1>4 DEF Added, Entered
  <2>2. Publisher(e.id, e.url, Secs(e.timestamp)) \in PublisherType
    BY <1>1, <1>4 DEF Publisher, PublisherType
  <2>3. [maps.instance EXCEPT ![e.url] = e.timestamp] \in [AllUrls -> Nat]
    BY <1>1, <1>2
  <2>. QED
    BY <1>2, <1>4, <2>1, <2>2, <2>3 DEF MapsType
<1>5. CASE e.type = "SERVICE"
  <2>1. Added(maps, e) = [data |-> maps.data,
                          service |-> [maps.service EXCEPT ![e.id] = e.url],
                          instance |-> [maps.instance EXCEPT ![e.url] = e.timestamp]]
    BY <1>1, <1>2, <1>5 DEF Added, Entered, Instanced
  <2>2. /\ [maps.instance EXCEPT ![e.url] = e.timestamp] \in [AllUrls -> Nat]
        /\ [maps.service EXCEPT ![e.id] = e.url] \in [AllServices -> AllUrls \cup {NoUrl}]
    BY <1>1, <1>2
  <2>. QED
    BY <1>2, <1>5, <2>1, <2>2 DEF MapsType
<1>. QED
  BY <1>1, <1>4, <1>5

\* A fresh registration is accepted, purges nothing, and is one entry more.
LEMMA AddedEntries ==
    ASSUME NEW maps \in MapsType, Faithful(maps), NEW e \in Registrations,
           Fresh(maps, e), e.timestamp # 0
    PROVE  /\ Added(maps, e) \in MapsType /\ Faithful(Added(maps, e))
           /\ Entries(Added(maps, e)) = Entries(maps) \cup {e}
           /\ Accepted(maps, e) /\ Obsolete(maps, e) = {}
           /\ Publisher(e.id, e.url, Secs(e.timestamp)) \notin maps.data
<1> DEFINE new == Added(maps, e)
<1>1. /\ e.url \in AllUrls /\ e.timestamp \in Nat /\ e.type \in {"DATA", "SERVICE"}
      /\ e.type = "DATA" => e.id \in AllProducts
      /\ e.type = "SERVICE" => e.id \in AllServices
      /\ e.url # NoUrl
  BY RegistrationIs, NoUrlOut
<1>2. /\ maps.service \in [AllServices -> AllUrls \cup {NoUrl}]
      /\ maps.instance \in [AllUrls -> Nat]
      /\ Timed(maps) /\ maps.data \subseteq PublisherType
  BY DEF MapsType, Faithful
<1>3. /\ \A p \in maps.data : p.url # e.url
      /\ \A s \in AllServices : maps.service[s] # e.url
      /\ maps.instance[e.url] = 0
      /\ e.type = "SERVICE" => maps.service[e.id] = NoUrl
  BY FreshMeans
<1>4. /\ new \in MapsType
      /\ new.instance = [maps.instance EXCEPT ![e.url] = e.timestamp]
      /\ new.data = IF e.type = "DATA"
                    THEN maps.data \cup {Publisher(e.id, e.url, Secs(e.timestamp))}
                    ELSE maps.data
      /\ new.service = IF e.type = "DATA" THEN maps.service
                       ELSE [maps.service EXCEPT ![e.id] = e.url]
  BY AddedIs
<1>5. /\ new.instance[e.url] = e.timestamp
      /\ \A u \in AllUrls : u # e.url => new.instance[u] = maps.instance[u]
      /\ \A s \in AllServices : (e.type = "SERVICE" /\ s = e.id)
            => new.service[s] = e.url
      /\ \A s \in AllServices : ~(e.type = "SERVICE" /\ s = e.id)
            => new.service[s] = maps.service[s]
  BY <1>1, <1>2, <1>4
<1> HIDE DEF new
<1>6. Timed(new)
  <2>1. ASSUME NEW p \in new.data
        PROVE  new.instance[p.url] # 0 /\ p.registration_time = Secs(new.instance[p.url])
    <3>1. CASE p \in maps.data
      <4>1. p.url \in AllUrls /\ p.url # e.url
        BY <1>2, <1>3, <3>1 DEF PublisherType
      <4>. QED
        BY <1>2, <1>5, <3>1, <4>1 DEF Timed
    <3>2. CASE p = Publisher(e.id, e.url, Secs(e.timestamp))
      BY <1>5, <3>2 DEF Publisher
    <3>. QED
      BY <1>4, <2>1, <3>1, <3>2
  <2>2. ASSUME NEW s \in AllServices, new.service[s] # NoUrl
        PROVE  new.instance[new.service[s]] # 0
    <3>1. CASE e.type = "SERVICE" /\ s = e.id
      BY <1>5, <3>1
    <3>2. CASE ~(e.type = "SERVICE" /\ s = e.id)
      <4>1. /\ new.service[s] = maps.service[s] /\ maps.service[s] \in AllUrls
            /\ maps.service[s] # e.url
        BY <1>2, <1>3, <1>5, <2>2, <3>2
      <4>. QED
        BY <1>2, <1>5, <2>2, <4>1 DEF Timed
    <3>. QED
      BY <3>1, <3>2
  <2>. QED
    BY <2>1, <2>2 DEF Timed
<1>7. ASSUME NEW f \in Registrations
      PROVE  Has(new, f) <=> Has(maps, f) \/ f = e
  <2>1. /\ f.url \in AllUrls /\ f.timestamp \in Nat /\ f.type \in {"DATA", "SERVICE"}
        /\ f.type = "SERVICE" => f.id \in AllServices
        /\ f = Registration(f.type, f.id, f.url, f.timestamp)
        /\ e = Registration(e.type, e.id, e.url, e.timestamp)
    BY RegistrationIs
  <2>2. CASE f.url = e.url
    <3>1. ~Has(maps, f)
      BY <1>3, <2>1, <2>2 DEF Has, Publisher
    <3>2. CASE f.type = "DATA"
      <4>1. ASSUME Has(new, f) PROVE f = e
        <5>1. /\ f.timestamp = e.timestamp
              /\ Publisher(f.id, f.url, Secs(f.timestamp)) \in new.data
          BY <1>5, <2>2, <3>2, <4>1 DEF Has
        <5>2. Publisher(f.id, f.url, Secs(f.timestamp)) \notin maps.data
          BY <1>3, <2>2 DEF Publisher
        <5>3. e.type = "DATA" /\ f.id = e.id
          BY <1>4, <5>1, <5>2 DEF Publisher
        <5>. QED
          BY <2>1, <2>2, <3>2, <5>1, <5>3
      <4>2. ASSUME f = e PROVE Has(new, f)
        BY <1>4, <1>5, <3>2, <4>2 DEF Has
      <4>. QED
        BY <3>1, <4>1, <4>2
    <3>3. CASE f.type = "SERVICE"
      <4>1. ASSUME Has(new, f) PROVE f = e
        <5>1. f.timestamp = e.timestamp /\ new.service[f.id] = e.url /\ f.id \in AllServices
          BY <1>5, <2>1, <2>2, <3>3, <4>1 DEF Has
        <5>2. e.type = "SERVICE" /\ f.id = e.id
          BY <1>3, <1>5, <5>1
        <5>. QED
          BY <2>1, <2>2, <3>3, <5>1, <5>2
      <4>2. ASSUME f = e PROVE Has(new, f)
        BY <1>1, <1>5, <3>3, <4>2 DEF Has
      <4>. QED
        BY <3>1, <4>1, <4>2
    <3>. QED
      BY <2>1, <3>2, <3>3
  <2>3. CASE f.url # e.url
    <3>1. new.instance[f.url] = maps.instance[f.url] /\ f # e
      BY <1>5, <2>1, <2>3
    <3>2. CASE f.type = "DATA"
      <4>1. Publisher(f.id, f.url, Secs(f.timestamp)) \in new.data
              <=> Publisher(f.id, f.url, Secs(f.timestamp)) \in maps.data
        BY <1>4, <2>3 DEF Publisher
      <4>. QED
        BY <3>1, <3>2, <4>1 DEF Has
    <3>3. CASE f.type = "SERVICE"
      <4>1. new.service[f.id] = f.url <=> maps.service[f.id] = f.url
        BY <1>1, <1>3, <1>5, <2>1, <2>3, <3>3, NoUrlOut
      <4>. QED
        BY <3>1, <3>3, <4>1 DEF Has
    <3>. QED
      BY <2>1, <3>2, <3>3
  <2>. QED
    BY <2>2, <2>3
<1>8. Entries(new) = Entries(maps) \cup {e}
  BY <1>2, <1>4, <1>6, <1>7, EntriesHas
<1>9. Clean(Entries(new))
  BY <1>8 DEF Clean, Fresh, Faithful, Touch
<1>10. ASSUME NEW u \in AllUrls, new.instance[u] # 0
       PROVE  \E f \in Entries(new) : f.url = u
  BY <1>5, <1>8, <1>10 DEF Faithful
<1>11. Faithful(new)
  BY <1>6, <1>9, <1>10 DEF Faithful
<1>12. /\ Accepted(maps, e) /\ Obsolete(maps, e) = {}
       /\ Publisher(e.id, e.url, Secs(e.timestamp)) \notin maps.data
  BY <1>1, <1>3 DEF Accepted, Obsolete, Publisher
<1>. QED
  BY <1>4, <1>8, <1>11, <1>12 DEF new

\* handleUnregister does not find what is fresh.
LEMMA FreshIsUnlisted ==
    ASSUME NEW maps \in MapsType, Faithful(maps), NEW e \in Registrations,
           Fresh(maps, e), NEW secs
    PROVE  ~Unlisted(maps, e, secs)
<1>1. e.type \in {"DATA", "SERVICE"}
  BY RegistrationIs
<1>. QED
  BY <1>1, FreshMeans DEF Unlisted, Publisher

\* The maps without a registration that is listed.
Dropped(maps, e) == Instanced(Removed(maps, e, Secs(e.timestamp)), e, 0)

\* What is listed at a URL is the only thing at this URL.
LEMMA ListedMeans ==
    ASSUME NEW maps \in MapsType, Faithful(maps), NEW e \in Entries(maps)
    PROVE  /\ e \in Registrations /\ e.timestamp # 0
           /\ maps.instance[e.url] = e.timestamp
           /\ \A p \in maps.data : p.url = e.url =>
                 e.type = "DATA" /\ p = Publisher(e.id, e.url, Secs(e.timestamp))
           /\ \A s \in AllServices : maps.service[s] = e.url =>
                 e.type = "SERVICE" /\ s = e.id
           /\ e.type = "DATA" => Publisher(e.id, e.url, Secs(e.timestamp)) \in maps.data
           /\ e.type = "SERVICE" => e.id \in AllServices /\ maps.service[e.id] = e.url
<1>1. Timed(maps) /\ Clean(Entries(maps))
  BY DEF Faithful
<1>2. e \in Registrations /\ Has(maps, e) /\ e.timestamp # 0
  BY <1>1, EntriesHas
<1>3. e.url \in AllUrls /\ e.url # NoUrl
  BY <1>2, RegistrationIs, NoUrlOut
<1>4. ASSUME NEW p \in maps.data, p.url = e.url
      PROVE  e.type = "DATA" /\ p = Publisher(e.id, e.url, Secs(e.timestamp))
  <2> DEFINE f == Registration("DATA", p.id, p.url, maps.instance[p.url])
  <2>1. f \in Entries(maps)
    BY DEF Entries
  <2>2. f.url = e.url /\ f.type = "DATA" /\ f.id = p.id
    BY <1>4 DEF Registration
  <2>3. f = e
    BY <1>1, <2>1, <2>2 DEF Clean, Touch
  <2>4. p = Publisher(p.id, p.url, p.registration_time)
    BY DEF MapsType, PublisherType, Publisher
  <2>. QED
    BY <1>1, <1>2, <1>4, <2>2, <2>3, <2>4 DEF Has, Timed
<1>5. ASSUME NEW s \in AllServices, maps.service[s] = e.url
      PROVE  e.type = "SERVICE" /\ s = e.id
  <2> DEFINE f == Registration("SERVICE", s, maps.service[s], maps.instance[maps.service[s]])
  <2>1. f \in Entries(maps)
    BY <1>3, <1>5 DEF Entries
  <2>2. f.url = e.url /\ f.type = "SERVICE" /\ f.id = s
    BY <1>5 DEF Registration
  <2>3. f = e
    BY <1>1, <2>1, <2>2 DEF Clean, Touch
  <2>. QED
    BY <2>2, <2>3
<1>. QED
  BY <1>2, <1>4, <1>5, RegistrationIs DEF Has

\* handleUnregister finds what is listed; it is one entry less, and the
\* instances of the other URLs stay.
LEMMA DroppedEntries ==
    ASSUME NEW maps \in MapsType, Faithful(maps), NEW e \in Entries(maps)
    PROVE  /\ Dropped(maps, e) \in MapsType /\ Faithful(Dropped(maps, e))
           /\ Entries(Dropped(maps, e)) = Entries(maps) \ {e}
           /\ Entries(Removed(maps, e, Secs(e.timestamp))) = Entries(maps) \ {e}
           /\ Unlisted(maps, e, Secs(e.timestamp))
           /\ \A u \in AllUrls : u # e.url =>
                 Dropped(maps, e).instance[u] = maps.instance[u]
<1> DEFINE cut == Removed(maps, e, Secs(e.timestamp))
           new == Dropped(maps, e)
<1>1. /\ e \in Registrations /\ e.timestamp # 0
      /\ maps.instance[e.url] = e.timestamp
      /\ \A p \in maps.data : p.url = e.url =>
            e.type = "DATA" /\ p = Publisher(e.id, e.url, Secs(e.timestamp))
      /\ \A s \in AllServices : maps.service[s] = e.url =>
            e.type = "SERVICE" /\ s = e.id
      /\ e.type = "DATA" => Publisher(e.id, e.url, Secs(e.timestamp)) \in maps.data
      /\ e.type = "SERVICE" => e.id \in AllServices /\ maps.service[e.id] = e.url
  BY ListedMeans
<1>2. /\ e.url \in AllUrls /\ e.url # NoUrl /\ e.type \in {"DATA", "SERVICE"}
      /\ e = Registration(e.type, e.id, e.url, e.timestamp)
  BY <1>1, RegistrationIs, NoUrlOut
<1>3. /\ maps.data \in SUBSET PublisherType
      /\ maps.service \in [AllServices -> AllUrls \cup {NoUrl}]
      /\ maps.instance \in [AllUrls -> Nat]
      /\ maps = [data |-> maps.data, service |-> maps.service, instance |-> maps.instance]
      /\ Timed(maps)
  BY DEF MapsType, Faithful
<1>4. cut = [data |-> {p \in maps.data : p.url # e.url},
             service |-> IF e.type = "DATA" THEN maps.service
                         ELSE [maps.service EXCEPT ![e.id] = NoUrl],
             instance |-> maps.instance]
  <2>1. CASE e.type = "DATA"
    <3>1. maps.data \ {Publisher(e.id, e.url, Secs(e.timestamp))}
            = {p \in maps.data : p.url # e.url}
      BY <1>1 DEF Publisher
    <3>2. cut = [maps EXCEPT !.data = @ \ {Publisher(e.id, e.url, Secs(e.timestamp))}]
      BY <2>1 DEF Removed
    <3>. QED
      BY <1>3, <2>1, <3>1, <3>2
  <2>2. CASE e.type = "SERVICE"
    <3>1. maps.data = {p \in maps.data : p.url # e.url}
      BY <1>1, <2>2
    <3>2. cut = [maps EXCEPT !.service[e.id] = NoUrl]
      BY <2>2 DEF Removed
    <3>. QED
      BY <1>3, <2>2, <3>1, <3>2
  <2>. QED
    BY <1>2, <2>1, <2>2
<1>5. new = [cut EXCEPT !.instance[e.url] = 0]
  BY DEF Dropped, Instanced
<1> HIDE DEF cut, new
<1>6. /\ cut \in MapsType /\ new \in MapsType
      /\ new.data = cut.data /\ new.service = cut.service
      /\ cut.instance = maps.instance
      /\ new.instance = [maps.instance EXCEPT ![e.url] = 0]
      /\ cut.data = {p \in maps.data : p.url # e.url}
      /\ cut.service = IF e.type = "DATA" THEN maps.service
                       ELSE [maps.service EXCEPT ![e.id] = NoUrl]
  <2>1. (IF e.type = "DATA" THEN maps.service ELSE [maps.service EXCEPT ![e.id] = NoUrl])
           \in [AllServices -> AllUrls \cup {NoUrl}]
    BY <1>1, <1>3
  <2>2. [maps.instance EXCEPT ![e.url] = 0] \in [AllUrls -> Nat]
    BY <1>2, <1>3
  <2>3. new = [data |-> cut.data, service |-> cut.service,
               instance |-> [maps.instance EXCEPT ![e.url] = 0]]
    BY <1>4, <1>5
  <2>. QED
    BY <1>3, <1>4, <2>1, <2>2, <2>3 DEF MapsType
<1>7. /\ new.instance[e.url] = 0
      /\ \A u \in AllUrls : u # e.url => new.instance[u] = maps.instance[u]
      /\ \A s \in AllServices : /\ cut.service[s] # NoUrl => cut.service[s] = maps.service[s]
                                /\ cut.service[s] # e.url
                                /\ maps.service[s] # e.url => cut.service[s] = maps.service[s]
  <2>1. /\ new.instance[e.url] = 0
        /\ \A u \in AllUrls : u # e.url => new.instance[u] = maps.instance[u]
    BY <1>2, <1>3, <1>6
  <2>2. ASSUME NEW s \in AllServices
        PROVE  /\ cut.service[s] # NoUrl => cut.service[s] = maps.service[s]
               /\ cut.service[s] # e.url
               /\ maps.service[s] # e.url => cut.service[s] = maps.service[s]
    <3>1. CASE e.type = "SERVICE" /\ s = e.id
      BY <1>1, <1>2, <1>3, <1>6, <3>1
    <3>2. CASE ~(e.type = "SERVICE" /\ s = e.id)
      BY <1>1, <1>2, <1>3, <1>6, <3>2
    <3>. QED
      BY <3>1, <3>2
  <2>. QED
    BY <2>1, <2>2
<1>8. Timed(cut) /\ Timed(new)
  <2>1. ASSUME NEW p \in cut.data
        PROVE  /\ p.url \in AllUrls /\ p.url # e.url /\ maps.instance[p.url] # 0
               /\ p.registration_time = Secs(maps.instance[p.url])
    BY <1>3, <1>6 DEF Timed, PublisherType
  <2>2. ASSUME NEW s \in AllServices, cut.service[s] # NoUrl
        PROVE  /\ cut.service[s] \in AllUrls /\ cut.service[s] # e.url
               /\ maps.instance[cut.service[s]] # 0
    BY <1>3, <1>7, <2>2 DEF Timed
  <2>. QED
    BY <1>6, <1>7, <2>1, <2>2 DEF Timed
<1>9. ASSUME NEW f \in Registrations
      PROVE  /\ Has(cut, f) <=> Has(maps, f) /\ f # e
             /\ Has(new, f) /\ f.timestamp # 0 <=> Has(maps, f) /\ f.timestamp # 0 /\ f # e
  <2>1. /\ f.url \in AllUrls /\ f.timestamp \in Nat /\ f.type \in {"DATA", "SERVICE"}
        /\ f.type = "SERVICE" => f.id \in AllServices
        /\ f = Registration(f.type, f.id, f.url, f.timestamp)
    BY RegistrationIs
  <2>2. CASE f.url = e.url
    <3>1. ~Has(cut, f)
      BY <1>6, <1>7, <2>1, <2>2 DEF Has, Publisher
    <3>2. ASSUME Has(new, f), f.timestamp # 0 PROVE FALSE
      BY <1>7, <2>2, <3>2 DEF Has
    <3>3. ASSUME Has(maps, f) PROVE f = e
      <4>1. f.timestamp = e.timestamp
        BY <1>1, <2>2, <3>3 DEF Has
      <4>2. CASE f.type = "DATA"
        <5>1. e.type = "DATA" /\ f.id = e.id
          BY <1>1, <2>2, <3>3, <4>2 DEF Has, Publisher
        <5>. QED
          BY <1>2, <2>1, <2>2, <4>1, <4>2, <5>1
      <4>3. CASE f.type = "SERVICE"
        <5>1. e.type = "SERVICE" /\ f.id = e.id
          BY <1>1, <2>1, <2>2, <3>3, <4>3 DEF Has
        <5>. QED
          BY <1>2, <2>1, <2>2, <4>1, <4>3, <5>1
      <4>. QED
        BY <2>1, <4>2, <4>3
    <3>. QED
      BY <3>1, <3>2, <3>3
  <2>3. CASE f.url # e.url
    <3>1. f # e /\ new.instance[f.url] = maps.instance[f.url]
      BY <1>7, <2>1, <2>3
    <3>2. CASE f.type = "DATA"
      <4>1. Publisher(f.id, f.url, Secs(f.timestamp)) \in cut.data
              <=> Publisher(f.id, f.url, Secs(f.timestamp)) \in maps.data
        BY <1>6, <2>3 DEF Publisher
      <4>. QED
        BY <1>6, <3>1, <3>2, <4>1 DEF Has
    <3>3. CASE f.type = "SERVICE"
      <4>1. cut.service[f.id] = f.url <=> maps.service[f.id] = f.url
        BY <1>7, <2>1, <2>3, <3>3, NoUrlOut
      <4>. QED
        BY <1>6, <3>1, <3>3, <4>1 DEF Has
    <3>. QED
      BY <2>1, <3>2, <3>3
  <2>. QED
    BY <2>2, <2>3
<1>10. Entries(cut) = Entries(maps) \ {e}
  BY <1>3, <1>6, <1>8, <1>9, EntriesHas
<1>11. Entries(new) = Entries(maps) \ {e}
  <2>1. /\ Entries(new) \subseteq Registrations /\ Entries(maps) \subseteq Registrations
        /\ \A f \in Registrations : f \in Entries(new) <=> Has(new, f) /\ f.timestamp # 0
        /\ \A f \in Registrations : f \in Entries(maps) <=> Has(maps, f) /\ f.timestamp # 0
    BY <1>3, <1>6, <1>8, EntriesHas
  <2>. QED
    BY <1>9, <2>1
<1>12. ASSUME NEW u \in AllUrls, new.instance[u] # 0
       PROVE  \E f \in Entries(new) : f.url = u
  BY <1>7, <1>11, <1>12 DEF Faithful
<1>13. Faithful(new)
  BY <1>8, <1>11, <1>12 DEF Faithful, Clean
<1>14. Unlisted(maps, e, Secs(e.timestamp))
  BY <1>1, <1>2 DEF Unlisted
<1>. QED
  BY <1>6, <1>7, <1>10, <1>11, <1>13, <1>14 DEF cut, new

(***************************************************************************)
(* Steps of the leader                                                     *)
(***************************************************************************)

\* A finite set, one element after the other.
LEMMA SeqOfSet ==
    ASSUME NEW S, IsFiniteSet(S)
    PROVE  /\ SetToSeq(S) \in Seq(S)
           /\ \A i, j \in 1..Len(SetToSeq(S)) :
                SetToSeq(S)[i] = SetToSeq(S)[j] => i = j
           /\ \A d \in S : \E i \in 1..Len(SetToSeq(S)) : SetToSeq(S)[i] = d
<1> DEFINE n == Cardinality(S)
           f == SetToSeq(S)
<1>1. n \in Nat
  BY FS_CardinalityType
<1>2. f \in [1..n -> S] /\ IsInjective(f)
  <2>1. ExistsBijection(1..n, S)
    BY FS_CardinalityType
  <2>2. \E g \in [1..n -> S] : IsInjective(g)
    BY <2>1 DEF ExistsBijection, Bijection, Injection
  <2>. QED
    BY <2>2 DEF SetToSeq
<1>3. f \in Surjection(1..n, S)
  <2>1. f \in Injection(1..n, S)
    BY <1>2 DEF Injection
  <2>2. Cardinality(1..n) = n
    BY <1>1, FS_Interval
  <2> HIDE DEF f, n
  <2>3. Cardinality(1..n) = Cardinality(S)
    BY <2>2 DEF n
  <2>. QED
    BY <1>1, <2>1, <2>3, FS_Injection
<1> HIDE DEF f, n
<1>4. f \in Seq(S) /\ Len(f) = n
  BY <1>1, <1>2
<1>5. \A i, j \in 1..n : f[i] = f[j] => i = j
  BY <1>2 DEF IsInjective
<1>6. \A d \in S : \E i \in 1..n : f[i] = d
  BY <1>3 DEF Surjection
<1>. QED
  BY <1>4, <1>5, <1>6 DEF f

\* The sequence of the empty set.
LEMMA SeqOfNone == SetToSeq({}) = <<>>
<1>1. SetToSeq({}) \in Seq({})
  BY SeqOfSet, FS_EmptySet
<1>. QED
  BY <1>1

\* What the leader lists.
Listed == Entries(leader)

\* The message about e that the leader publishes.
Note(e, changeType) ==
    [registration_time |-> DetailsTime, map |-> Listed',
     change_type |-> changeType, change |-> e]

\* The message goes to the cache and to the subscription, if there is one.
Announces(m) ==
    /\ cache' = <<m>>
    /\ wire' = IF attached THEN Append(wire, m) ELSE wire

\* The leader lists e, too, and announces it.
Adds(e) ==
    /\ e \in Registrations /\ e.timestamp # 0
    /\ \A f \in Listed : ~Touch(e, f)
    /\ Listed' = Listed \cup {e} /\ Announces(Note(e, "ADD"))
    /\ leader'.instance[e.url] = e.timestamp
    /\ \A u \in AllUrls : u # e.url => leader'.instance[u] = leader.instance[u]

\* The leader lists e no more, and announces that.
Drops(e) ==
    /\ e \in Listed /\ Listed' = Listed \ {e} /\ Announces(Note(e, "REMOVE"))
    /\ \A u \in AllUrls : u # e.url => leader'.instance[u] = leader.instance[u]

\* The leader's maps, of which nothing is ever purged.
LeaderMaps == leader \in MapsType /\ Faithful(leader)

\* handleRegister of a fresh registration.
LEMMA RegisterAdds ==
    ASSUME LeaderMaps, wire \in Seq(MessageType), NEW r \in Registrations,
           r.timestamp # 0, Fresh(leader, r), Register(r)
    PROVE  LeaderMaps' /\ Adds(r)
<1> USE DEF LeaderMaps
<1>1. /\ Added(leader, r) \in MapsType /\ Faithful(Added(leader, r))
      /\ Entries(Added(leader, r)) = Entries(leader) \cup {r}
      /\ Accepted(leader, r) /\ Obsolete(leader, r) = {}
      /\ Publisher(r.id, r.url, Secs(r.timestamp)) \notin leader.data
  BY AddedEntries
<1>2. Added(leader, r).instance = [leader.instance EXCEPT ![r.url] = r.timestamp]
  BY AddedIs
<1> DEFINE entered == Entered(leader, r)
           purged == [entered EXCEPT !.data = @ \ {}]
           final == IF r.type = "SERVICE" THEN Instanced(purged, r, r.timestamp)
                    ELSE purged
           m == Message(final, r, r.timestamp, "ADD")
<1>3. leader' = final /\ Publish(<<>> \o <<m>>)
  <2>1. [k \in DOMAIN SetToSeq({}) |->
           Message(purged, Registration("DATA", SetToSeq({})[k].id, SetToSeq({})[k].url, 0),
                   purged.instance[SetToSeq({})[k].url], "REMOVE")] = <<>>
    BY SeqOfNone
  <2>. QED
    BY <1>1, <2>1 DEF Register
<1>4. r.type \in {"DATA", "SERVICE"} /\ r = Registration(r.type, r.id, r.url, r.timestamp)
      /\ r.url \in AllUrls
  BY RegistrationIs
<1>5. final = Added(leader, r)
  <2>1. leader = [data |-> leader.data, service |-> leader.service,
                  instance |-> leader.instance]
    BY DEF MapsType
  <2>2. purged = entered
    <3>1. entered = [data |-> entered.data, service |-> entered.service,
                     instance |-> entered.instance]
      BY <1>4, <2>1 DEF Entered
    <3> HIDE DEF entered
    <3>. QED
      BY <3>1
  <2>. QED
    BY <1>4, <2>2 DEF Added
<1> HIDE DEF final
<1>6. m = Note(r, "ADD")
  BY <1>3, <1>4 DEF Message, Note, Listed
<1> HIDE DEF m
<1>7. Announces(Note(r, "ADD"))
  <2>1. <<>> \o <<m>> = <<m>>
    OBVIOUS
  <2>2. cache' = <<m>> /\ wire' = IF attached THEN wire \o <<m>> ELSE wire
    BY <1>3, <2>1 DEF Publish
  <2>3. wire \o <<m>> = Append(wire, m)
    OBVIOUS
  <2>. QED
    BY <1>6, <2>2, <2>3 DEF Announces
<1>8. leader' = Added(leader, r)
  BY <1>3, <1>5
<1>9. leader.instance \in [AllUrls -> Nat]
  BY DEF MapsType
<1>. QED
  BY <1>1, <1>2, <1>4, <1>7, <1>8, <1>9 DEF Adds, Listed, Fresh

\* handleUnregister of what is listed, or of what is fresh.
LEMMA UnregisterDrops ==
    ASSUME LeaderMaps, wire \in Seq(MessageType), NEW r \in Registrations,
           Unregister(r), r \in Listed \/ Fresh(leader, r)
    PROVE  /\ LeaderMaps'
           /\ r \in Listed => Drops(r)
           /\ Fresh(leader, r) => UNCHANGED <<leader, cache, wire>>
<1> USE DEF LeaderMaps
<1>1. ASSUME Fresh(leader, r)
      PROVE  UNCHANGED <<leader, cache, wire>>
  BY <1>1, FreshIsUnlisted DEF Unregister
<1>2. ASSUME r \in Listed
      PROVE  LeaderMaps' /\ Drops(r)
  <2>1. /\ Dropped(leader, r) \in MapsType /\ Faithful(Dropped(leader, r))
        /\ Entries(Dropped(leader, r)) = Entries(leader) \ {r}
        /\ Entries(Removed(leader, r, Secs(r.timestamp))) = Entries(leader) \ {r}
        /\ Unlisted(leader, r, Secs(r.timestamp))
        /\ \A u \in AllUrls : u # r.url =>
              Dropped(leader, r).instance[u] = leader.instance[u]
    BY <1>2, DroppedEntries DEF Listed
  <2>2. leader.instance[r.url] = r.timestamp /\ r = Registration(r.type, r.id, r.url, r.timestamp)
    BY <1>2, ListedMeans, RegistrationIs DEF Listed
  <2> DEFINE m == Message(Removed(leader, r, Secs(r.timestamp)), r, leader.instance[r.url], "REMOVE")
  <2>3. leader' = Dropped(leader, r) /\ Publish(<<m>>)
    BY <2>1 DEF Unregister, Dropped
  <2>4. m = Note(r, "REMOVE")
    BY <2>1, <2>2, <2>3 DEF Message, Note, Listed
  <2> HIDE DEF m
  <2>5. Announces(Note(r, "REMOVE"))
    <3>1. wire \o <<m>> = Append(wire, m)
      OBVIOUS
    <3>. QED
      BY <2>3, <2>4, <3>1 DEF Publish, Announces
  <2>. QED
    BY <1>2, <2>1, <2>3, <2>5 DEF Drops, Listed
<1>. QED
  BY <1>1, <1>2

\* The phases in which DomainDetails is listed.
Bound == {"details", "timed", "ready"}
\* The leader's own two registrations.
DetailsEntry ==
    Registration("DATA", DetailsID, DetailsUrl, leader.instance[DetailsUrl])
DirectoryEntry ==
    Registration("SERVICE", DirectoryID, DirectoryUrl, leader.instance[DirectoryUrl])

\* What the components have registered: each URL is bound once, each service
\* is provided once.
AppsOK ==
    /\ \A a \in apps :
          /\ a \in Registrations /\ a.url \in Urls
          /\ a.timestamp # 0 /\ a.timestamp <= now
          /\ a.type = "DATA" => a.id \in Products
          /\ a.type = "SERVICE" => a.id \in Services
    /\ Clean(apps)

\* What is listed belongs to a component or to the leader itself, and the
\* first second is over when DomainDetails is listed.
PlacesOK ==
    /\ \A e \in Listed :
          \/ e \in apps
          \/ e = DetailsEntry /\ phase \in Bound
          \/ e = DirectoryEntry /\ phase = "ready"
    /\ phase \in Bound => DetailsEntry \in Listed
    /\ phase = "down" => Listed = {}
    /\ phase \in Bound => leader.instance[DetailsUrl] >= TicksPerSecond

\* The clock is not behind a timestamp, nor in its first second while the
\* leader runs.
ClockOK ==
    /\ now \in Nat /\ phase \in Phases /\ incarnation \in Nat
    /\ incarnation <= MaxIncarnations
    /\ phase # "down" => now >= TicksPerSecond /\ incarnation > 0
    /\ \A e \in Listed : e.timestamp <= now

\* The invariant of the leader's side; it does not mention the follower.
LeaderInv ==
    LeaderMaps /\ IsFiniteSet(Listed) /\ AppsOK /\ PlacesOK /\ ClockOK

\* What the follower keeps while the leader publishes.
FollowerKept ==
    UNCHANGED <<commandVars, sync, lookup, attached, queueVars, local>>

\* The steps of the leader's side, as the follower sees them.
LeaderStarts ==
    /\ phase = "down" /\ phase' = "up" /\ incarnation' = incarnation + 1
    /\ now' >= now /\ UNCHANGED <<apps, leader, cache, wire>> /\ FollowerKept

LeaderAdds(e) ==
    /\ Adds(e) /\ FollowerKept /\ UNCHANGED incarnation /\ now' >= now
    /\ phase # "down"
    /\ \/ phase' = phase /\ e.url \in Urls
       \/ phase = "up" /\ phase' = "details" /\ e.url = DetailsUrl
       \/ phase = "timed" /\ phase' = "ready" /\ e.url = DirectoryUrl
    /\ e \in apps \/ e.timestamp >= now
    /\ apps \subseteq apps' /\ apps' \subseteq apps \cup {e}

LeaderDrops(e) ==
    /\ Drops(e) /\ FollowerKept /\ UNCHANGED <<incarnation, phase, now>>
    /\ phase # "down" /\ e.url \in Urls /\ apps' = apps \ {e}

LeaderRests ==
    /\ UNCHANGED <<now, incarnation, leader, cache, wire>> /\ FollowerKept
    /\ phase' = phase \/ (phase = "details" /\ phase' = "timed")
    /\ apps' \subseteq apps

LeaderCrashes ==
    /\ phase' = "down" /\ Listed' = {} /\ cache' = <<>> /\ attached' = FALSE
    /\ lookup' \in {lookup} \cup
          IF lookup.state = "sent" THEN {[state |-> "lost", time |-> 0]} ELSE {}
    /\ UNCHANGED <<now, apps, incarnation, commandVars, sync, wire, queueVars, local>>

LeaderStep ==
    \/ LeaderStarts \/ LeaderRests \/ LeaderCrashes
    \/ \E e \in Registrations : LeaderAdds(e) \/ LeaderDrops(e)

\* The URLs, and the types of their instances.
LEMMA InstanceIn ==
    ASSUME LeaderMaps
    PROVE  /\ \A u \in AllUrls : leader.instance[u] \in Nat
           /\ DetailsUrl \in AllUrls /\ DirectoryUrl \in AllUrls /\ Urls \subseteq AllUrls
           /\ DetailsUrl \notin Urls /\ DirectoryUrl \notin Urls
           /\ DetailsUrl # DirectoryUrl
  BY DomainSyncAssumption DEF LeaderMaps, MapsType, AllUrls

\* A registration that a component or the leader makes is fresh.
LEMMA FreshApp ==
    ASSUME LeaderInv, NEW r \in Registrations, r.url \in Urls,
           r.type = "SERVICE" => r.id \in Services,
           \A a \in apps : ~Touch(r, a)
    PROVE  Fresh(leader, r)
<1>1. /\ DetailsUrl \notin Urls /\ DirectoryUrl \notin Urls
      /\ DirectoryID \notin Services
  BY DomainSyncAssumption
<1>2. ASSUME NEW f \in Listed PROVE ~Touch(r, f)
  <2>1. CASE f = DetailsEntry
    BY <1>1, <2>1 DEF DetailsEntry, Registration, Touch
  <2>2. CASE f = DirectoryEntry
    BY <1>1, <2>2 DEF DirectoryEntry, Registration, Touch
  <2>. QED
    BY <2>1, <2>2 DEF LeaderInv, PlacesOK
<1>. QED
  BY <1>2 DEF Fresh, Listed

\* What a component has registered is listed or fresh: after a restart of
\* the leader the components register again one by one.
LEMMA AppListed ==
    ASSUME LeaderInv, NEW a \in apps
    PROVE  a \in Listed \/ Fresh(leader, a)
<1>1. /\ DetailsUrl \notin Urls /\ DirectoryUrl \notin Urls
      /\ DirectoryID \notin Services
  BY DomainSyncAssumption
<1>2. /\ a \in Registrations /\ a.url \in Urls
      /\ a.type = "SERVICE" => a.id \in Services
  BY DEF LeaderInv, AppsOK
<1>3. ASSUME NEW f \in Listed, Touch(a, f) PROVE f = a
  <2>1. CASE f = DetailsEntry
    BY <1>1, <1>2, <1>3, <2>1 DEF DetailsEntry, Registration, Touch
  <2>2. CASE f = DirectoryEntry
    BY <1>1, <1>2, <1>3, <2>2 DEF DirectoryEntry, Registration, Touch
  <2>3. CASE f \in apps
    BY <1>3, <2>3 DEF LeaderInv, AppsOK, Clean
  <2>. QED
    BY <2>1, <2>2, <2>3 DEF LeaderInv, PlacesOK
<1>. QED
  BY <1>3 DEF Fresh, Listed

\* The entries after a registration that was fresh.
LEMMA AddsKeeps ==
    ASSUME LeaderInv, NEW r, LeaderAdds(r), LeaderMaps', AppsOK', now' \in Nat,
           r.timestamp <= now',
           r \in apps' \/ (r = DetailsEntry' /\ phase' \in Bound)
                       \/ (r = DirectoryEntry' /\ phase' = "ready"),
           r.url = DetailsUrl => r = DetailsEntry' /\ r.timestamp >= TicksPerSecond
    PROVE  LeaderInv'
<1>1. /\ r \in Registrations /\ Listed' = Listed \cup {r}
      /\ leader'.instance[r.url] = r.timestamp
      /\ \A u \in AllUrls : u # r.url => leader'.instance[u] = leader.instance[u]
  BY DEF LeaderAdds, Adds
<1>2. IsFiniteSet(Listed')
  BY <1>1, FS_AddElement DEF LeaderInv
<1>3. /\ r.url # DetailsUrl => DetailsEntry' = DetailsEntry
      /\ r.url # DirectoryUrl => DirectoryEntry' = DirectoryEntry
  BY <1>1, InstanceIn DEF LeaderInv, DetailsEntry, DirectoryEntry
<1>4. phase' \in Bound /\ r.url # DetailsUrl => phase \in Bound
  BY InstanceIn DEF LeaderAdds, Bound, LeaderInv
<1>5. r.url = DetailsUrl => phase = "up"
  BY InstanceIn DEF LeaderAdds, LeaderInv
<1>6. r.url = DirectoryUrl => phase = "timed"
  BY InstanceIn DEF LeaderAdds, LeaderInv
<1>7. PlacesOK'
  <2>1. ASSUME NEW e \in Listed
        PROVE  \/ e \in apps'
               \/ e = DetailsEntry' /\ phase' \in Bound
               \/ e = DirectoryEntry' /\ phase' = "ready"
    <3>1. CASE e \in apps
      BY <3>1 DEF LeaderAdds
    <3>2. CASE e = DetailsEntry /\ phase \in Bound
      BY <1>3, <1>5, <3>2 DEF Bound, LeaderAdds
    <3>3. CASE e = DirectoryEntry /\ phase = "ready"
      BY <1>3, <1>6, <3>3 DEF LeaderAdds
    <3>. QED
      BY <3>1, <3>2, <3>3 DEF LeaderInv, PlacesOK
  <2>2. phase' \in Bound => DetailsEntry' \in Listed'
    BY <1>1, <1>3, <1>4 DEF LeaderInv, PlacesOK
  <2>3. phase' # "down"
    BY DEF LeaderAdds
  <2>4. phase' \in Bound => leader'.instance[DetailsUrl] >= TicksPerSecond
    <3>1. CASE r.url = DetailsUrl
      BY <1>1, <3>1
    <3>2. CASE r.url # DetailsUrl
      <4>1. leader'.instance[DetailsUrl] = leader.instance[DetailsUrl]
        BY <1>1, <3>2, InstanceIn DEF LeaderInv
      <4>. QED
        BY <1>4, <3>2, <4>1 DEF LeaderInv, PlacesOK
    <3>. QED
      BY <3>1, <3>2
  <2>. QED
    BY <1>1, <2>1, <2>2, <2>3, <2>4 DEF PlacesOK
<1>8. ClockOK'
  <2>1. \A e \in Listed : e \in Registrations /\ e.timestamp \in Nat
    <3>1. \A e \in Listed : e \in Registrations
      BY EntriesHas DEF LeaderInv, LeaderMaps, Faithful, Listed
    <3>. QED
      BY <3>1, RegistrationIs
  <2>2. \A e \in Listed' : e.timestamp <= now'
    BY <1>1, <2>1 DEF LeaderInv, ClockOK, LeaderAdds
  <2>. QED
    BY <2>2, DomainSyncAssumption DEF LeaderInv, ClockOK, LeaderAdds, Phases
<1>. QED
  BY <1>2, <1>7, <1>8 DEF LeaderInv

\* Each action of the leader's side keeps its invariant and is one of those
\* steps.
LEMMA StartIsStep ==
    ASSUME LeaderInv, StartLeader
    PROVE  LeaderInv' /\ LeaderStarts
<1>1. now' = (Secs(now) + 1) * TicksPerSecond /\ now' \in Nat
      /\ now' >= now /\ now' >= TicksPerSecond
  <2>1. now \in Nat
    BY DEF LeaderInv, ClockOK
  <2>. QED
    BY <2>1, NextSecond DEF StartLeader
<1>2. LeaderStarts
  BY <1>1 DEF StartLeader, LeaderStarts, FollowerKept, socketVars
<1>3. UNCHANGED <<leader, apps>> /\ Listed' = Listed /\ Listed = {}
  BY DEF StartLeader, Listed, LeaderInv, PlacesOK
<1>4. LeaderMaps'
  BY <1>3 DEF LeaderInv, LeaderMaps
<1>5. AppsOK'
  <2>1. \A a \in apps : a.timestamp \in Nat
    BY RegistrationIs DEF LeaderInv, AppsOK
  <2>2. now \in Nat
    BY DEF LeaderInv, ClockOK
  <2>. QED
    BY <1>1, <1>3, <2>1, <2>2 DEF LeaderInv, AppsOK
<1>6. PlacesOK'
  BY <1>3 DEF PlacesOK, StartLeader, Bound
<1>7. ClockOK'
  BY <1>1, <1>3, DomainSyncAssumption DEF LeaderInv, ClockOK, StartLeader, Phases
<1>. QED
  BY <1>2, <1>3, <1>4, <1>5, <1>6, <1>7 DEF LeaderInv

LEMMA DetailsIsStep ==
    ASSUME LeaderInv, wire \in Seq(MessageType), RegisterDetails
    PROVE  LeaderInv' /\ \E e \in Registrations : LeaderAdds(e)
<1> DEFINE r == Registration("DATA", DetailsID, DetailsUrl, now)
<1>1. now \in Nat /\ now >= TicksPerSecond /\ now # 0 /\ TicksPerSecond \in Nat
  BY DomainSyncAssumption DEF LeaderInv, ClockOK, RegisterDetails
<1>2. r \in Registrations /\ r.url = DetailsUrl /\ r.timestamp = now /\ r.type = "DATA"
  BY <1>1 DEF Registration, Registrations, AllProducts, AllUrls
<1>3. Fresh(leader, r)
  <2>1. ASSUME NEW f \in Listed PROVE ~Touch(r, f)
    <3>1. f \in apps
      BY DEF LeaderInv, PlacesOK, RegisterDetails, Bound
    <3>. QED
      BY <1>2, <3>1, DomainSyncAssumption DEF Touch, LeaderInv, AppsOK
  <2>. QED
    BY <2>1 DEF Fresh, Listed
<1>4. LeaderMaps' /\ Adds(r)
  BY <1>1, <1>2, <1>3, RegisterAdds DEF LeaderInv, RegisterDetails
<1>5. UNCHANGED <<now, apps>> /\ phase = "up" /\ phase' = "details"
  BY DEF RegisterDetails
<1>6. LeaderAdds(r)
  BY <1>1, <1>2, <1>4 DEF RegisterDetails, LeaderAdds, FollowerKept
<1>7. r = DetailsEntry'
  BY <1>2, <1>4 DEF Adds, DetailsEntry
<1>8. AppsOK'
  BY <1>5 DEF LeaderInv, AppsOK
<1> HIDE DEF r
<1>9. LeaderInv'
  BY <1>1, <1>2, <1>4, <1>5, <1>6, <1>7, <1>8, AddsKeeps DEF Bound
<1>. QED
  BY <1>2, <1>6, <1>9

LEMMA DirectoryIsStep ==
    ASSUME LeaderInv, wire \in Seq(MessageType), RegisterDirectory
    PROVE  LeaderInv' /\ \E e \in Registrations : LeaderAdds(e)
<1> DEFINE r == Registration("SERVICE", DirectoryID, DirectoryUrl, now)
<1>1. now \in Nat /\ now >= TicksPerSecond /\ now # 0 /\ TicksPerSecond \in Nat
  BY DomainSyncAssumption DEF LeaderInv, ClockOK, RegisterDirectory
<1>2. /\ r \in Registrations /\ r.url = DirectoryUrl /\ r.timestamp = now
      /\ r.type = "SERVICE" /\ r.id = DirectoryID
  BY <1>1 DEF Registration, Registrations, AllServices, AllUrls
<1>3. Fresh(leader, r)
  <2>1. ASSUME NEW f \in Listed PROVE ~Touch(r, f)
    <3>1. CASE f \in apps
      BY <1>2, <3>1, DomainSyncAssumption DEF Touch, LeaderInv, AppsOK
    <3>2. CASE f = DetailsEntry
      BY <1>2, <3>2, DomainSyncAssumption DEF Touch, DetailsEntry, Registration
    <3>. QED
      BY <3>1, <3>2 DEF LeaderInv, PlacesOK, RegisterDirectory
  <2>. QED
    BY <2>1 DEF Fresh, Listed
<1>4. LeaderMaps' /\ Adds(r)
  BY <1>1, <1>2, <1>3, RegisterAdds DEF LeaderInv, RegisterDirectory
<1>5. UNCHANGED <<now, apps>> /\ phase = "timed" /\ phase' = "ready"
  BY DEF RegisterDirectory
<1>6. LeaderAdds(r)
  BY <1>1, <1>2, <1>4 DEF RegisterDirectory, LeaderAdds, FollowerKept
<1>7. r = DirectoryEntry'
  BY <1>2, <1>4 DEF Adds, DirectoryEntry
<1>8. AppsOK'
  BY <1>5 DEF LeaderInv, AppsOK
<1>9. r.url # DetailsUrl
  BY <1>2, DomainSyncAssumption
<1> HIDE DEF r
<1>10. LeaderInv'
  BY <1>1, <1>2, <1>4, <1>5, <1>6, <1>7, <1>8, <1>9, AddsKeeps
<1>. QED
  BY <1>2, <1>6, <1>10

LEMMA RecordIsStep ==
    ASSUME LeaderInv, RecordTime
    PROVE  LeaderInv' /\ LeaderRests
<1>1. UNCHANGED <<now, apps, leader, incarnation>> /\ phase = "details" /\ phase' = "timed"
  BY DEF RecordTime
<1>2. Listed' = Listed /\ DetailsEntry' = DetailsEntry /\ DirectoryEntry' = DirectoryEntry
  BY <1>1 DEF Listed, DetailsEntry, DirectoryEntry
<1>3. LeaderRests
  BY DEF RecordTime, LeaderRests, FollowerKept, socketVars
<1>4. PlacesOK'
  BY <1>1, <1>2 DEF LeaderInv, PlacesOK, Bound
<1>5. AppsOK' /\ ClockOK' /\ LeaderMaps'
  BY <1>1, <1>2 DEF LeaderInv, AppsOK, ClockOK, Phases, LeaderMaps
<1>. QED
  BY <1>2, <1>3, <1>4, <1>5 DEF LeaderInv

LEMMA CrashIsStep ==
    ASSUME LeaderInv, Crash
    PROVE  LeaderInv' /\ LeaderCrashes
<1>1. leader' = EmptyMaps /\ UNCHANGED <<now, apps, incarnation>> /\ phase' = "down"
  BY DEF Crash
<1>2. /\ EmptyMaps \in MapsType /\ EmptyMaps.data = {}
      /\ \A s \in AllServices : EmptyMaps.service[s] = NoUrl
      /\ \A u \in AllUrls : EmptyMaps.instance[u] = 0
  BY DEF EmptyMaps, MapsType
<1>3. Entries(EmptyMaps) = {}
  BY <1>2 DEF Entries
<1>4. LeaderMaps'
  BY <1>1, <1>2, <1>3 DEF LeaderMaps, Faithful, Timed, Clean
<1>5. Listed' = {} /\ IsFiniteSet(Listed')
  BY <1>1, <1>3, FS_EmptySet DEF Listed
<1>6. PlacesOK' /\ ClockOK' /\ AppsOK'
  BY <1>1, <1>5 DEF LeaderInv, PlacesOK, ClockOK, AppsOK, Bound, Phases
<1>7. LeaderCrashes
  BY <1>5 DEF Crash, LeaderCrashes
<1>. QED
  BY <1>4, <1>5, <1>6, <1>7 DEF LeaderInv

LEMMA AppRegisterIsStep ==
    ASSUME LeaderInv, wire \in Seq(MessageType),
           NEW id \in Products \cup Services, NEW url \in Urls,
           AppRegister(IF id \in Products THEN "DATA" ELSE "SERVICE", id, url)
    PROVE  LeaderInv' /\ \E e \in Registrations : LeaderAdds(e)
<1> DEFINE type == IF id \in Products THEN "DATA" ELSE "SERVICE"
           r == Registration(type, id, url, now + 1)
<1>1. now \in Nat /\ now' = now + 1 /\ phase' = phase /\ phase # "down"
      /\ apps' = apps \cup {r} /\ Register(r) /\ UNCHANGED incarnation
      /\ \A a \in apps : a.url # url /\ (a.id = id => type = "DATA")
  BY DEF LeaderInv, ClockOK, AppRegister
<1>2. /\ r \in Registrations /\ r.url = url /\ r.timestamp = now + 1 /\ r.timestamp # 0
      /\ r.type = type /\ r.id = id
      /\ r.type = "DATA" => r.id \in Products
      /\ r.type = "SERVICE" => r.id \in Services
  BY <1>1 DEF Registration, Registrations, AllServices, AllProducts, AllUrls
<1>3. \A a \in apps : ~Touch(r, a) /\ ~Touch(a, r)
  BY <1>1, <1>2 DEF Touch
<1>4. Fresh(leader, r)
  BY <1>2, <1>3, FreshApp
<1>5. LeaderMaps' /\ Adds(r)
  BY <1>1, <1>2, <1>4, RegisterAdds DEF LeaderInv
<1>6. LeaderAdds(r)
  <2>1. FollowerKept
    BY DEF AppRegister, FollowerKept
  <2>. QED
    BY <1>1, <1>2, <1>5, <2>1 DEF LeaderAdds
<1> HIDE DEF r, type
<1>7. AppsOK'
  <2>1. \A a \in apps : a.timestamp \in Nat
    BY RegistrationIs DEF LeaderInv, AppsOK
  <2>2. Clean(apps')
    BY <1>1, <1>3 DEF LeaderInv, AppsOK, Clean
  <2>. QED
    BY <1>1, <1>2, <2>1, <2>2 DEF LeaderInv, AppsOK
<1>8. r.url # DetailsUrl
  BY <1>2, DomainSyncAssumption
<1>9. LeaderInv'
  BY <1>1, <1>2, <1>5, <1>6, <1>7, <1>8, AddsKeeps
<1>. QED
  BY <1>2, <1>6, <1>9

LEMMA ReregisterIsStep ==
    ASSUME LeaderInv, wire \in Seq(MessageType), NEW a \in apps, AppReregister(a)
    PROVE  LeaderInv' /\ \E e \in Registrations : LeaderAdds(e)
<1>1. /\ now \in Nat /\ now' = now /\ phase' = phase /\ phase # "down"
      /\ apps' = apps /\ Register(a) /\ UNCHANGED incarnation
  BY DEF LeaderInv, ClockOK, AppReregister
<1>2. /\ a \in Registrations /\ a.url \in Urls /\ a.timestamp # 0 /\ a.timestamp <= now
      /\ a.url # DetailsUrl
  BY DomainSyncAssumption DEF LeaderInv, AppsOK
<1>3. Fresh(leader, a)
  BY AppListed DEF AppReregister, Listed
<1>4. LeaderMaps' /\ Adds(a)
  BY <1>1, <1>2, <1>3, RegisterAdds DEF LeaderInv
<1>5. LeaderAdds(a)
  <2>1. FollowerKept
    BY DEF AppReregister, FollowerKept
  <2>. QED
    BY <1>1, <1>2, <1>4, <2>1 DEF LeaderAdds
<1>6. AppsOK'
  BY <1>1 DEF LeaderInv, AppsOK
<1>7. LeaderInv'
  BY <1>1, <1>2, <1>4, <1>5, <1>6, AddsKeeps
<1>. QED
  BY <1>2, <1>5, <1>7

\* A component that ends unregisters first; if the leader had not heard of
\* it since its restart, nothing is dropped.
LEMMA EndIsStep ==
    ASSUME Orderly, LeaderInv, wire \in Seq(MessageType), NEW a \in apps, AppEnd(a)
    PROVE  LeaderInv' /\ (LeaderRests \/ \E e \in Registrations : LeaderDrops(e))
<1>1. apps' = apps \ {a} /\ UNCHANGED <<now, phase, incarnation>>
  BY DEF AppEnd
<1>2. a \in Registrations /\ a.url \in Urls /\ a.url \in AllUrls
  BY DEF LeaderInv, AppsOK, AllUrls
<1>3. AppsOK'
  BY <1>1 DEF LeaderInv, AppsOK, Clean
<1>4. FollowerKept
  BY DEF AppEnd, FollowerKept
<1>5. CASE a \in Listed
  <2>1. phase # "down"
    BY <1>5 DEF LeaderInv, PlacesOK
  <2>2. Unregister(a)
    BY <2>1 DEF AppEnd
  <2>3. LeaderMaps' /\ Drops(a)
    BY <1>2, <1>5, <2>2, UnregisterDrops DEF LeaderInv
  <2>4. LeaderDrops(a)
    BY <1>1, <1>2, <1>4, <2>1, <2>3 DEF LeaderDrops
  <2>5. Listed' = Listed \ {a} /\ IsFiniteSet(Listed')
    BY <2>3, FS_RemoveElement DEF Drops, LeaderInv
  <2>6. leader'.instance[DetailsUrl] = leader.instance[DetailsUrl]
        /\ leader'.instance[DirectoryUrl] = leader.instance[DirectoryUrl]
    BY <1>2, <2>3, InstanceIn DEF Drops, LeaderInv
  <2>7. DetailsEntry' = DetailsEntry /\ DirectoryEntry' = DirectoryEntry /\ a # DetailsEntry
    BY <1>2, <2>6, DomainSyncAssumption DEF DetailsEntry, DirectoryEntry, Registration
  <2>8. PlacesOK'
    BY <1>1, <2>1, <2>5, <2>6, <2>7 DEF LeaderInv, PlacesOK
  <2>9. ClockOK'
    BY <1>1, <2>5 DEF LeaderInv, ClockOK
  <2>. QED
    BY <1>2, <1>3, <2>3, <2>4, <2>5, <2>8, <2>9 DEF LeaderInv
<1>6. CASE a \notin Listed
  <2>1. UNCHANGED <<leader, cache, wire>>
    <3>1. Fresh(leader, a)
      BY <1>6, AppListed
    <3>2. CASE phase # "down"
      BY <1>2, <3>1, <3>2, UnregisterDrops DEF AppEnd, LeaderInv
    <3>3. CASE phase = "down"
      BY <3>3 DEF AppEnd
    <3>. QED
      BY <3>2, <3>3
  <2>2. LeaderRests
    BY <1>1, <1>4, <2>1 DEF LeaderRests
  <2>3. Listed' = Listed /\ DetailsEntry' = DetailsEntry /\ DirectoryEntry' = DirectoryEntry
    BY <2>1 DEF Listed, DetailsEntry, DirectoryEntry
  <2>4. PlacesOK'
    BY <1>1, <1>6, <2>1, <2>3 DEF LeaderInv, PlacesOK
  <2>5. ClockOK' /\ LeaderMaps'
    BY <1>1, <2>1, <2>3 DEF LeaderInv, ClockOK, LeaderMaps
  <2>. QED
    BY <1>3, <2>2, <2>3, <2>4, <2>5 DEF LeaderInv
<1>. QED
  BY <1>5, <1>6

(***************************************************************************)
(* Types, and what holds of the parts one by one                           *)
(***************************************************************************)

\* The requests that are not answered: the one that was sent and the ones
\* that wait.
Queue == pendingResponse \o registrationUpdates

\* The types of the other variables.
SysType ==
    /\ cache \in Seq(MessageType) /\ wire \in Seq(MessageType)
    /\ heard \in Nat /\ heard <= incarnation /\ removes \in 0..MaxRemoves
    /\ commands \in Seq({"Add", "Update", "Remove"})
    /\ sync \in DetailsType /\ IsFiniteSet(sync.map)
    /\ lookup \in LookupType /\ attached \in BOOLEAN
    /\ registrationUpdates \in Seq(RequestType)
    /\ pendingResponse \in Seq(RequestType) /\ Len(pendingResponse) <= 1
    /\ local \in MapsType

\* The second of the registration that the messages have to name.
DetailsSecs == Secs(leader.instance[DetailsUrl])

\* The cached message has the map of now; it names the registration time
\* once the leader's node knows it.
CacheOK ==
    /\ cache # <<>> => cache = <<cache[1]>> /\ cache[1].map = Listed
    /\ phase \in Bound => cache # <<>>
    /\ phase = "down" => cache = <<>>
    /\ phase = "details" => cache[1].registration_time = 0
    /\ phase = "ready" => cache[1].registration_time = DetailsSecs

\* An Add comes only where no domain is followed, and a domain that was not
\* heard of is not followed.
CommandsOK ==
    /\ \A i \in 1..Len(commands) : commands[i] = "Add" =>
          IF i = 1 THEN sync.socket = "none" ELSE commands[i - 1] = "Remove"
    /\ heard = 0 => IF commands = <<>> THEN sync.socket = "none"
                    ELSE commands[Len(commands)] = "Remove"

\* The follower knows of the present incarnation of the leader and has
\* carried out the commands.
CaughtUp == phase # "down" /\ heard = incarnation /\ commands = <<>>

\* What the socket of the synchronizer is used for. Once it has caught up it
\* waits for the messages of the present registration, and has none while it
\* is not attached.
SocketOK ==
    /\ sync.socket # "sub" => wire = <<>> /\ ~attached /\ ~sync.initialized
    /\ lookup.state # "none" => sync.socket = "lookup"
    /\ CaughtUp /\ lookup.state = "found" =>
          phase \in Bound /\ lookup.time = DetailsSecs
    /\ CaughtUp /\ sync.socket = "sub" =>
          phase \in Bound /\ sync.registrationTime = DetailsSecs
    /\ CaughtUp /\ ~attached => wire = <<>> /\ ~sync.initialized

\* The invariant of the parts, one by one.
BaseInv == LeaderInv /\ SysType /\ CacheOK /\ CommandsOK /\ SocketOK

\* The entries of the leader are registrations, of which no two touch.
LEMMA ListedIn ==
    ASSUME LeaderInv
    PROVE  Listed \subseteq Registrations /\ Clean(Listed)
  BY EntriesHas DEF LeaderInv, LeaderMaps, Faithful, Listed

\* The message about a change.
LEMMA NoteIn ==
    ASSUME LeaderInv, LeaderInv', NEW e \in Registrations,
           NEW type \in {"ADD", "REMOVE"}
    PROVE  /\ Note(e, type) \in MessageType
           /\ Note(e, type).map = Listed'
           /\ Note(e, type).change = e /\ Note(e, type).change_type = type
           /\ Note(e, type).registration_time = DetailsTime
<1>1. Listed' \subseteq Registrations /\ Clean(Listed') /\ IsFiniteSet(Listed')
  <2>1. leader' \in MapsType /\ Timed(leader') /\ Clean(Entries(leader'))
    BY DEF LeaderInv, LeaderMaps, Faithful
  <2>. QED
    BY <2>1, EntriesHas DEF Listed, LeaderInv
<1>2. DetailsTime \in Nat
  BY InstanceIn, SecsNat DEF DetailsTime, LeaderInv
<1>. QED
  BY <1>1, <1>2 DEF Note, MessageType

\* The parts of the follower after a step of the leader.
LEMMA LeaderStepType ==
    ASSUME BaseInv, LeaderInv', LeaderStep
    PROVE  SysType'
<1>1. cache' \in Seq(MessageType) /\ wire' \in Seq(MessageType)
  <2>1. cache \in Seq(MessageType) /\ wire \in Seq(MessageType)
    BY DEF BaseInv, SysType
  <2>2. ASSUME NEW e \in Registrations, LeaderAdds(e) \/ LeaderDrops(e)
        PROVE  cache' \in Seq(MessageType) /\ wire' \in Seq(MessageType)
    <3>1. PICK m \in MessageType : Announces(m)
      BY <2>2, NoteIn DEF LeaderAdds, LeaderDrops, Adds, Drops, BaseInv
    <3>. QED
      BY <2>1, <3>1 DEF Announces
  <2>3. CASE LeaderStarts \/ LeaderRests
    BY <2>1, <2>3 DEF LeaderStarts, LeaderRests
  <2>4. CASE LeaderCrashes
    <3>1. cache' = <<>> /\ wire' = wire
      BY <2>4 DEF LeaderCrashes
    <3>. QED
      BY <2>1, <3>1
  <2>. QED
    BY <2>2, <2>3, <2>4 DEF LeaderStep
<1>2. incarnation' >= incarnation /\ incarnation \in Nat /\ incarnation' \in Nat
  BY DEF LeaderStep, LeaderStarts, LeaderRests, LeaderCrashes, LeaderAdds, LeaderDrops,
         BaseInv, LeaderInv, ClockOK
<1>3. /\ UNCHANGED <<heard, removes, commands, sync, registrationUpdates, pendingResponse, local>>
      /\ lookup' \in LookupType /\ attached' \in BOOLEAN
  <2>1. lookup \in LookupType /\ attached \in BOOLEAN
    BY DEF BaseInv, SysType
  <2>2. CASE LeaderCrashes
    <3>1. [state |-> "lost", time |-> 0] \in LookupType
      BY DEF LookupType
    <3>. QED
      BY <2>1, <2>2, <3>1 DEF LeaderCrashes, commandVars, queueVars
  <2>3. CASE FollowerKept
    BY <2>1, <2>3 DEF FollowerKept, commandVars, queueVars
  <2>. QED
    BY <2>2, <2>3 DEF LeaderStep, LeaderStarts, LeaderRests, LeaderAdds, LeaderDrops
<1>. QED
  BY <1>1, <1>2, <1>3 DEF BaseInv, SysType

\* The registration of DomainDetails stays while others come and go.
LEMMA AddsDetails ==
    ASSUME BaseInv, NEW e \in Registrations, LeaderAdds(e) \/ LeaderDrops(e), e.url # DetailsUrl
    PROVE  DetailsSecs' = DetailsSecs
  BY InstanceIn DEF LeaderAdds, LeaderDrops, Adds, Drops, DetailsSecs, BaseInv, LeaderInv

\* The cached message after a step of the leader.
LEMMA LeaderStepCache ==
    ASSUME BaseInv, LeaderInv', LeaderStep
    PROVE  CacheOK'
<1>1. CASE LeaderStarts
  BY <1>1 DEF LeaderStarts, BaseInv, CacheOK, Bound, Listed
<1>2. CASE LeaderRests
  BY <1>2 DEF LeaderRests, BaseInv, CacheOK, Bound, Listed, DetailsSecs
<1>3. CASE LeaderCrashes
  BY <1>3 DEF LeaderCrashes, CacheOK, Bound
<1>4. ASSUME NEW e \in Registrations, NEW type \in {"ADD", "REMOVE"},
             LeaderAdds(e) \/ LeaderDrops(e), cache' = <<Note(e, type)>>
      PROVE  CacheOK'
  <2>1. cache'[1] = Note(e, type) /\ cache' # <<>> /\ cache' = <<cache'[1]>>
    BY <1>4
  <2>2. cache'[1].map = Listed' /\ cache'[1].registration_time = DetailsTime
    BY <2>1, NoteIn DEF BaseInv
  <2>3. phase' # "down"
    BY <1>4 DEF LeaderAdds, LeaderDrops
  <2>4. phase' = "details" => DetailsTime = 0
    BY <1>4 DEF LeaderAdds, LeaderDrops, DetailsTime
  <2>5. ASSUME phase' = "ready" PROVE DetailsTime = DetailsSecs'
    <3>1. phase \in {"timed", "ready"} /\ e.url # DetailsUrl
      BY <1>4, <2>5, InstanceIn DEF LeaderAdds, LeaderDrops, BaseInv, LeaderInv
    <3>2. DetailsSecs' = DetailsSecs
      BY <1>4, <3>1, AddsDetails
    <3>. QED
      BY <3>1, <3>2 DEF DetailsTime, DetailsSecs
  <2>. QED
    BY <2>1, <2>2, <2>3, <2>4, <2>5 DEF CacheOK
<1>5. ASSUME NEW e \in Registrations, LeaderAdds(e) PROVE CacheOK'
  BY <1>4, <1>5 DEF LeaderAdds, Adds, Announces
<1>6. ASSUME NEW e \in Registrations, LeaderDrops(e) PROVE CacheOK'
  BY <1>4, <1>6 DEF LeaderDrops, Drops, Announces
<1>. QED
  BY <1>1, <1>2, <1>3, <1>5, <1>6 DEF LeaderStep

\* A step of the leader leaves commands and socket in order; a crash or a
\* start ends being caught up.
LEMMA LeaderStepSocket ==
    ASSUME BaseInv, LeaderInv', LeaderStep
    PROVE  CommandsOK' /\ SocketOK'
<1>1. UNCHANGED <<heard, commands, sync>>
  BY DEF LeaderStep, LeaderStarts, LeaderRests, LeaderCrashes, LeaderAdds, LeaderDrops,
         FollowerKept, commandVars
<1>2. CommandsOK'
  BY <1>1 DEF BaseInv, CommandsOK
<1>3. /\ sync.socket # "sub" => wire = <<>> /\ ~attached /\ ~sync.initialized
      /\ lookup.state # "none" => sync.socket = "lookup"
      /\ attached \in BOOLEAN
  BY DEF BaseInv, SocketOK, SysType
<1>4. ~attached => ~attached' /\ wire' = wire
  BY <1>3 DEF LeaderStep, LeaderStarts, LeaderRests, LeaderCrashes, LeaderAdds, LeaderDrops,
         Adds, Drops, Announces, FollowerKept
<1>5. lookup'.state # "none" => lookup.state # "none"
  BY DEF LeaderStep, LeaderStarts, LeaderRests, LeaderCrashes, LeaderAdds, LeaderDrops,
         FollowerKept
<1>6. CASE LeaderStarts \/ LeaderCrashes
  <2>1. ~CaughtUp'
    BY <1>1, <1>6 DEF LeaderStarts, LeaderCrashes, CaughtUp, BaseInv, SysType, LeaderInv, ClockOK
  <2>. QED
    BY <1>1, <1>2, <1>3, <1>4, <1>5, <2>1 DEF SocketOK
<1>7. CASE LeaderRests \/ \E e \in Registrations : LeaderAdds(e) \/ LeaderDrops(e)
  <2>1. /\ CaughtUp' => CaughtUp
        /\ UNCHANGED <<lookup, attached>>
        /\ phase \in Bound => phase' \in Bound
    BY <1>1, <1>7 DEF LeaderRests, LeaderAdds, LeaderDrops, CaughtUp, FollowerKept, Bound
  <2>2. phase \in Bound => DetailsSecs' = DetailsSecs
    <3>1. CASE LeaderRests
      BY <3>1 DEF LeaderRests, DetailsSecs
    <3>2. ASSUME NEW e \in Registrations, LeaderAdds(e) \/ LeaderDrops(e), phase \in Bound
          PROVE  DetailsSecs' = DetailsSecs
      <4>1. e.url # DetailsUrl
        BY <3>2, InstanceIn DEF LeaderAdds, LeaderDrops, Bound, BaseInv, LeaderInv
      <4>. QED
        BY <3>2, <4>1, AddsDetails
    <3>. QED
      BY <1>7, <3>1, <3>2
  <2>3. /\ CaughtUp /\ lookup.state = "found" =>
              phase \in Bound /\ lookup.time = DetailsSecs
        /\ CaughtUp /\ sync.socket = "sub" =>
              phase \in Bound /\ sync.registrationTime = DetailsSecs
        /\ CaughtUp /\ ~attached => wire = <<>> /\ ~sync.initialized
    BY DEF BaseInv, SocketOK
  <2>. QED
    BY <1>1, <1>2, <1>3, <1>4, <1>5, <2>1, <2>2, <2>3 DEF SocketOK
<1>. QED
  BY <1>6, <1>7 DEF LeaderStep

(***************************************************************************)
(* The queue of the synchronizer                                           *)
(***************************************************************************)

\* The elements of a concatenation.
LEMMA ConcatIs ==
    ASSUME NEW T, NEW a \in Seq(T), NEW b \in Seq(T)
    PROVE  /\ a \o b \in Seq(T) /\ Len(a \o b) = Len(a) + Len(b)
           /\ Len(a) \in Nat /\ Len(b) \in Nat
           /\ \A i \in 1..Len(a) : (a \o b)[i] = a[i] /\ i \in 1..Len(a \o b)
           /\ \A i \in 1..Len(b) : /\ (a \o b)[Len(a) + i] = b[i]
                                   /\ Len(a) + i \in 1..Len(a \o b)
           /\ \A i \in 1..Len(a \o b) :
                 i \in 1..Len(a) \/ (i - Len(a) \in 1..Len(b) /\ i > Len(a)
                                     /\ (a \o b)[i] = b[i - Len(a)])
<1>1. /\ a \o b \in Seq(T) /\ Len(a \o b) = Len(a) + Len(b)
      /\ \A i \in 1..(Len(a) + Len(b)) :
           (a \o b)[i] = IF i <= Len(a) THEN a[i] ELSE b[i - Len(a)]
  BY ConcatProperties
<1>2. Len(a) \in Nat /\ Len(b) \in Nat
  OBVIOUS
<1> DEFINE c == a \o b
           n == Len(a)
           k == Len(b)
<1> HIDE DEF c, n, k
<1>3. /\ n \in Nat /\ k \in Nat /\ Len(c) = n + k
      /\ \A i \in 1..(n + k) : c[i] = IF i <= n THEN a[i] ELSE b[i - n]
  BY <1>1, <1>2 DEF c, n, k
<1>4. \A i \in 1..n : c[i] = a[i] /\ i \in 1..Len(c)
  BY <1>3
<1>5. ASSUME NEW i \in 1..k PROVE c[n + i] = b[i] /\ n + i \in 1..Len(c)
  <2>1. n + i \in 1..(n + k) /\ ~(n + i <= n) /\ (n + i) - n = i
    BY <1>3
  <2>. QED
    BY <1>3, <2>1
<1>6. ASSUME NEW i \in 1..Len(c)
      PROVE  i \in 1..n \/ (i - n \in 1..k /\ i > n /\ c[i] = b[i - n])
  BY <1>3
<1>. QED
  BY <1>1, <1>2, <1>4, <1>5, <1>6 DEF c, n, k

\* A sequence is its head and its tail.
LEMMA HeadOnTail ==
    ASSUME NEW T, NEW s \in Seq(T), s # <<>>
    PROVE  /\ Head(s) \in T /\ Head(s) = s[1] /\ Tail(s) \in Seq(T)
           /\ <<Head(s)>> \o Tail(s) = s
           /\ Len(s) \in Nat /\ Len(s) >= 1 /\ Len(Tail(s)) = Len(s) - 1
           /\ \A i \in 1..Len(Tail(s)) : Tail(s)[i] = s[i + 1] /\ i + 1 \in 1..Len(s)
<1>1. /\ Head(s) \in T /\ Head(s) = s[1] /\ Tail(s) \in Seq(T)
      /\ Len(s) \in Nat /\ Len(s) >= 1 /\ Len(Tail(s)) = Len(s) - 1
      /\ \A i \in 1..Len(Tail(s)) : Tail(s)[i] = s[i + 1] /\ i + 1 \in 1..Len(s)
  OBVIOUS
<1> DEFINE c == <<Head(s)>> \o Tail(s)
<1>2. <<Head(s)>> \in Seq(T) /\ Len(<<Head(s)>>) = 1 /\ <<Head(s)>>[1] = Head(s)
  BY <1>1
<1>3. /\ c \in Seq(T) /\ Len(c) = Len(s)
      /\ \A i \in 1..Len(c) : c[i] = IF i <= 1 THEN <<Head(s)>>[i] ELSE Tail(s)[i - 1]
  BY <1>1, <1>2, ConcatProperties
<1> HIDE DEF c
<1>4. \A i \in 1..Len(s) : c[i] = s[i]
  <2>1. ASSUME NEW i \in 1..Len(s) PROVE c[i] = s[i]
    <3>1. CASE i = 1
      BY <1>1, <1>2, <1>3, <3>1
    <3>2. CASE i # 1
      <4>1. i - 1 \in 1..Len(Tail(s)) /\ (i - 1) + 1 = i /\ ~(i <= 1)
        BY <1>1, <3>2
      <4>. QED
        BY <1>1, <1>3, <4>1
    <3>. QED
      BY <3>1, <3>2
  <2>. QED
    BY <2>1
<1>5. c = s
  BY <1>3, <1>4, SeqEqual
<1>. QED
  BY <1>1, <1>5 DEF c

\* A turn puts requests at the end of the queue and may send its first one.
LEMMA EndTurnIs ==
    ASSUME NEW requests \in Seq(RequestType), NEW pending \in Seq(RequestType),
           Len(pending) <= 1, EndTurn(requests, pending)
    PROVE  /\ registrationUpdates' \in Seq(RequestType)
           /\ pendingResponse' \in Seq(RequestType) /\ Len(pendingResponse') <= 1
           /\ Queue' = pending \o requests
<1>1. CASE pending # <<>> \/ requests = <<>>
  BY <1>1 DEF EndTurn, Queue
<1>2. CASE pending = <<>> /\ requests # <<>>
  <2>1. /\ registrationUpdates' = Tail(requests) /\ pendingResponse' = <<Head(requests)>>
    BY <1>2 DEF EndTurn
  <2>2. Head(requests) \in RequestType /\ Tail(requests) \in Seq(RequestType)
        /\ <<Head(requests)>> \o Tail(requests) = requests
    BY <1>2, HeadOnTail
  <2>3. pending \o requests = requests
    BY <1>2
  <2>. QED
    BY <2>1, <2>2, <2>3 DEF Queue
<1>. QED
  BY <1>1, <1>2

\* A turn with the requests q.
LEMMA TurnIs ==
    ASSUME SysType, NEW q \in Seq(RequestType),
           EndTurn(registrationUpdates \o q, pendingResponse)
    PROVE  /\ registrationUpdates' \in Seq(RequestType)
           /\ pendingResponse' \in Seq(RequestType) /\ Len(pendingResponse') <= 1
           /\ Queue' = Queue \o q /\ Queue \in Seq(RequestType)
<1>1. /\ registrationUpdates \in Seq(RequestType) /\ pendingResponse \in Seq(RequestType)
      /\ Len(pendingResponse) <= 1
  BY DEF SysType
<1>2. registrationUpdates \o q \in Seq(RequestType)
  BY <1>1
<1>3. Queue' = pendingResponse \o (registrationUpdates \o q)
  BY <1>1, <1>2, EndTurnIs
<1>4. pendingResponse \o (registrationUpdates \o q) = Queue \o q
  BY <1>1 DEF Queue
<1>5. /\ registrationUpdates' \in Seq(RequestType)
      /\ pendingResponse' \in Seq(RequestType) /\ Len(pendingResponse') <= 1
  BY <1>1, <1>2, EndTurnIs
<1>6. Queue \in Seq(RequestType)
  BY <1>1 DEF Queue
<1>. QED
  BY <1>3, <1>4, <1>5, <1>6

\* A turn without a request.
LEMMA QuietTurnIs ==
    ASSUME SysType, EndTurn(registrationUpdates, pendingResponse)
    PROVE  /\ registrationUpdates' \in Seq(RequestType)
           /\ pendingResponse' \in Seq(RequestType) /\ Len(pendingResponse') <= 1
           /\ Queue' = Queue
  BY EndTurnIs DEF SysType, Queue

(***************************************************************************)
(* The requests                                                            *)
(***************************************************************************)

\* The request to register e.
RegisterRequest(e) == [kind |-> "register", entry |-> e]

\* The values of a function on a finite set.
LEMMA FiniteRange ==
    ASSUME NEW X, IsFiniteSet(X), NEW T, NEW f \in [X -> T]
    PROVE  IsFiniteSet({f[x] : x \in X})
<1>1. f \in Surjection(X, {f[x] : x \in X})
  BY DEF Surjection
<1>. QED
  BY <1>1, FS_Surjection

\* The requests of a map: one for each entry.
LEMMA MapRequests ==
    ASSUME NEW S \in SUBSET Registrations, IsFiniteSet(S)
    PROVE  LET q == RegistrationRequests(S)
           IN  /\ q \in Seq(RequestType)
               /\ \A i \in 1..Len(q) : q[i] = RegisterRequest(q[i].entry) /\ q[i].entry \in S
               /\ \A i, j \in 1..Len(q) : q[i].entry = q[j].entry => i = j
               /\ \A e \in S : \E i \in 1..Len(q) : q[i] = RegisterRequest(e)
<1> DEFINE part(type) == {[kind |-> "register", entry |-> e] : e \in {f \in S : f.type = type}}
           a == SetToSeq(part("SERVICE"))
           b == SetToSeq(part("DATA"))
           q == RegistrationRequests(S)
           R == {[kind |-> "register", entry |-> e] : e \in S}
<1>1. q = a \o b
  BY DEF RegistrationRequests
<1>2. R \subseteq RequestType
  BY DEF RequestType
<1>3. ASSUME NEW type PROVE IsFiniteSet(part(type)) /\ part(type) \subseteq R
  <2>1. IsFiniteSet({f \in S : f.type = type})
    BY FS_Subset
  <2> DEFINE X == {f \in S : f.type = type}
             g == [e \in X |-> [kind |-> "register", entry |-> e]]
  <2>2. g \in [X -> R] /\ part(type) = {g[x] : x \in X}
    OBVIOUS
  <2>3. IsFiniteSet(part(type))
    <3>1. IsFiniteSet({g[x] : x \in X})
      <4>1. IsFiniteSet(X) /\ g \in [X -> R]
        BY <2>1, <2>2
      <4> HIDE DEF X, g, R
      <4>. QED
        BY <4>1, FiniteRange
    <3>. QED
      BY <2>2, <3>1
  <2>. QED
    BY <2>3
<1>4. /\ a \in Seq(part("SERVICE")) /\ b \in Seq(part("DATA"))
      /\ \A i, j \in 1..Len(a) : a[i] = a[j] => i = j
      /\ \A i, j \in 1..Len(b) : b[i] = b[j] => i = j
      /\ \A d \in part("SERVICE") : \E i \in 1..Len(a) : a[i] = d
      /\ \A d \in part("DATA") : \E i \in 1..Len(b) : b[i] = d
  <2>1. IsFiniteSet(part("SERVICE")) /\ IsFiniteSet(part("DATA"))
    BY <1>3
  <2> HIDE DEF part
  <2>. QED
    BY <2>1, SeqOfSet
<1> HIDE DEF a, b, q
<1>5. a \in Seq(R) /\ b \in Seq(R)
  <2>1. part("SERVICE") \subseteq R /\ part("DATA") \subseteq R
    BY <1>3
  <2> HIDE DEF part, R
  <2>. QED
    BY <1>4, <2>1
<1>6. /\ q \in Seq(R) /\ Len(q) = Len(a) + Len(b) /\ Len(a) \in Nat /\ Len(b) \in Nat
      /\ \A i \in 1..Len(a) : q[i] = a[i] /\ i \in 1..Len(q)
      /\ \A i \in 1..Len(b) : q[Len(a) + i] = b[i] /\ Len(a) + i \in 1..Len(q)
      /\ \A i \in 1..Len(q) :
            i \in 1..Len(a) \/ (i - Len(a) \in 1..Len(b) /\ i > Len(a)
                                /\ q[i] = b[i - Len(a)])
  BY <1>1, <1>5, ConcatIs
<1>7. q \in Seq(RequestType)
  <2> HIDE DEF R
  <2>. QED
    BY <1>2, <1>6
<1>8. \A i \in 1..Len(q) : q[i] \in R
  <2> HIDE DEF R
  <2>. QED
    BY <1>6
<1>9. \A i \in 1..Len(q) : q[i] = RegisterRequest(q[i].entry) /\ q[i].entry \in S
  BY <1>8 DEF RegisterRequest
<1>10. ASSUME NEW e \in S PROVE \E i \in 1..Len(q) : q[i] = RegisterRequest(e)
  <2>1. RegisterRequest(e) \in part("SERVICE") \/ RegisterRequest(e) \in part("DATA")
    BY RegistrationIs DEF RegisterRequest
  <2> HIDE DEF part
  <2>2. CASE RegisterRequest(e) \in part("SERVICE")
    <3>1. PICK i \in 1..Len(a) : a[i] = RegisterRequest(e)
      BY <1>4, <2>2
    <3>. QED
      BY <1>6, <3>1
  <2>3. CASE RegisterRequest(e) \in part("DATA")
    <3>1. PICK i \in 1..Len(b) : b[i] = RegisterRequest(e)
      BY <1>4, <2>3
    <3>. QED
      BY <1>6, <3>1
  <2>. QED
    BY <2>1, <2>2, <2>3
<1>11. /\ \A i \in 1..Len(a) : a[i] \in part("SERVICE")
       /\ \A i \in 1..Len(b) : b[i] \in part("DATA")
  <2> HIDE DEF part
  <2>. QED
    BY <1>4
<1>12. /\ \A i \in 1..Len(a) : a[i].entry.type = "SERVICE" /\ a[i] = RegisterRequest(a[i].entry)
       /\ \A i \in 1..Len(b) : b[i].entry.type = "DATA" /\ b[i] = RegisterRequest(b[i].entry)
  BY <1>11 DEF RegisterRequest
<1> HIDE DEF part, R
<1>14. ASSUME NEW i \in 1..Len(q), i \notin 1..Len(a)
       PROVE  q[i].entry.type = "DATA"
  <2>1. i - Len(a) \in 1..Len(b) /\ q[i] = b[i - Len(a)]
    BY <1>6, <1>14
  <2>2. \A k \in 1..Len(b) : b[k].entry.type = "DATA"
    BY <1>12
  <2>. QED
    BY <2>1, <2>2
<1>15. \A i \in 1..Len(a) : q[i].entry.type = "SERVICE"
  <2>1. \A i \in 1..Len(a) : q[i] = a[i]
    BY <1>6
  <2>. QED
    BY <1>12, <2>1
<1>13. ASSUME NEW i \in 1..Len(q), NEW j \in 1..Len(q), q[i].entry = q[j].entry
       PROVE  i = j
  <2>1. q[i] = q[j]
    BY <1>9, <1>13
  <2>2. CASE i \in 1..Len(a) /\ j \in 1..Len(a)
    BY <1>4, <1>6, <2>1, <2>2
  <2>3. CASE i \in 1..Len(a) /\ j \notin 1..Len(a)
    BY <1>14, <1>15, <2>1, <2>3
  <2>4. CASE i \notin 1..Len(a) /\ j \in 1..Len(a)
    BY <1>14, <1>15, <2>1, <2>4
  <2>5. CASE i \notin 1..Len(a) /\ j \notin 1..Len(a)
    <3>1. i - Len(a) \in 1..Len(b) /\ j - Len(a) \in 1..Len(b)
          /\ b[i - Len(a)] = b[j - Len(a)]
      BY <1>6, <2>1, <2>5
    <3>2. i - Len(a) = j - Len(a)
      BY <1>4, <3>1
    <3>. QED
      BY <1>6, <3>2
  <2>. QED
    BY <2>2, <2>3, <2>4, <2>5
<1>. QED
  BY <1>7, <1>9, <1>10, <1>13 DEF q

\* The requests of a message: of its map when it is the first, of its change
\* otherwise.
LEMMA RequestsIs ==
    ASSUME NEW m \in MessageType, NEW initialized \in BOOLEAN
    PROVE  /\ Requests(m, initialized) \in Seq(RequestType)
           /\ ~initialized => Requests(m, initialized) = RegistrationRequests(m.map)
           /\ initialized /\ m.change_type = "ADD" =>
                 Requests(m, initialized) = <<RegisterRequest(m.change)>>
           /\ initialized /\ m.change_type = "REMOVE" =>
                 Requests(m, initialized) =
                    <<UnregistrationRequest(m.change.type, m.change, Secs(m.change.timestamp))>>
           /\ RegisterRequest(m.change) \in RequestType
           /\ UnregistrationRequest(m.change.type, m.change, Secs(m.change.timestamp))
                 \in RequestType
<1>1. /\ m.change \in Registrations /\ m.change_type \in {"ADD", "REMOVE"}
      /\ m.map \in SUBSET Registrations /\ IsFiniteSet(m.map)
  BY DEF MessageType
<1>2. RegisterRequest(m.change) \in RequestType
  BY <1>1 DEF RegisterRequest, RequestType
<1>3. UnregistrationRequest(m.change.type, m.change, Secs(m.change.timestamp)) \in RequestType
  <2>1. /\ m.change.type \in {"DATA", "SERVICE"} /\ m.change.url \in AllUrls
        /\ m.change.id \in AllProducts \cup AllServices
        /\ Secs(m.change.timestamp) \in Nat
    BY <1>1, RegistrationIs, SecsNat
  <2>. QED
    BY <2>1 DEF UnregistrationRequest, RequestType, Registration, Named
<1>4. RegistrationRequests(m.map) \in Seq(RequestType)
  BY <1>1, MapRequests
<1>. QED
  BY <1>1, <1>2, <1>3, <1>4 DEF Requests, RegisterRequest

\* The requests of a Remove.
RemoveRequests ==
    SetToSeq({UnregistrationRequest(sync.type, e, sync.registrationTime) : e \in sync.map})

\* A Remove only unregisters.
LEMMA RemoveRequestsIs ==
    ASSUME SysType
    PROVE  /\ RemoveRequests \in Seq(RequestType)
           /\ \A i \in 1..Len(RemoveRequests) : RemoveRequests[i].kind = "unregister"
<1> DEFINE f == [e \in sync.map |-> UnregistrationRequest(sync.type, e, sync.registrationTime)]
           S == {UnregistrationRequest(sync.type, e, sync.registrationTime) : e \in sync.map}
           U == [kind : {"unregister"}, secs : Nat, entry : Named]
<1>1. /\ sync.map \subseteq Registrations /\ IsFiniteSet(sync.map)
      /\ sync.type \in {"DATA", "SERVICE"} /\ sync.registrationTime \in Nat
  BY DEF SysType, DetailsType
<1>2. \A e \in sync.map : UnregistrationRequest(sync.type, e, sync.registrationTime) \in U
  <2>1. \A e \in sync.map : e.url \in AllUrls /\ e.id \in AllProducts \cup AllServices
    BY <1>1, RegistrationIs
  <2>. QED
    BY <1>1, <2>1 DEF UnregistrationRequest, Registration, Named
<1>3. f \in [sync.map -> U] /\ S = {f[e] : e \in sync.map}
  BY <1>2
<1>4. IsFiniteSet(S)
  <2> HIDE DEF f, U
  <2>1. IsFiniteSet({f[e] : e \in sync.map})
    BY <1>1, <1>3, FiniteRange
  <2>. QED
    BY <1>3, <2>1
<1>5. S \subseteq U
  BY <1>2
<1>6. RemoveRequests = SetToSeq(S)
  BY DEF RemoveRequests
<1> HIDE DEF S
<1>7. RemoveRequests \in Seq(S)
  BY <1>4, <1>6, SeqOfSet
<1>8. RemoveRequests \in Seq(U)
  <2> HIDE DEF U
  <2>. QED
    BY <1>5, <1>7
<1>9. U \subseteq RequestType
  BY DEF RequestType
<1>10. \A i \in 1..Len(RemoveRequests) : RemoveRequests[i] \in U
  <2> HIDE DEF U
  <2>. QED
    BY <1>8
<1>11. RemoveRequests \in Seq(RequestType)
  <2> HIDE DEF U
  <2>. QED
    BY <1>8, <1>9
<1>. QED
  BY <1>10, <1>11

(***************************************************************************)
(* Steps of the follower                                                   *)
(***************************************************************************)

\* A step of the follower keeps the leader's side.
LEMMA LeaderKept ==
    ASSUME BaseInv, UNCHANGED leaderVars
    PROVE  /\ LeaderInv' /\ CacheOK' /\ Listed' = Listed /\ DetailsSecs' = DetailsSecs
           /\ cache' = cache
<1>1. UNCHANGED <<now, apps, phase, incarnation, leader, cache>>
  BY DEF leaderVars
<1>2. Listed' = Listed /\ DetailsSecs' = DetailsSecs /\ DetailsEntry' = DetailsEntry
      /\ DirectoryEntry' = DirectoryEntry
  BY <1>1 DEF Listed, DetailsSecs, DetailsEntry, DirectoryEntry
<1>3. LeaderInv'
  BY <1>1, <1>2 DEF BaseInv, LeaderInv, LeaderMaps, AppsOK, PlacesOK, ClockOK
<1>4. CacheOK'
  BY <1>1, <1>2 DEF BaseInv, CacheOK
<1>. QED
  BY <1>1, <1>2, <1>3, <1>4

\* A command is carried out.
LEMMA FirstOfCommands ==
    ASSUME BaseInv, commands # <<>>, commands' = Tail(commands), heard' = heard,
           Head(commands) = "Remove" => sync'.socket = "none"
    PROVE  /\ commands' \in Seq({"Add", "Update", "Remove"}) /\ CommandsOK'
           /\ Head(commands) = "Add" => sync.socket = "none"
<1> DEFINE c == Tail(commands)
           T == {"Add", "Update", "Remove"}
<1>0. commands \in Seq(T)
  BY DEF BaseInv, SysType
<1> HIDE DEF T
<1>1. /\ c \in Seq(T) /\ Head(commands) = commands[1]
      /\ Len(commands) \in Nat /\ Len(commands) >= 1 /\ Len(c) = Len(commands) - 1
      /\ \A i \in 1..Len(c) : c[i] = commands[i + 1] /\ i + 1 \in 1..Len(commands)
  BY <1>0, HeadOnTail
<1>2. /\ \A i \in 1..Len(commands) : commands[i] = "Add" =>
            IF i = 1 THEN sync.socket = "none" ELSE commands[i - 1] = "Remove"
      /\ heard = 0 => IF commands = <<>> THEN sync.socket = "none"
                      ELSE commands[Len(commands)] = "Remove"
  BY DEF BaseInv, CommandsOK
<1> HIDE DEF c
<1>3. ASSUME NEW i \in 1..Len(c), c[i] = "Add"
      PROVE  IF i = 1 THEN sync'.socket = "none" ELSE c[i - 1] = "Remove"
  <2>1. commands[i + 1] = "Add" /\ i + 1 \in 1..Len(commands) /\ i + 1 # 1 /\ (i + 1) - 1 = i
    BY <1>1, <1>3
  <2>2. commands[i] = "Remove"
    BY <1>2, <2>1
  <2>3. CASE i = 1
    BY <1>1, <2>2, <2>3
  <2>4. CASE i # 1
    <3>1. i - 1 \in 1..Len(c) /\ (i - 1) + 1 = i
      BY <1>1, <2>4
    <3>. QED
      BY <1>1, <2>2, <2>4, <3>1
  <2>. QED
    BY <2>3, <2>4
<1>4. ASSUME heard = 0
      PROVE  IF c = <<>> THEN sync'.socket = "none" ELSE c[Len(c)] = "Remove"
  <2>1. commands[Len(commands)] = "Remove"
    BY <1>2, <1>4
  <2>2. CASE c = <<>>
    <3>1. Len(commands) = 1
      BY <1>1, <2>2
    <3>. QED
      BY <1>1, <2>1, <2>2, <3>1
  <2>3. CASE c # <<>>
    <3>1. Len(c) \in 1..Len(c) /\ Len(c) + 1 = Len(commands)
      BY <1>1, <2>3
    <3>. QED
      BY <1>1, <2>1, <2>3, <3>1
  <2>. QED
    BY <2>2, <2>3
<1>5. CommandsOK'
  BY <1>3, <1>4 DEF CommandsOK, c
<1>6. Head(commands) = "Add" => sync.socket = "none"
  BY <1>1, <1>2
<1>. QED
  BY <1>1, <1>5, <1>6 DEF c, T

\* A command is sent.
LEMMA NewCommand ==
    ASSUME BaseInv, NEW c \in {"Add", "Update", "Remove"},
           commands' = Append(commands, c), sync' = sync,
           c = "Add" => heard = 0,
           heard' = 0 => c = "Remove"
    PROVE  /\ commands' \in Seq({"Add", "Update", "Remove"}) /\ CommandsOK'
           /\ commands' # <<>>
<1> DEFINE T == {"Add", "Update", "Remove"}
<1>0. commands \in Seq(T) /\ c \in T
  BY DEF BaseInv, SysType
<1> HIDE DEF T
<1>1. /\ commands' \in Seq(T) /\ Len(commands) \in Nat /\ Len(commands') = Len(commands) + 1
      /\ \A i \in 1..Len(commands) : commands'[i] = commands[i]
      /\ commands'[Len(commands) + 1] = c
  BY <1>0
<1>2. /\ \A i \in 1..Len(commands) : commands[i] = "Add" =>
            IF i = 1 THEN sync.socket = "none" ELSE commands[i - 1] = "Remove"
      /\ heard = 0 => IF commands = <<>> THEN sync.socket = "none"
                      ELSE commands[Len(commands)] = "Remove"
  BY DEF BaseInv, CommandsOK
<1>3. ASSUME NEW i \in 1..Len(commands'), commands'[i] = "Add"
      PROVE  IF i = 1 THEN sync'.socket = "none" ELSE commands'[i - 1] = "Remove"
  <2>1. CASE i \in 1..Len(commands)
    <3>1. i # 1 => i - 1 \in 1..Len(commands)
      BY <1>1, <2>1
    <3>. QED
      BY <1>1, <1>2, <1>3, <2>1, <3>1
  <2>2. CASE i = Len(commands) + 1
    <3>1. heard = 0
      BY <1>1, <1>3, <2>2
    <3>2. CASE commands = <<>>
      BY <1>1, <1>2, <2>2, <3>1, <3>2
    <3>3. CASE commands # <<>>
      <4>1. Len(commands) \in 1..Len(commands) /\ i # 1 /\ i - 1 = Len(commands)
        BY <1>0, <1>1, <2>2, <3>3
      <4>. QED
        BY <1>1, <1>2, <3>1, <3>3, <4>1
    <3>. QED
      BY <3>2, <3>3
  <2>. QED
    BY <1>1, <2>1, <2>2
<1>4. commands' # <<>>
  BY <1>1
<1>5. CommandsOK'
  BY <1>1, <1>3, <1>4 DEF CommandsOK
<1>. QED
  BY <1>1, <1>4, <1>5 DEF T

\* The maps of the follower after a request.
Registered(maps, r) == Instanced(Entered(maps, r), r, r.timestamp)
Unregistered(maps, r, secs) == Instanced(Removed(maps, r, secs), r, 0)
Handled(maps, q) ==
    IF q.kind = "register"
    THEN IF Accepted(maps, q.entry) THEN Registered(maps, q.entry) ELSE maps
    ELSE IF Unlisted(maps, q.entry, q.secs) THEN Unregistered(maps, q.entry, q.secs) ELSE maps

\* The parts of the maps after a registration.
LEMMA RegisteredIs ==
    ASSUME NEW maps \in MapsType, NEW r \in Registrations
    PROVE  /\ Registered(maps, r) \in MapsType
           /\ Registered(maps, r).instance = [maps.instance EXCEPT ![r.url] = r.timestamp]
           /\ Registered(maps, r).data =
                 IF r.type = "DATA"
                 THEN {p \in maps.data : p.id # r.id \/ p.url # r.url}
                        \cup {Publisher(r.id, r.url, Secs(r.timestamp))}
                 ELSE maps.data
           /\ Registered(maps, r).service =
                 IF r.type = "DATA" THEN maps.service
                 ELSE [maps.service EXCEPT ![r.id] = r.url]
<1>1. /\ r.url \in AllUrls /\ r.timestamp \in Nat /\ r.type \in {"DATA", "SERVICE"}
      /\ r.type = "DATA" => r.id \in AllProducts
      /\ r.type = "SERVICE" => r.id \in AllServices
      /\ Secs(r.timestamp) \in Nat
  BY RegistrationIs, SecsNat
<1>2. /\ maps.data \in SUBSET PublisherType
      /\ maps.service \in [AllServices -> AllUrls \cup {NoUrl}]
      /\ maps.instance \in [AllUrls -> Nat]
      /\ maps = [data |-> maps.data, service |-> maps.service, instance |-> maps.instance]
  BY DEF MapsType
<1>3. [maps.instance EXCEPT ![r.url] = r.timestamp] \in [AllUrls -> Nat]
  BY <1>1, <1>2
<1>4. CASE r.type = "DATA"
  <2> DEFINE new == {p \in maps.data : p.id # r.id \/ p.url # r.url}
                      \cup {Publisher(r.id, r.url, Secs(r.timestamp))}
  <2>1. Registered(maps, r) = [data |-> new, service |-> maps.service,
                               instance |-> [maps.instance EXCEPT ![r.url] = r.timestamp]]
    <3>1. Entered(maps, r) = [data |-> new, service |-> maps.service,
                              instance |-> [maps.instance EXCEPT ![r.url] = r.timestamp]]
      BY <1>2, <1>4 DEF Entered
    <3>2. [[maps.instance EXCEPT ![r.url] = r.timestamp] EXCEPT ![r.url] = r.timestamp]
             = [maps.instance EXCEPT ![r.url] = r.timestamp]
      BY <1>1, <1>2
    <3> HIDE DEF new
    <3>. QED
      BY <3>1, <3>2 DEF Registered, Instanced
  <2>2. Publisher(r.id, r.url, Secs(r.timestamp)) \in PublisherType
    BY <1>1, <1>4 DEF Publisher, PublisherType
  <2>3. new \subseteq PublisherType
    BY <1>2, <2>2
  <2> HIDE DEF new
  <2>4. Registered(maps, r) \in MapsType
    BY <1>2, <1>3, <2>1, <2>3 DEF MapsType
  <2>. QED
    BY <1>4, <2>1, <2>4 DEF new
<1>5. CASE r.type = "SERVICE"
  <2>1. Registered(maps, r) = [data |-> maps.data,
                               service |-> [maps.service EXCEPT ![r.id] = r.url],
                               instance |-> [maps.instance EXCEPT ![r.url] = r.timestamp]]
    <3> DEFINE new == [maps.service EXCEPT ![r.id] = r.url]
    <3>1. Entered(maps, r) = [data |-> maps.data, service |-> new, instance |-> maps.instance]
      BY <1>2, <1>5 DEF Entered
    <3> HIDE DEF new
    <3>2. Registered(maps, r) = [data |-> maps.data, service |-> new,
                                 instance |-> [maps.instance EXCEPT ![r.url] = r.timestamp]]
      BY <3>1 DEF Registered, Instanced
    <3>. QED
      BY <3>2 DEF new
  <2>2. [maps.service EXCEPT ![r.id] = r.url] \in [AllServices -> AllUrls \cup {NoUrl}]
    BY <1>1, <1>2
  <2>3. Registered(maps, r) \in MapsType
    BY <1>2, <1>3, <2>1, <2>2 DEF MapsType
  <2>. QED
    BY <1>5, <2>1, <2>3
<1>. QED
  BY <1>1, <1>4, <1>5

\* The parts of the maps after an unregistration.
LEMMA UnregisteredIs ==
    ASSUME NEW maps \in MapsType, NEW r \in Named, NEW secs, Unlisted(maps, r, secs)
    PROVE  /\ Unregistered(maps, r, secs) \in MapsType
           /\ Unregistered(maps, r, secs).instance = [maps.instance EXCEPT ![r.url] = 0]
           /\ Unregistered(maps, r, secs).data =
                 IF r.type = "DATA" THEN maps.data \ {Publisher(r.id, r.url, secs)}
                 ELSE maps.data
           /\ Unregistered(maps, r, secs).service =
                 IF r.type = "DATA" THEN maps.service
                 ELSE [maps.service EXCEPT ![r.id] = NoUrl]
           /\ r.type # "DATA" => r.id \in AllServices
<1>1. /\ r.url \in AllUrls /\ r.type \in {"DATA", "SERVICE"}
      /\ r.type # "DATA" => r.id \in AllServices
  BY DEF Named, Unlisted
<1>2. /\ maps.data \in SUBSET PublisherType
      /\ maps.service \in [AllServices -> AllUrls \cup {NoUrl}]
      /\ maps.instance \in [AllUrls -> Nat]
      /\ maps = [data |-> maps.data, service |-> maps.service, instance |-> maps.instance]
  BY DEF MapsType
<1>3. [maps.instance EXCEPT ![r.url] = 0] \in [AllUrls -> Nat]
  BY <1>1, <1>2
<1>4. CASE r.type = "DATA"
  <2>1. Unregistered(maps, r, secs) =
           [data |-> maps.data \ {Publisher(r.id, r.url, secs)}, service |-> maps.service,
            instance |-> [maps.instance EXCEPT ![r.url] = 0]]
    <3> DEFINE new == maps.data \ {Publisher(r.id, r.url, secs)}
    <3>1. Removed(maps, r, secs) = [data |-> new, service |-> maps.service,
                                    instance |-> maps.instance]
      BY <1>2, <1>4 DEF Removed
    <3> HIDE DEF new
    <3>2. Unregistered(maps, r, secs) =
             [data |-> new, service |-> maps.service,
              instance |-> [maps.instance EXCEPT ![r.url] = 0]]
      BY <3>1 DEF Unregistered, Instanced
    <3>. QED
      BY <3>2 DEF new
  <2>2. maps.data \ {Publisher(r.id, r.url, secs)} \in SUBSET PublisherType
    BY <1>2
  <2>3. Unregistered(maps, r, secs) \in MapsType
    BY <1>2, <1>3, <2>1, <2>2 DEF MapsType
  <2>. QED
    BY <1>4, <2>1, <2>3
<1>5. CASE r.type = "SERVICE"
  <2>1. Unregistered(maps, r, secs) =
           [data |-> maps.data, service |-> [maps.service EXCEPT ![r.id] = NoUrl],
            instance |-> [maps.instance EXCEPT ![r.url] = 0]]
    <3> DEFINE new == [maps.service EXCEPT ![r.id] = NoUrl]
    <3>1. Removed(maps, r, secs) = [data |-> maps.data, service |-> new,
                                    instance |-> maps.instance]
      BY <1>2, <1>5 DEF Removed
    <3> HIDE DEF new
    <3>2. Unregistered(maps, r, secs) =
             [data |-> maps.data, service |-> new,
              instance |-> [maps.instance EXCEPT ![r.url] = 0]]
      BY <3>1 DEF Unregistered, Instanced
    <3>. QED
      BY <3>2 DEF new
  <2>2. [maps.service EXCEPT ![r.id] = NoUrl] \in [AllServices -> AllUrls \cup {NoUrl}]
    BY <1>1, <1>2, <1>5
  <2>3. Unregistered(maps, r, secs) \in MapsType
    BY <1>2, <1>3, <2>1, <2>2 DEF MapsType
  <2>. QED
    BY <1>1, <1>5, <2>1, <2>3
<1>. QED
  BY <1>1, <1>4, <1>5

\* The fields of a request.
LEMMA RequestIs ==
    ASSUME NEW q \in RequestType
    PROVE  /\ q.kind \in {"register", "unregister"}
           /\ q.kind = "register" => q.entry \in Registrations /\ q = RegisterRequest(q.entry)
           /\ q.kind = "unregister" => q.entry \in Named /\ q.secs \in Nat
           /\ q.entry.url \in AllUrls
  BY RegistrationIs DEF RequestType, RegisterRequest, Named

\* The maps keep their type.
LEMMA HandledType ==
    ASSUME NEW maps \in MapsType, NEW q \in RequestType
    PROVE  Handled(maps, q) \in MapsType
<1>1. CASE q.kind = "register"
  <2>1. q.entry \in Registrations
    BY <1>1, RequestIs
  <2>2. Registered(maps, q.entry) \in MapsType
    BY <2>1, RegisteredIs
  <2>. QED
    BY <1>1, <2>2 DEF Handled
<1>2. CASE q.kind = "unregister"
  <2>1. q.entry \in Named
    BY <1>2, RequestIs
  <2>2. Unlisted(maps, q.entry, q.secs) => Unregistered(maps, q.entry, q.secs) \in MapsType
    BY <2>1, UnregisteredIs
  <2>. QED
    BY <1>2, <2>2 DEF Handled
<1>. QED
  BY <1>1, <1>2, RequestIs

\* The own directory handles the first request of the queue.
LEMMA ResponseIs ==
    ASSUME BaseInv, Response
    PROVE  /\ Queue # <<>> /\ Queue \in Seq(RequestType) /\ Queue' = Tail(Queue)
           /\ local' = Handled(local, Queue[1]) /\ local' \in MapsType
           /\ registrationUpdates' \in Seq(RequestType)
           /\ pendingResponse' \in Seq(RequestType) /\ Len(pendingResponse') <= 1
<1>1. /\ registrationUpdates \in Seq(RequestType) /\ pendingResponse \in Seq(RequestType)
      /\ Len(pendingResponse) <= 1 /\ pendingResponse # <<>> /\ local \in MapsType
  BY DEF BaseInv, SysType, Response
<1>2. /\ Len(pendingResponse) = 1 /\ pendingResponse[1] \in RequestType
      /\ pendingResponse = <<pendingResponse[1]>>
  <2>1. Len(pendingResponse) = 1 /\ pendingResponse[1] \in RequestType
    <3>1. Len(pendingResponse) \in Nat /\ Len(pendingResponse) >= 1
      BY <1>1, HeadOnTail
    <3>2. Len(pendingResponse) = 1
      <4>1. \A n \in Nat : n >= 1 /\ n <= 1 => n = 1
        OBVIOUS
      <4>2. Len(pendingResponse) <= 1
        BY <1>1
      <4>. QED
        BY <3>1, <4>1, <4>2
    <3>. QED
      BY <1>1, <3>2
  <2>2. /\ <<pendingResponse[1]>> \in Seq(RequestType) /\ Len(<<pendingResponse[1]>>) = 1
        /\ \A i \in 1..1 : pendingResponse[i] = <<pendingResponse[1]>>[i]
    BY <2>1
  <2>. QED
    BY <1>1, <2>1, <2>2, SeqEqual
<1>3. /\ Queue \in Seq(RequestType) /\ Queue # <<>> /\ Queue[1] = pendingResponse[1]
      /\ Tail(Queue) = registrationUpdates
  <2> DEFINE p == pendingResponse[1]
  <2>1. Queue = <<p>> \o registrationUpdates
    BY <1>2 DEF Queue
  <2> HIDE DEF p
  <2>2. p \in RequestType
    BY <1>2 DEF p
  <2>. QED
    BY <1>1, <2>1, <2>2 DEF p
<1>4. local' = Handled(local, pendingResponse[1])
  BY DEF Response, Handled, Registered, Unregistered
<1>5. local' \in MapsType
  BY <1>1, <1>2, <1>4, HandledType
<1>6. EndTurn(registrationUpdates, <<>>)
  BY DEF Response
<1>7. /\ registrationUpdates' \in Seq(RequestType)
      /\ pendingResponse' \in Seq(RequestType) /\ Len(pendingResponse') <= 1
      /\ Queue' = <<>> \o registrationUpdates
  <2>1. <<>> \in Seq(RequestType) /\ Len(<<>>) <= 1
    OBVIOUS
  <2>. QED
    BY <1>1, <1>6, <2>1, EndTurnIs
<1>8. <<>> \o registrationUpdates = registrationUpdates
  BY <1>1
<1>. QED
  BY <1>3, <1>4, <1>5, <1>7, <1>8

\* The receiver reports the leader, or its end.
LEMMA CommandBase ==
    ASSUME BaseInv, Hear \/ Miss
    PROVE  BaseInv' /\ ~CaughtUp'
<1>1. PICK c \in {"Add", "Update", "Remove"} :
         /\ commands' = Append(commands, c)
         /\ c = "Add" => heard = 0
         /\ heard' = 0 => c = "Remove"
  <2>1. incarnation # 0 \/ ~Hear
    BY DEF Hear, BaseInv, LeaderInv, ClockOK
  <2>. QED
    BY <2>1 DEF Hear, Miss
<1>2. UNCHANGED <<leaderVars, sync, socketVars, queueVars, local>>
  BY DEF Hear, Miss
<1>3. /\ commands' \in Seq({"Add", "Update", "Remove"}) /\ CommandsOK' /\ commands' # <<>>
  BY <1>1, <1>2, NewCommand
<1>4. ~CaughtUp'
  BY <1>3 DEF CaughtUp
<1>5. LeaderInv' /\ CacheOK'
  BY <1>2, LeaderKept
<1>6. heard' \in Nat /\ heard' <= incarnation' /\ removes' \in 0..MaxRemoves
  <2>1. /\ heard \in Nat /\ heard <= incarnation /\ removes \in 0..MaxRemoves
        /\ incarnation \in Nat /\ incarnation' = incarnation
    BY <1>2 DEF BaseInv, SysType, LeaderInv, ClockOK, leaderVars
  <2>2. MaxRemoves \in Nat
    BY DomainSyncAssumption
  <2>. QED
    BY <2>1, <2>2 DEF Hear, Miss
<1>7. SysType'
  BY <1>2, <1>3, <1>6 DEF BaseInv, SysType, leaderVars, socketVars, queueVars
<1>8. SocketOK'
  BY <1>2, <1>4 DEF BaseInv, SocketOK, socketVars
<1>. QED
  BY <1>3, <1>4, <1>5, <1>7, <1>8 DEF BaseInv

\* A command that ends with a lookup.
LEMMA LookUpIs ==
    ASSUME BaseInv, AddDomain \/ UpdateDomain
    PROVE  /\ BaseInv' /\ Queue' = Queue /\ UNCHANGED <<leaderVars, heard, removes, local>>
           /\ commands # <<>> /\ commands' = Tail(commands)
           /\ ~attached' /\ wire' = <<>> /\ ~sync'.initialized /\ sync'.socket = "lookup"
           /\ AddDomain => Head(commands) = "Add" /\ sync.socket = "none"
           /\ UpdateDomain => Head(commands) = "Update"
<1>1. /\ commands # <<>> /\ commands' = Tail(commands) /\ Head(commands) # "Remove"
      /\ UNCHANGED <<leaderVars, heard, removes, local>>
      /\ EndTurn(registrationUpdates, pendingResponse)
      /\ AddDomain => Head(commands) = "Add"
      /\ UpdateDomain => Head(commands) = "Update"
  BY DEF AddDomain, UpdateDomain
<1>2. /\ commands' \in Seq({"Add", "Update", "Remove"}) /\ CommandsOK'
      /\ Head(commands) = "Add" => sync.socket = "none"
  BY <1>1, FirstOfCommands
<1>3. /\ sync' \in DetailsType /\ IsFiniteSet(sync'.map)
      /\ ~sync'.initialized /\ sync'.socket = "lookup" /\ LookUp
  <2>1. sync \in DetailsType /\ IsFiniteSet(sync.map)
    BY DEF BaseInv, SysType
  <2>2. CASE AddDomain
    <3>1. sync' = [NoDetails EXCEPT !.socket = "lookup"] /\ LookUp
      BY <1>1, <1>2, <2>2 DEF AddDomain
    <3>2. IsFiniteSet({})
      BY FS_EmptySet
    <3>. QED
      BY <3>1, <3>2 DEF NoDetails, DetailsType
  <2>3. CASE UpdateDomain
    <3>1. sync' = [sync EXCEPT !.socket = "lookup", !.initialized = FALSE] /\ LookUp
      BY <2>3 DEF UpdateDomain
    <3>. QED
      BY <2>1, <3>1 DEF DetailsType
  <2>. QED
    BY <2>2, <2>3
<1>4. lookup' = [state |-> "sent", time |-> 0] /\ ~attached' /\ wire' = <<>>
      /\ attached' = FALSE
  BY <1>3 DEF LookUp
<1>5. LeaderInv' /\ CacheOK' /\ cache' = cache /\ incarnation' = incarnation
  BY <1>1, LeaderKept DEF leaderVars
<1>6. /\ registrationUpdates' \in Seq(RequestType)
      /\ pendingResponse' \in Seq(RequestType) /\ Len(pendingResponse') <= 1
      /\ Queue' = Queue
  BY <1>1, QuietTurnIs DEF BaseInv
<1>7. lookup' \in LookupType /\ attached' \in BOOLEAN /\ wire' \in Seq(MessageType)
  <2>1. lookup' \in LookupType
    BY <1>4 DEF LookupType
  <2>2. <<>> \in Seq(MessageType) /\ FALSE \in BOOLEAN
    OBVIOUS
  <2>3. wire' = <<>> /\ attached' = FALSE
    BY <1>4
  <2>. QED
    BY <2>1, <2>2, <2>3, Zenon
<1>8. SysType'
  BY <1>1, <1>2, <1>3, <1>5, <1>6, <1>7 DEF BaseInv, SysType
<1>9. SocketOK'
  BY <1>3, <1>4 DEF SocketOK
<1>. QED
  BY <1>1, <1>2, <1>3, <1>4, <1>5, <1>6, <1>8, <1>9 DEF BaseInv

\* A Remove gives the socket up and puts its requests into the queue.
LEMMA RemoveIs ==
    ASSUME BaseInv, RemoveDomain
    PROVE  /\ BaseInv' /\ Queue' = Queue \o RemoveRequests
           /\ UNCHANGED <<leaderVars, heard, removes, local>>
           /\ commands # <<>> /\ commands' = Tail(commands) /\ Head(commands) = "Remove"
           /\ ~attached' /\ wire' = <<>> /\ ~sync'.initialized /\ sync'.socket = "none"
<1>1. /\ commands # <<>> /\ commands' = Tail(commands) /\ Head(commands) = "Remove"
      /\ UNCHANGED <<leaderVars, heard, removes, local>>
      /\ EndTurn(registrationUpdates \o RemoveRequests, pendingResponse)
      /\ sync' = NoDetails /\ lookup' = [state |-> "none", time |-> 0]
      /\ attached' = FALSE /\ wire' = <<>>
  BY DEF RemoveDomain, RemoveRequests
<1>2. /\ sync' \in DetailsType /\ IsFiniteSet(sync'.map)
      /\ ~sync'.initialized /\ sync'.socket = "none"
  BY <1>1, FS_EmptySet DEF NoDetails, DetailsType
<1>3. /\ commands' \in Seq({"Add", "Update", "Remove"}) /\ CommandsOK'
  BY <1>1, <1>2, FirstOfCommands
<1>4. LeaderInv' /\ CacheOK' /\ cache' = cache /\ incarnation' = incarnation
  BY <1>1, LeaderKept DEF leaderVars
<1>5. /\ registrationUpdates' \in Seq(RequestType)
      /\ pendingResponse' \in Seq(RequestType) /\ Len(pendingResponse') <= 1
      /\ Queue' = Queue \o RemoveRequests
  BY <1>1, RemoveRequestsIs, TurnIs DEF BaseInv
<1>6. lookup' \in LookupType /\ attached' \in BOOLEAN /\ wire' \in Seq(MessageType)
      /\ lookup'.state = "none"
  <2>1. lookup' \in LookupType /\ lookup'.state = "none"
    BY <1>1 DEF LookupType
  <2>2. <<>> \in Seq(MessageType) /\ FALSE \in BOOLEAN
    OBVIOUS
  <2>3. wire' = <<>> /\ attached' = FALSE
    BY <1>1
  <2>. QED
    BY <2>1, <2>2, <2>3, Zenon
<1>7. SysType'
  BY <1>1, <1>2, <1>3, <1>4, <1>5, <1>6 DEF BaseInv, SysType
<1>8. SocketOK'
  BY <1>1, <1>2, <1>6 DEF SocketOK
<1>. QED
  BY <1>1, <1>2, <1>3, <1>4, <1>5, <1>7, <1>8 DEF BaseInv

\* The lookup is answered, or asked again.
LEMMA LookupIs ==
    ASSUME BaseInv, Lookup \/ EmptyReply
    PROVE  /\ BaseInv' /\ Queue' = Queue
           /\ UNCHANGED <<leaderVars, commandVars, sync, attached, wire, local>>
<1>1. UNCHANGED <<leaderVars, commandVars, sync, attached, wire, local>>
  BY DEF Lookup, EmptyReply
<1>2. /\ registrationUpdates' \in Seq(RequestType)
      /\ pendingResponse' \in Seq(RequestType) /\ Len(pendingResponse') <= 1
      /\ Queue' = Queue
  <2>1. CASE Lookup
    BY <2>1 DEF Lookup, queueVars, BaseInv, SysType, Queue
  <2>2. CASE EmptyReply
    BY <2>2, QuietTurnIs DEF EmptyReply, BaseInv
  <2>. QED
    BY <2>1, <2>2
<1>3. LeaderInv' /\ CacheOK' /\ cache' = cache /\ DetailsSecs' = DetailsSecs
      /\ UNCHANGED <<phase, incarnation>>
  BY <1>1, LeaderKept DEF leaderVars
<1>4. /\ lookup' \in LookupType /\ lookup.state # "none"
      /\ lookup'.state = "found" => phase \in Bound /\ lookup'.time = DetailsSecs
  <2>1. CASE EmptyReply
    BY <2>1 DEF EmptyReply, LookupType
  <2>2. CASE Lookup /\ ~\E p \in leader.data : p.id = DetailsID
    BY <2>2 DEF Lookup, LookupType
  <2>3. CASE Lookup /\ \E p \in leader.data : p.id = DetailsID
    <3> DEFINE d == CHOOSE p \in leader.data : p.id = DetailsID
    <3>1. d \in leader.data /\ d.id = DetailsID
      BY <2>3
    <3>2. lookup' = [state |-> "found", time |-> d.registration_time] /\ lookup.state = "sent"
      BY <2>3 DEF Lookup
    <3> HIDE DEF d
    <3> DEFINE e == Registration("DATA", d.id, d.url, leader.instance[d.url])
    <3>3. e \in Listed /\ e.type = "DATA" /\ e.id = DetailsID /\ e.url = d.url
      BY <3>1 DEF Listed, Entries, Registration
    <3> HIDE DEF e
    <3>4. e = DetailsEntry /\ phase \in Bound
      <4>1. e \notin apps
        <5>1. ASSUME e \in apps PROVE FALSE
          <6>1. e \in Registrations /\ e.url \in Urls
            BY <5>1 DEF BaseInv, LeaderInv, AppsOK
          <6>2. e.id \in Products
            BY <3>3, <5>1 DEF BaseInv, LeaderInv, AppsOK
          <6>. QED
            BY <3>3, <6>2, DomainSyncAssumption
        <5>. QED
          BY <5>1
      <4>2. e # DirectoryEntry
        BY <3>3 DEF DirectoryEntry, Registration
      <4>. QED
        BY <3>3, <4>1, <4>2 DEF BaseInv, LeaderInv, PlacesOK
    <3>5. d.url = DetailsUrl
      BY <3>3, <3>4 DEF DetailsEntry, Registration
    <3>6. d.registration_time = Secs(leader.instance[DetailsUrl])
      BY <3>1, <3>5 DEF BaseInv, LeaderInv, LeaderMaps, Faithful, Timed
    <3>7. Secs(leader.instance[DetailsUrl]) \in Nat
      BY InstanceIn, SecsNat DEF BaseInv, LeaderInv
    <3>. QED
      BY <3>2, <3>4, <3>6, <3>7 DEF DetailsSecs, LookupType
  <2>. QED
    BY <2>1, <2>2, <2>3
<1>5. SysType'
  BY <1>1, <1>2, <1>3, <1>4 DEF BaseInv, SysType, commandVars
<1>6. CommandsOK'
  BY <1>1 DEF BaseInv, CommandsOK, commandVars
<1>7. CaughtUp' <=> CaughtUp
  BY <1>1, <1>3 DEF CaughtUp, commandVars
<1>8. SocketOK'
  BY <1>1, <1>3, <1>4, <1>7 DEF BaseInv, SocketOK
<1>. QED
  BY <1>1, <1>2, <1>3, <1>5, <1>6, <1>8 DEF BaseInv

\* The answer turns the socket into a subscription.
LEMMA ReplyIs ==
    ASSUME BaseInv, Reply
    PROVE  /\ BaseInv' /\ Queue' = Queue
           /\ UNCHANGED <<leaderVars, commandVars, attached, wire, local>>
           /\ ~attached /\ wire = <<>> /\ ~sync'.initialized /\ sync.socket = "lookup"
           /\ sync'.socket = "sub" /\ ~sync.initialized
<1>1. /\ UNCHANGED <<leaderVars, commandVars, attached, wire, local>>
      /\ lookup.state = "found" /\ lookup' = [state |-> "none", time |-> 0]
      /\ sync' = [sync EXCEPT !.socket = "sub", !.initialized = FALSE,
                              !.registrationTime = lookup.time]
      /\ EndTurn(registrationUpdates, pendingResponse)
  BY DEF Reply
<1>2. /\ sync.socket = "lookup" /\ ~attached /\ wire = <<>> /\ ~sync.initialized
  BY <1>1 DEF BaseInv, SocketOK
<1>3. /\ sync' \in DetailsType /\ IsFiniteSet(sync'.map) /\ ~sync'.initialized
      /\ sync'.socket = "sub" /\ sync'.registrationTime = lookup.time
  <2>1. sync \in DetailsType /\ IsFiniteSet(sync.map) /\ lookup.time \in Nat
    BY DEF BaseInv, SysType, LookupType
  <2>. QED
    BY <1>1, <2>1 DEF DetailsType
<1>4. /\ registrationUpdates' \in Seq(RequestType)
      /\ pendingResponse' \in Seq(RequestType) /\ Len(pendingResponse') <= 1
      /\ Queue' = Queue
  BY <1>1, QuietTurnIs DEF BaseInv
<1>5. LeaderInv' /\ CacheOK' /\ cache' = cache /\ DetailsSecs' = DetailsSecs
      /\ UNCHANGED <<phase, incarnation>>
  BY <1>1, LeaderKept DEF leaderVars
<1>6. lookup' \in LookupType /\ lookup'.state = "none"
  BY <1>1 DEF LookupType
<1>7. SysType'
  BY <1>1, <1>3, <1>4, <1>5, <1>6 DEF BaseInv, SysType, commandVars
<1>8. CommandsOK'
  <2>1. UNCHANGED <<heard, commands>>
    BY <1>1 DEF commandVars
  <2>. QED
    BY <1>2, <2>1 DEF BaseInv, CommandsOK
<1>9. CaughtUp' <=> CaughtUp
  BY <1>1, <1>5 DEF CaughtUp, commandVars
<1>10. SocketOK'
  BY <1>1, <1>2, <1>3, <1>5, <1>6, <1>9 DEF BaseInv, SocketOK
<1>. QED
  BY <1>1, <1>2, <1>3, <1>4, <1>5, <1>7, <1>8, <1>10 DEF BaseInv

\* The subscription reaches the leader, which sends the cached message.
LEMMA AttachIs ==
    ASSUME BaseInv, Attach
    PROVE  /\ BaseInv' /\ Queue' = Queue
           /\ UNCHANGED <<leaderVars, commandVars, sync, lookup, queueVars, local>>
           /\ ~attached /\ attached' /\ phase \in Bound /\ sync.socket = "sub"
           /\ wire' = wire \o <<cache[1]>> /\ cache[1] \in MessageType
           /\ cache[1].map = Listed
<1>1. /\ UNCHANGED <<leaderVars, commandVars, sync, lookup, queueVars, local>>
      /\ ~attached /\ attached' = TRUE /\ phase \in Bound /\ sync.socket = "sub"
      /\ wire' = wire \o cache
  BY DEF Attach, Bound
<1>2. cache = <<cache[1]>> /\ cache[1].map = Listed /\ cache[1] \in MessageType
  <2>1. cache # <<>> /\ cache = <<cache[1]>> /\ cache[1].map = Listed
    BY <1>1 DEF BaseInv, CacheOK
  <2>2. cache \in Seq(MessageType)
    BY DEF BaseInv, SysType
  <2>3. cache[1] \in MessageType
    BY <2>1, <2>2, HeadOnTail
  <2>. QED
    BY <2>1, <2>3
<1>3. LeaderInv' /\ CacheOK' /\ cache' = cache /\ DetailsSecs' = DetailsSecs
      /\ UNCHANGED <<phase, incarnation>>
  BY <1>1, LeaderKept DEF leaderVars
<1>4. wire' \in Seq(MessageType)
  BY <1>1 DEF BaseInv, SysType
<1>5. SysType'
  BY <1>1, <1>3, <1>4 DEF BaseInv, SysType, commandVars, queueVars
<1>6. CommandsOK' /\ Queue' = Queue
  BY <1>1 DEF BaseInv, CommandsOK, commandVars, queueVars, Queue
<1>7. CaughtUp' <=> CaughtUp
  BY <1>1, <1>3 DEF CaughtUp, commandVars
<1>8. SocketOK'
  BY <1>1, <1>3, <1>7 DEF BaseInv, SocketOK
<1>. QED
  BY <1>1, <1>2, <1>3, <1>5, <1>6, <1>8 DEF BaseInv

\* A message is taken off the socket.
LEMMA MessageIs ==
    ASSUME BaseInv, IgnoreMessage \/ TakeMessage
    PROVE  /\ BaseInv'
           /\ UNCHANGED <<leaderVars, commandVars, lookup, attached, local>>
           /\ wire # <<>> /\ wire' = Tail(wire) /\ wire[1] \in MessageType
           /\ IgnoreMessage => sync' = sync /\ Queue' = Queue
                 /\ wire[1].registration_time # sync.registrationTime
           /\ TakeMessage =>
                 /\ wire[1].registration_time = sync.registrationTime
                 /\ sync' = [sync EXCEPT !.initialized = TRUE, !.map = wire[1].map,
                                         !.type = wire[1].change.type]
                 /\ Queue' = Queue \o Requests(wire[1], sync.initialized)
           /\ sync'.registrationTime = sync.registrationTime /\ sync'.socket = sync.socket
           /\ TakeMessage => sync'.initialized
<1>1. /\ UNCHANGED <<leaderVars, commandVars, lookup, attached, local>>
      /\ wire # <<>> /\ wire' = Tail(wire)
      /\ IgnoreMessage => sync' = sync /\ Head(wire).registration_time # sync.registrationTime
            /\ EndTurn(registrationUpdates, pendingResponse)
      /\ TakeMessage =>
            /\ Head(wire).registration_time = sync.registrationTime
            /\ sync' = [sync EXCEPT !.initialized = TRUE, !.map = Head(wire).map,
                                    !.type = Head(wire).change.type]
            /\ EndTurn(registrationUpdates \o Requests(Head(wire), sync.initialized),
                       pendingResponse)
  BY DEF IgnoreMessage, TakeMessage
<1>2. Head(wire) = wire[1] /\ wire[1] \in MessageType /\ Tail(wire) \in Seq(MessageType)
  <2>1. wire \in Seq(MessageType)
    BY DEF BaseInv, SysType
  <2>. QED
    BY <1>1, <2>1, HeadOnTail
<1>3. sync \in DetailsType /\ IsFiniteSet(sync.map) /\ sync.initialized \in BOOLEAN
      /\ sync = [socket |-> sync.socket, initialized |-> sync.initialized,
                 registrationTime |-> sync.registrationTime, map |-> sync.map,
                 type |-> sync.type]
  BY DEF BaseInv, SysType, DetailsType
<1>4. /\ sync' \in DetailsType /\ IsFiniteSet(sync'.map)
      /\ sync'.registrationTime = sync.registrationTime /\ sync'.socket = sync.socket
      /\ TakeMessage => sync'.initialized
      /\ ~sync.initialized /\ IgnoreMessage => ~sync'.initialized
  <2>1. wire[1].map \subseteq Registrations /\ IsFiniteSet(wire[1].map)
        /\ wire[1].change.type \in {"DATA", "SERVICE"}
    BY <1>2, RegistrationIs DEF MessageType
  <2>2. CASE IgnoreMessage
    <3>1. ~TakeMessage
      BY <1>1, <2>2
    <3>. QED
      BY <1>1, <1>3, <2>2, <3>1
  <2>3. CASE TakeMessage
    <3>1. sync' = [socket |-> sync.socket, initialized |-> TRUE,
                   registrationTime |-> sync.registrationTime, map |-> wire[1].map,
                   type |-> wire[1].change.type]
      BY <1>1, <1>2, <1>3, <2>3
    <3>2. ~IgnoreMessage
      BY <1>1, <2>3
    <3>3. sync' \in DetailsType
      BY <1>3, <2>1, <3>1 DEF DetailsType
    <3>. QED
      BY <2>1, <3>1, <3>2, <3>3
  <2>. QED
    BY <2>2, <2>3
<1>5. /\ registrationUpdates' \in Seq(RequestType)
      /\ pendingResponse' \in Seq(RequestType) /\ Len(pendingResponse') <= 1
      /\ IgnoreMessage => Queue' = Queue
      /\ TakeMessage => Queue' = Queue \o Requests(wire[1], sync.initialized)
  <2>1. CASE IgnoreMessage
    <3>1. ~TakeMessage
      BY <1>1, <2>1
    <3>. QED
      BY <1>1, <2>1, <3>1, QuietTurnIs DEF BaseInv
  <2>2. CASE TakeMessage
    <3>1. ~IgnoreMessage
      BY <1>1, <2>2
    <3>2. Requests(wire[1], sync.initialized) \in Seq(RequestType)
      BY <1>2, <1>3, RequestsIs
    <3>. QED
      BY <1>1, <1>2, <2>2, <3>1, <3>2, TurnIs DEF BaseInv
  <2>. QED
    BY <2>1, <2>2
<1>6. LeaderInv' /\ CacheOK' /\ cache' = cache /\ DetailsSecs' = DetailsSecs
      /\ UNCHANGED <<phase, incarnation>>
  BY <1>1, LeaderKept DEF leaderVars
<1>7. SysType'
  BY <1>1, <1>2, <1>4, <1>5, <1>6 DEF BaseInv, SysType, commandVars
<1>8. CommandsOK'
  BY <1>1, <1>4 DEF BaseInv, CommandsOK, commandVars
<1>9. CaughtUp' <=> CaughtUp
  BY <1>1, <1>6 DEF CaughtUp, commandVars
<1>10. SocketOK'
  BY <1>1, <1>4, <1>6, <1>9 DEF BaseInv, SocketOK
<1>. QED
  BY <1>1, <1>2, <1>4, <1>5, <1>6, <1>7, <1>8, <1>10 DEF BaseInv

\* The response changes nothing but the queue and the maps.
LEMMA ResponseBase ==
    ASSUME BaseInv, Response
    PROVE  BaseInv' /\ UNCHANGED <<leaderVars, commandVars, sync, socketVars>>
<1>1. UNCHANGED <<leaderVars, commandVars, sync, socketVars>>
  BY DEF Response
<1>2. LeaderInv' /\ CacheOK' /\ cache' = cache /\ DetailsSecs' = DetailsSecs
      /\ UNCHANGED <<phase, incarnation>>
  BY <1>1, LeaderKept DEF leaderVars
<1>3. SysType'
  BY <1>1, <1>2, ResponseIs DEF BaseInv, SysType, commandVars, socketVars
<1>4. CommandsOK' /\ SocketOK'
  BY <1>1, <1>2 DEF BaseInv, CommandsOK, SocketOK, CaughtUp, commandVars, socketVars
<1>. QED
  BY <1>1, <1>2, <1>3, <1>4 DEF BaseInv

\* The steps of the follower.
FollowerStep ==
    Hear \/ Miss \/ Synchronizer \/ Lookup \/ Attach

\* Every step is one of the leader's or of the follower's. Here the theorems
\* need Orderly: a component that ends without unregistering leaves its URL
\* to the next one.
LEMMA NextIs ==
    ASSUME Orderly, BaseInv, SyncNext
    PROVE  (LeaderInv' /\ LeaderStep) \/ FollowerStep
<1>1. LeaderInv /\ wire \in Seq(MessageType)
  BY DEF BaseInv, SysType
<1>2. CASE StartLeader
  BY <1>1, <1>2, StartIsStep DEF LeaderStep
<1>3. CASE Crash
  BY <1>1, <1>3, CrashIsStep DEF LeaderStep
<1>4. CASE Boot
  BY <1>1, <1>4, DetailsIsStep, RecordIsStep, DirectoryIsStep DEF LeaderStep, Boot
<1>5. CASE Applications
  BY <1>1, <1>5, AppRegisterIsStep, EndIsStep DEF LeaderStep, Applications
<1>6. CASE Reregister
  BY <1>1, <1>6, ReregisterIsStep DEF LeaderStep, Reregister
<1>. QED
  BY <1>2, <1>3, <1>4, <1>5, <1>6 DEF SyncNext, FollowerStep

\* Steps of the leader keep the invariant of the parts.
LEMMA LeaderStepBase ==
    ASSUME BaseInv, LeaderInv', LeaderStep
    PROVE  BaseInv'
  BY LeaderStepType, LeaderStepCache, LeaderStepSocket DEF BaseInv

\* Steps of the follower keep it, too.
LEMMA FollowerStepBase ==
    ASSUME BaseInv, FollowerStep
    PROVE  BaseInv' /\ UNCHANGED leaderVars
<1>1. CASE Hear \/ Miss
  BY <1>1, CommandBase DEF Hear, Miss
<1>2. CASE Synchronizer
  BY <1>2, LookUpIs, RemoveIs, LookupIs, ReplyIs, MessageIs, ResponseBase DEF Synchronizer
<1>3. CASE Lookup
  BY <1>3, LookupIs
<1>4. CASE Attach
  BY <1>4, AttachIs
<1>. QED
  BY <1>1, <1>2, <1>3, <1>4 DEF FollowerStep

\* So do steps that change nothing.
LEMMA StutterBase ==
    ASSUME BaseInv, UNCHANGED syncVars
    PROVE  BaseInv'
<1>1. UNCHANGED <<leaderVars, commandVars, sync, socketVars, queueVars, local>>
  BY DEF syncVars
<1>2. LeaderInv' /\ CacheOK' /\ cache' = cache /\ DetailsSecs' = DetailsSecs
      /\ UNCHANGED <<phase, incarnation>>
  BY <1>1, LeaderKept DEF leaderVars
<1>3. SysType'
  BY <1>1, <1>2 DEF BaseInv, SysType, commandVars, socketVars, queueVars
<1>4. CommandsOK' /\ SocketOK'
  BY <1>1, <1>2 DEF BaseInv, CommandsOK, SocketOK, CaughtUp, commandVars, socketVars
<1>. QED
  BY <1>2, <1>3, <1>4 DEF BaseInv

\* The first state has it.
LEMMA InitBase ==
    ASSUME SyncInit
    PROVE  BaseInv
<1>1. /\ EmptyMaps \in MapsType /\ EmptyMaps.data = {}
      /\ \A s \in AllServices : EmptyMaps.service[s] = NoUrl
      /\ \A u \in AllUrls : EmptyMaps.instance[u] = 0
  BY DEF EmptyMaps, MapsType
<1>2. Entries(EmptyMaps) = {}
  BY <1>1 DEF Entries
<1>3. /\ leader = EmptyMaps /\ local = EmptyMaps /\ phase = "down" /\ now = 0 /\ apps = {}
      /\ incarnation = 0 /\ cache = <<>> /\ heard = 0 /\ removes = 0 /\ commands = <<>>
      /\ sync = NoDetails /\ lookup = [state |-> "none", time |-> 0]
      /\ attached = FALSE /\ wire = <<>> /\ registrationUpdates = <<>> /\ pendingResponse = <<>>
  BY DEF SyncInit
<1>4. LeaderMaps /\ Listed = {}
  BY <1>1, <1>2, <1>3 DEF LeaderMaps, Faithful, Timed, Clean, Listed
<1>5. IsFiniteSet(Listed)
  BY <1>4, FS_EmptySet
<1>6. AppsOK /\ PlacesOK /\ ClockOK
  BY <1>3, <1>4, DomainSyncAssumption DEF AppsOK, PlacesOK, ClockOK, Bound, Phases, Clean
<1>7. sync \in DetailsType /\ IsFiniteSet(sync.map) /\ ~sync.initialized /\ sync.socket = "none"
  BY <1>3, FS_EmptySet DEF NoDetails, DetailsType
<1>8. lookup \in LookupType /\ lookup.state = "none"
  BY <1>3 DEF LookupType
<1>9. SysType
  <2>1. /\ cache \in Seq(MessageType) /\ wire \in Seq(MessageType)
        /\ registrationUpdates \in Seq(RequestType) /\ pendingResponse \in Seq(RequestType)
        /\ Len(pendingResponse) <= 1 /\ commands \in Seq({"Add", "Update", "Remove"})
    BY <1>3
  <2>2. heard \in Nat /\ heard <= incarnation /\ removes \in 0..MaxRemoves
    BY <1>3, DomainSyncAssumption
  <2>. QED
    BY <1>1, <1>3, <1>7, <1>8, <2>1, <2>2 DEF SysType
<1>10. CacheOK
  BY <1>3 DEF CacheOK, Bound
<1>11. CommandsOK
  BY <1>3, <1>7 DEF CommandsOK
<1>12. SocketOK
  BY <1>3, <1>7, <1>8 DEF SocketOK, CaughtUp
<1>. QED
  BY <1>4, <1>5, <1>6, <1>9, <1>10, <1>11, <1>12 DEF BaseInv, LeaderInv

(***************************************************************************)
(* Timestamps                                                              *)
(***************************************************************************)

\* The timestamps that have come, or may come, to the follower for a URL.
Shows(m, u, t) == \E e \in m.map \cup {m.change} : e.url = u /\ e.timestamp = t
Asked(u, t) ==
    \E k \in 1..Len(Queue) : /\ Queue[k].kind = "register" /\ Queue[k].entry.url = u
                             /\ Queue[k].entry.timestamp = t
Carried(u, t) ==
    \/ \E k \in 1..Len(wire) : Shows(wire[k], u, t)
    \/ \E k \in 1..Len(cache) : Shows(cache[k], u, t)
Told(u, t) == Asked(u, t) \/ Carried(u, t)
Seen(u, t) == t = local.instance[u] \/ Told(u, t)

\* None is later than that of the registration at the URL.
Latest ==
    \A u \in AllUrls, t \in Nat : Seen(u, t) =>
        t <= now /\ \A a \in apps \cup Listed : a.url = u => t <= a.timestamp

\* There is only one registration at a URL.
LEMMA SameUrl ==
    ASSUME LeaderInv, NEW a \in apps \cup Listed, NEW f \in Listed, a.url = f.url
    PROVE  a = f
<1>1. Clean(Listed) /\ Clean(apps)
  BY ListedIn DEF LeaderInv, AppsOK
<1>2. CASE a \in Listed
  BY <1>1, <1>2 DEF Clean, Touch
<1>3. CASE a \in apps
  <2>1. a.url \in Urls /\ DetailsUrl \notin Urls /\ DirectoryUrl \notin Urls
    BY <1>3, DomainSyncAssumption DEF LeaderInv, AppsOK
  <2>2. f # DetailsEntry /\ f # DirectoryEntry
    BY <2>1 DEF DetailsEntry, DirectoryEntry, Registration
  <2>3. f \in apps
    BY <2>2 DEF LeaderInv, PlacesOK
  <2>. QED
    BY <1>1, <1>3, <2>3 DEF Clean, Touch
<1>. QED
  BY <1>2, <1>3

UniqueUrls == \A a \in apps \cup Listed, f \in Listed : a.url = f.url => a = f

\* The same as one formula, to be used for the next state, too.
LEMMA UrlsUnique == LeaderInv => UniqueUrls
  BY SameUrl DEF UniqueUrls

\* The types of what components and leader have.
LEMMA RegistrationsIn ==
    ASSUME LeaderInv
    PROVE  \A a \in apps \cup Listed : a \in Registrations /\ a.timestamp \in Nat
                                       /\ a.url \in AllUrls
<1>1. apps \cup Listed \subseteq Registrations
  BY ListedIn DEF LeaderInv, AppsOK
<1>. QED
  BY <1>1, RegistrationIs

\* Steps that add nothing to what is seen.
LEMMA LatestKept ==
    ASSUME Latest, BaseInv, LeaderInv', now' >= now,
           apps' \cup Listed' \subseteq apps \cup Listed,
           \A u \in AllUrls, t \in Nat : Seen(u, t)' => Seen(u, t) \/ t = 0
    PROVE  Latest'
<1>1. ASSUME NEW u \in AllUrls, NEW t \in Nat, Seen(u, t)'
      PROVE  t <= now' /\ \A a \in apps' \cup Listed' : a.url = u => t <= a.timestamp
  <2>1. now \in Nat /\ now' \in Nat
    BY DEF BaseInv, LeaderInv, ClockOK
  <2>2. \A a \in apps' \cup Listed' : a \in apps \cup Listed /\ a.timestamp \in Nat
    BY RegistrationsIn DEF BaseInv
  <2>3. CASE t = 0
    BY <2>1, <2>2, <2>3
  <2>4. CASE Seen(u, t)
    <3>1. t <= now /\ \A a \in apps \cup Listed : a.url = u => t <= a.timestamp
      BY <2>4 DEF Latest
    <3>. QED
      BY <2>1, <2>2, <3>1
  <2>. QED
    BY <1>1, <2>3, <2>4
<1>. QED
  BY <1>1 DEF Latest

\* An announcement tells what its message shows.
LEMMA AnnouncedTold ==
    ASSUME BaseInv, BaseInv', NEW m \in MessageType, Announces(m), FollowerKept,
           NEW u, NEW t, Told(u, t)'
    PROVE  Told(u, t) \/ Shows(m, u, t)
<1>1. local' = local /\ Queue' = Queue
  BY DEF FollowerKept, queueVars, Queue
<1>2. cache' = <<m>> /\ wire' = IF attached THEN Append(wire, m) ELSE wire
  BY DEF Announces
<1>3. wire \in Seq(MessageType)
  BY DEF BaseInv, SysType
<1>4. CASE Asked(u, t)'
  BY <1>1, <1>4 DEF Told, Asked
<1>5. ASSUME NEW k \in 1..Len(wire'), Shows(wire'[k], u, t)
      PROVE  Told(u, t) \/ Shows(m, u, t)
  <2>1. CASE k \in 1..Len(wire)
    <3>1. wire'[k] = wire[k]
      BY <1>2, <1>3, <2>1
    <3>. QED
      BY <1>5, <2>1, <3>1 DEF Told, Carried
  <2>2. CASE k \notin 1..Len(wire)
    <3>1. wire'[k] = m
      BY <1>2, <1>3, <2>2
    <3>. QED
      BY <1>5, <3>1
  <2>. QED
    BY <2>1, <2>2
<1>6. ASSUME NEW k \in 1..Len(cache'), Shows(cache'[k], u, t)
      PROVE  Shows(m, u, t)
  <2>1. k = 1 /\ cache'[k] = m
    BY <1>2
  <2>. QED
    BY <1>6, <2>1
<1>8. CASE Carried(u, t)'
  BY <1>5, <1>6, <1>8 DEF Carried, Shows
<1>. QED
  BY <1>4, <1>8 DEF Told

\* A registration gets a timestamp that is not older than any before it.
LEMMA LeaderStepLatest ==
    ASSUME Latest, BaseInv, LeaderInv', LeaderStep
    PROVE  Latest'
<1>0. BaseInv' /\ now \in Nat /\ now' \in Nat
  BY LeaderStepBase DEF BaseInv, LeaderInv, ClockOK
<1>1. CASE LeaderStarts \/ LeaderRests
  <2>1. /\ apps' \cup Listed' \subseteq apps \cup Listed /\ now' >= now
        /\ UNCHANGED <<wire, cache, local>> /\ Queue' = Queue
    BY <1>0, <1>1 DEF LeaderStarts, LeaderRests, FollowerKept, queueVars, Queue, Listed
  <2>2. \A u, t : Seen(u, t)' => Seen(u, t)
    BY <2>1 DEF Seen, Told, Asked, Carried, Shows
  <2>. QED
    BY <2>1, <2>2, LatestKept
<1>2. CASE LeaderCrashes
  <2>1. /\ apps' \cup Listed' \subseteq apps \cup Listed /\ now' >= now
        /\ UNCHANGED <<wire, local>> /\ Queue' = Queue /\ cache' = <<>>
    BY <1>0, <1>2 DEF LeaderCrashes, queueVars, Queue
  <2>2. Len(cache') = 0
    BY <2>1
  <2>3. \A u, t : Seen(u, t)' => Seen(u, t)
    BY <2>1, <2>2 DEF Seen, Told, Asked, Carried, Shows
  <2>. QED
    BY <2>1, <2>3, LatestKept
<1>3. ASSUME NEW e \in Registrations, LeaderAdds(e), NEW u \in AllUrls, NEW t \in Nat,
             Seen(u, t)'
      PROVE  t <= now' /\ \A a \in apps' \cup Listed' : a.url = u => t <= a.timestamp
  <2>1. PICK m \in MessageType : Announces(m) /\ m.map = Listed' /\ m.change = e
    BY <1>3, NoteIn DEF LeaderAdds, Adds, BaseInv
  <2>2. FollowerKept /\ now' >= now /\ Listed' = Listed \cup {e}
        /\ apps' \subseteq apps \cup {e} /\ (e \in apps \/ e.timestamp >= now)
        /\ e.timestamp \in Nat
    BY <1>3, RegistrationIs DEF LeaderAdds, Adds
  <2>3. Seen(u, t) \/ Shows(m, u, t)
    <3>1. Told(u, t)' => Told(u, t) \/ Shows(m, u, t)
      BY <1>0, <2>1, <2>2, AnnouncedTold
    <3>. QED
      BY <1>3, <2>2, <3>1 DEF Seen, FollowerKept
  <2>4. CASE Shows(m, u, t)
    <3>1. PICK f \in Listed' : f.url = u /\ f.timestamp = t
      BY <2>1, <2>2, <2>4 DEF Shows
    <3>2. t <= now'
      BY <3>1 DEF LeaderInv, ClockOK
    <3>3. \A a \in apps' \cup Listed' : a.url = u => a = f
      <4>1. \A a \in apps' \cup Listed' : a.url = f.url => a = f
        <5>1. LeaderInv' => UniqueUrls'
          BY UrlsUnique, PTL
        <5>. QED
          BY <5>1 DEF UniqueUrls
      <4>. QED
        BY <3>1, <4>1
    <3>. QED
      BY <3>1, <3>2, <3>3
  <2>5. CASE Seen(u, t)
    <3>1. t <= now /\ \A a \in apps \cup Listed : a.url = u => t <= a.timestamp
      BY <2>5 DEF Latest
    <3>2. e.url = u => t <= e.timestamp
      BY <1>0, <2>2, <3>1
    <3>. QED
      BY <1>0, <2>2, <3>1, <3>2
  <2>. QED
    BY <2>3, <2>4, <2>5
<1>4. ASSUME NEW e \in Registrations, LeaderDrops(e), NEW u \in AllUrls, NEW t \in Nat,
             Seen(u, t)'
      PROVE  t <= now' /\ \A a \in apps' \cup Listed' : a.url = u => t <= a.timestamp
  <2>1. PICK m \in MessageType : Announces(m) /\ m.map = Listed' /\ m.change = e
    BY <1>4, NoteIn DEF LeaderDrops, Drops, BaseInv
  <2>2. FollowerKept /\ now' = now /\ Listed' \subseteq Listed /\ e \in Listed
        /\ apps' \subseteq apps
    BY <1>4 DEF LeaderDrops, Drops
  <2>3. Seen(u, t) \/ Shows(m, u, t)
    <3>1. Told(u, t)' => Told(u, t) \/ Shows(m, u, t)
      BY <1>0, <2>1, <2>2, AnnouncedTold
    <3>. QED
      BY <1>4, <2>2, <3>1 DEF Seen, FollowerKept
  <2>4. CASE Shows(m, u, t)
    <3>1. PICK f \in Listed : f.url = u /\ f.timestamp = t
      BY <2>1, <2>2, <2>4 DEF Shows
    <3>2. t <= now'
      BY <2>2, <3>1 DEF BaseInv, LeaderInv, ClockOK
    <3>3. \A a \in apps \cup Listed : a.url = u => a = f
      BY <3>1, SameUrl DEF BaseInv
    <3>4. f.timestamp \in Nat
      BY <3>1, RegistrationsIn DEF BaseInv
    <3>. QED
      BY <2>2, <3>1, <3>2, <3>3, <3>4
  <2>5. CASE Seen(u, t)
    <3>1. t <= now /\ \A a \in apps \cup Listed : a.url = u => t <= a.timestamp
      BY <2>5 DEF Latest
    <3>. QED
      BY <2>2, <3>1
  <2>. QED
    BY <2>3, <2>4, <2>5
<1>5. ASSUME NEW e \in Registrations, LeaderAdds(e) \/ LeaderDrops(e) PROVE Latest'
  BY <1>3, <1>4, <1>5 DEF Latest
<1>. QED
  BY <1>1, <1>2, <1>5 DEF LeaderStep

\* The requests register only what the message shows.
LEMMA RequestsEntries ==
    ASSUME NEW m \in MessageType, NEW initialized \in BOOLEAN,
           NEW i \in 1..Len(Requests(m, initialized)),
           Requests(m, initialized)[i].kind = "register"
    PROVE  Requests(m, initialized)[i].entry \in m.map \cup {m.change}
<1>1. m.map \in SUBSET Registrations /\ IsFiniteSet(m.map) /\ m.change_type \in {"ADD", "REMOVE"}
  BY DEF MessageType
<1>2. CASE ~initialized
  BY <1>1, <1>2, RequestsIs, MapRequests
<1>3. CASE initialized /\ m.change_type = "ADD"
  <2>1. Requests(m, initialized) = <<RegisterRequest(m.change)>>
    BY <1>3, RequestsIs
  <2>2. i = 1
    BY <2>1
  <2>. QED
    BY <2>1, <2>2 DEF RegisterRequest
<1>4. CASE initialized /\ m.change_type = "REMOVE"
  <2>1. Requests(m, initialized) =
          <<UnregistrationRequest(m.change.type, m.change, Secs(m.change.timestamp))>>
    BY <1>4, RequestsIs
  <2>2. i = 1
    BY <2>1
  <2>. QED
    BY <2>1, <2>2 DEF UnregistrationRequest
<1>. QED
  BY <1>1, <1>2, <1>3, <1>4

\* An instance is kept, cleared, or that of the request.
LEMMA HandledInstance ==
    ASSUME NEW maps \in MapsType, NEW q \in RequestType, NEW u \in AllUrls
    PROVE  \/ Handled(maps, q).instance[u] = maps.instance[u]
           \/ Handled(maps, q).instance[u] = 0
           \/ /\ q.kind = "register" /\ q.entry.url = u
              /\ Handled(maps, q).instance[u] = q.entry.timestamp
<1>1. maps.instance \in [AllUrls -> Nat]
  BY DEF MapsType
<1>2. CASE q.kind = "register"
  <2>1. q.entry \in Registrations
    BY <1>2, RequestIs
  <2>2. Registered(maps, q.entry).instance =
           [maps.instance EXCEPT ![q.entry.url] = q.entry.timestamp]
    BY <2>1, RegisteredIs
  <2>. QED
    BY <1>1, <1>2, <2>2 DEF Handled
<1>3. CASE q.kind = "unregister"
  <2>1. q.entry \in Named
    BY <1>3, RequestIs
  <2>2. Unlisted(maps, q.entry, q.secs) => Unregistered(maps, q.entry, q.secs).instance =
           [maps.instance EXCEPT ![q.entry.url] = 0]
    BY <2>1, UnregisteredIs
  <2>. QED
    BY <1>1, <1>3, <2>2 DEF Handled
<1>. QED
  BY <1>2, <1>3, RequestIs

\* The tail of a sequence has nothing new.
LEMMA TailElements ==
    ASSUME NEW T, NEW s \in Seq(T), s # <<>>, NEW i \in 1..Len(Tail(s))
    PROVE  i + 1 \in 1..Len(s) /\ Tail(s)[i] = s[i + 1]
  BY HeadOnTail

\* The queue is a sequence of requests.
LEMMA QueueIs ==
    ASSUME SysType
    PROVE  Queue \in Seq(RequestType)
  BY DEF SysType, Queue

\* A message that is handled tells nothing new.
LEMMA MessageTold ==
    ASSUME BaseInv, IgnoreMessage \/ TakeMessage, NEW u, NEW t, Told(u, t)'
    PROVE  Told(u, t)
<1>1. /\ local' = local /\ cache' = cache /\ wire # <<>> /\ wire' = Tail(wire)
      /\ wire[1] \in MessageType
  BY MessageIs DEF leaderVars
<1>2. wire \in Seq(MessageType) /\ sync.initialized \in BOOLEAN
  BY DEF BaseInv, SysType, DetailsType
<1>3. CASE Carried(u, t)'
  <2>1. ASSUME NEW k \in 1..Len(wire'), Shows(wire'[k], u, t) PROVE Carried(u, t)
    BY <1>1, <1>2, <2>1, TailElements DEF Carried
  <2>. QED
    BY <1>1, <1>3, <2>1 DEF Carried, Told, Shows
<1>5. CASE Asked(u, t)'
  <2>1. PICK k \in 1..Len(Queue') :
           Queue'[k].kind = "register" /\ Queue'[k].entry.url = u /\ Queue'[k].entry.timestamp = t
    BY <1>5 DEF Asked
  <2>2. CASE IgnoreMessage
    BY <2>1, <2>2, MessageIs DEF Told, Asked
  <2>3. CASE TakeMessage
    <3> DEFINE q == Requests(wire[1], sync.initialized)
    <3>1. Queue' = Queue \o q /\ q \in Seq(RequestType) /\ Queue \in Seq(RequestType)
      BY <1>1, <1>2, <2>3, MessageIs, RequestsIs, QueueIs DEF BaseInv
    <3>2. CASE k \in 1..Len(Queue)
      BY <2>1, <3>1, <3>2, ConcatIs DEF Told, Asked
    <3>3. CASE k - Len(Queue) \in 1..Len(q) /\ Queue'[k] = q[k - Len(Queue)]
      <4>1. Queue'[k].entry \in wire[1].map \cup {wire[1].change}
        BY <1>1, <1>2, <2>1, <3>3, RequestsEntries
      <4>2. Shows(wire[1], u, t)
        BY <2>1, <4>1 DEF Shows
      <4>3. 1 \in 1..Len(wire)
        BY <1>1, <1>2, HeadOnTail
      <4>. QED
        BY <4>2, <4>3 DEF Told, Carried
    <3>. QED
      BY <3>1, <3>2, <3>3, ConcatIs
  <2>. QED
    BY <2>2, <2>3
<1>. QED
  BY <1>3, <1>5 DEF Told

\* Nor does a response.
LEMMA ResponseTold ==
    ASSUME BaseInv, Response, NEW u, NEW t, Told(u, t)'
    PROVE  Told(u, t)
<1>1. /\ Queue # <<>> /\ Queue \in Seq(RequestType) /\ Queue' = Tail(Queue)
      /\ UNCHANGED <<wire, cache>>
  BY ResponseIs, ResponseBase DEF leaderVars, socketVars
<1>2. CASE Carried(u, t)'
  BY <1>1, <1>2 DEF Carried, Shows, Told
<1>3. CASE Asked(u, t)'
  <2>1. PICK k \in 1..Len(Queue') :
           Queue'[k].kind = "register" /\ Queue'[k].entry.url = u /\ Queue'[k].entry.timestamp = t
    BY <1>3 DEF Asked
  <2>2. k + 1 \in 1..Len(Queue) /\ Queue'[k] = Queue[k + 1]
    BY <1>1, TailElements
  <2>. QED
    BY <2>1, <2>2 DEF Told, Asked
<1>. QED
  BY <1>2, <1>3 DEF Told

\* The maps get the timestamp of a request or none.
LEMMA ResponseSeen ==
    ASSUME BaseInv, Response, NEW u \in AllUrls, NEW t, Seen(u, t)'
    PROVE  Seen(u, t) \/ t = 0
<1>1. /\ Queue # <<>> /\ Queue \in Seq(RequestType) /\ local' = Handled(local, Queue[1])
  BY ResponseIs
<1>2. CASE Told(u, t)'
  BY <1>2, ResponseTold DEF Seen
<1>3. CASE t = local'.instance[u]
  <2>1. Queue[1] \in RequestType /\ 1 \in 1..Len(Queue)
    BY <1>1, HeadOnTail
  <2>2. local \in MapsType
    BY DEF BaseInv, SysType
  <2>3. \/ local'.instance[u] = local.instance[u] \/ local'.instance[u] = 0
        \/ /\ Queue[1].kind = "register" /\ Queue[1].entry.url = u
           /\ local'.instance[u] = Queue[1].entry.timestamp
    BY <1>1, <2>1, <2>2, HandledInstance
  <2>. QED
    BY <1>3, <2>1, <2>3 DEF Seen, Told, Asked
<1>. QED
  BY <1>2, <1>3 DEF Seen

\* A Remove tells nothing new.
LEMMA RemoveTold ==
    ASSUME BaseInv, RemoveDomain, NEW u, NEW t, Told(u, t)'
    PROVE  Told(u, t)
<1>1. /\ Queue' = Queue \o RemoveRequests /\ UNCHANGED <<cache, local>> /\ wire' = <<>>
  BY RemoveIs DEF leaderVars
<1>2. /\ Queue \in Seq(RequestType) /\ RemoveRequests \in Seq(RequestType)
      /\ \A i \in 1..Len(RemoveRequests) : RemoveRequests[i].kind = "unregister"
  BY QueueIs, RemoveRequestsIs DEF BaseInv
<1>3. CASE Carried(u, t)'
  <2>1. Len(wire') = 0
    BY <1>1
  <2>. QED
    BY <1>1, <1>3, <2>1 DEF Carried, Shows, Told
<1>5. CASE Asked(u, t)'
  <2>1. PICK k \in 1..Len(Queue') :
           Queue'[k].kind = "register" /\ Queue'[k].entry.url = u /\ Queue'[k].entry.timestamp = t
    BY <1>5 DEF Asked
  <2>2. CASE k \in 1..Len(Queue)
    BY <1>1, <1>2, <2>1, <2>2, ConcatIs DEF Told, Asked
  <2>3. ~(k - Len(Queue) \in 1..Len(RemoveRequests)
            /\ Queue'[k] = RemoveRequests[k - Len(Queue)])
    BY <1>2, <2>1
  <2>. QED
    BY <1>1, <1>2, <2>2, <2>3, ConcatIs
<1>. QED
  BY <1>3, <1>5 DEF Told

\* The cached message tells nothing new when it is sent again.
LEMMA AttachTold ==
    ASSUME BaseInv, Attach, NEW u, NEW t, Told(u, t)'
    PROVE  Told(u, t)
<1>1. /\ wire' = wire \o <<cache[1]>> /\ UNCHANGED <<cache, local>> /\ Queue' = Queue
      /\ cache[1] \in MessageType /\ phase \in Bound
  BY AttachIs DEF leaderVars
<1>2. wire \in Seq(MessageType) /\ cache \in Seq(MessageType) /\ cache # <<>>
      /\ <<cache[1]>> \in Seq(MessageType) /\ Len(<<cache[1]>>) = 1
      /\ <<cache[1]>>[1] = cache[1]
  BY <1>1 DEF BaseInv, SysType, CacheOK
<1>3. 1 \in 1..Len(cache)
  BY <1>2, HeadOnTail
<1>4. ASSUME NEW k \in 1..Len(wire'), Shows(wire'[k], u, t) PROVE Carried(u, t)
  <2>1. CASE k \in 1..Len(wire)
    BY <1>1, <1>2, <1>4, <2>1, ConcatIs DEF Carried
  <2>2. CASE k - Len(wire) \in 1..1 /\ wire'[k] = <<cache[1]>>[k - Len(wire)]
    <3>1. k - Len(wire) = 1
      BY <2>2
    <3>2. wire'[k] = cache[1]
      BY <1>2, <2>2, <3>1
    <3>. QED
      BY <1>3, <1>4, <3>2 DEF Carried
  <2>. QED
    BY <1>1, <1>2, <2>1, <2>2, ConcatIs
<1>. QED
  BY <1>1, <1>4 DEF Told, Asked, Carried, Shows

\* The follower is told only what the leader has announced.
LEMMA FollowerStepTold ==
    ASSUME BaseInv, FollowerStep, NEW u, NEW t, Told(u, t)'
    PROVE  Told(u, t)
<1>1. cache' = cache
  BY FollowerStepBase DEF leaderVars
<1>2. CASE RemoveDomain
  BY <1>2, RemoveTold
<1>3. CASE Response
  BY <1>3, ResponseTold
<1>4. CASE IgnoreMessage \/ TakeMessage
  BY <1>4, MessageTold
<1>5. CASE Attach
  BY <1>5, AttachTold
<1>6. CASE AddDomain \/ UpdateDomain
  <2>1. Queue' = Queue /\ wire' = <<>>
    BY <1>6, LookUpIs
  <2>2. Len(wire') = 0
    BY <2>1
  <2>. QED
    BY <1>1, <2>1, <2>2 DEF Told, Asked, Carried, Shows
<1>7. CASE Hear \/ Miss \/ Lookup \/ EmptyReply \/ Reply
  <2>1. Queue' = Queue /\ wire' = wire
    <3>1. CASE Hear \/ Miss
      BY <3>1 DEF Hear, Miss, socketVars, queueVars, Queue
    <3>. QED
      BY <1>7, <3>1, LookupIs, ReplyIs
  <2>. QED
    BY <1>1, <2>1 DEF Told, Asked, Carried, Shows
<1>. QED
  BY <1>2, <1>3, <1>4, <1>5, <1>6, <1>7 DEF FollowerStep, Synchronizer

\* Steps of the follower keep Latest.
LEMMA FollowerStepLatest ==
    ASSUME Latest, BaseInv, FollowerStep
    PROVE  Latest'
<1>1. BaseInv' /\ UNCHANGED leaderVars
  BY FollowerStepBase
<1>2. LeaderInv' /\ now' >= now /\ apps' \cup Listed' \subseteq apps \cup Listed
  <2>1. now \in Nat
    BY DEF BaseInv, LeaderInv, ClockOK
  <2>. QED
    BY <1>1, <2>1 DEF BaseInv, leaderVars, Listed
<1>3. ASSUME NEW u \in AllUrls, NEW t \in Nat, Seen(u, t)'
      PROVE  Seen(u, t) \/ t = 0
  <2>1. CASE Response
    BY <1>3, <2>1, ResponseSeen
  <2>2. CASE ~Response
    <3>1. local' = local
      BY <2>2, LookUpIs, RemoveIs, LookupIs, ReplyIs, MessageIs, AttachIs
         DEF FollowerStep, Synchronizer, Hear, Miss
    <3>. QED
      BY <1>3, <3>1, FollowerStepTold DEF Seen
  <2>. QED
    BY <2>1, <2>2
<1>. QED
  BY <1>2, <1>3, LatestKept

\* Steps that change nothing keep it.
LEMMA StutterLatest ==
    ASSUME Latest, UNCHANGED syncVars
    PROVE  Latest'
<1>1. UNCHANGED <<now, apps, leader, cache, wire, local>> /\ Queue' = Queue
  BY DEF syncVars, leaderVars, socketVars, queueVars, Queue
<1>. QED
  BY <1>1 DEF Latest, Seen, Told, Asked, Carried, Shows, Listed

\* The first state has it.
LEMMA InitLatest ==
    ASSUME SyncInit
    PROVE  Latest
<1>1. /\ now = 0 /\ apps = {} /\ leader = EmptyMaps /\ cache = <<>> /\ wire = <<>>
      /\ local = EmptyMaps /\ Queue = <<>>
  BY DEF SyncInit, Queue
<1>2. /\ EmptyMaps.data = {} /\ \A s \in AllServices : EmptyMaps.service[s] = NoUrl
      /\ \A u \in AllUrls : EmptyMaps.instance[u] = 0
  BY DEF EmptyMaps
<1>3. Listed = {}
  BY <1>1, <1>2 DEF Listed, Entries
<1>4. \A u \in AllUrls, t \in Nat : Seen(u, t) => t = 0
  <2>1. Len(cache) = 0 /\ Len(wire) = 0 /\ Len(Queue) = 0
    BY <1>1
  <2>. QED
    BY <1>1, <1>2, <2>1 DEF Seen, Told, Asked, Carried
<1>. QED
  BY <1>1, <1>3, <1>4 DEF Latest

(***************************************************************************)
(* What the follower will list                                             *)
(***************************************************************************)

\* The maps list the registration.
InMaps(maps, a) ==
    IF a.type = "DATA"
    THEN Publisher(a.id, a.url, Secs(a.timestamp)) \in maps.data
    ELSE maps.service[a.id] = a.url /\ Secs(maps.instance[a.url]) = Secs(a.timestamp)

\* The maps list it after the requests of the queue.
QueueHas(a) ==
    \/ InMaps(local, a) /\ \A j \in 1..Len(Queue) : ~Touch(Queue[j].entry, a)
    \/ \E i \in 1..Len(Queue) :
          /\ Queue[i] = RegisterRequest(a)
          /\ \A j \in 1..Len(Queue) : j > i => ~Touch(Queue[j].entry, a)

\* The messages that are taken, and the first of them, whose map is taken.
Right(m) == m.registration_time = sync.registrationTime
HasRight == \E k \in 1..Len(wire) : Right(wire[k])
First(k) == ~sync.initialized /\ \A j \in 1..Len(wire) : j < k => ~Right(wire[j])

\* The message registers it.
Brings(k, a) == IF First(k) THEN a \in wire[k].map
                ELSE wire[k].change_type = "ADD" /\ wire[k].change = a
\* No later message that is taken touches it.
Untouched(a, k) ==
    \A j \in 1..Len(wire) : j > k /\ Right(wire[j]) => ~Touch(wire[j].change, a)

\* The maps list it after the messages on the socket.
Will(a) ==
    \/ sync.initialized /\ QueueHas(a) /\ Untouched(a, 0)
    \/ \E k \in 1..Len(wire) : Right(wire[k]) /\ Brings(k, a) /\ Untouched(a, k)

\* The invariant of completeness: a follower that is attached and has a
\* message of this registration, or has had one, will list whatever the
\* leader lists.
Follows ==
    /\ CaughtUp /\ attached /\ (sync.initialized \/ HasRight) =>
          \A a \in Listed : Will(a)
    /\ CaughtUp /\ attached /\ phase = "ready" => sync.initialized \/ HasRight
    /\ CaughtUp /\ phase = "details" => ~sync.initialized /\ ~HasRight

\* A request about something else leaves the registration listed.
LEMMA HandledKeeps ==
    ASSUME NEW maps \in MapsType, NEW q \in RequestType, NEW a \in Registrations,
           ~Touch(q.entry, a), InMaps(maps, a)
    PROVE  InMaps(Handled(maps, q), a)
<1>1. /\ maps.data \in SUBSET PublisherType
      /\ maps.service \in [AllServices -> AllUrls \cup {NoUrl}]
      /\ maps.instance \in [AllUrls -> Nat]
  BY DEF MapsType
<1>2. /\ a.url \in AllUrls /\ a.type \in {"DATA", "SERVICE"}
      /\ a.type = "SERVICE" => a.id \in AllServices
  BY RegistrationIs
<1>3. /\ q.entry.url # a.url
      /\ q.entry.type = "SERVICE" /\ a.type = "SERVICE" => q.entry.id # a.id
  BY DEF Touch
<1>4. CASE q.kind = "register"
  <2>1. q.entry \in Registrations /\ q.entry.type \in {"DATA", "SERVICE"}
    BY <1>4, RequestIs, RegistrationIs
  <2> DEFINE new == Registered(maps, q.entry)
  <2>2. /\ new.instance = [maps.instance EXCEPT ![q.entry.url] = q.entry.timestamp]
        /\ new.data =
              IF q.entry.type = "DATA"
              THEN {p \in maps.data : p.id # q.entry.id \/ p.url # q.entry.url}
                     \cup {Publisher(q.entry.id, q.entry.url, Secs(q.entry.timestamp))}
              ELSE maps.data
        /\ new.service =
              IF q.entry.type = "DATA" THEN maps.service
              ELSE [maps.service EXCEPT ![q.entry.id] = q.entry.url]
    BY <2>1, RegisteredIs
  <2>3. Handled(maps, q) = new \/ Handled(maps, q) = maps
    BY <1>4 DEF Handled
  <2> HIDE DEF new
  <2>4. CASE a.type = "DATA"
    <3>1. Publisher(a.id, a.url, Secs(a.timestamp)) \in maps.data
      BY <2>4 DEF InMaps
    <3>2. Publisher(a.id, a.url, Secs(a.timestamp)).url # q.entry.url
      BY <1>3 DEF Publisher
    <3>3. Publisher(a.id, a.url, Secs(a.timestamp)) \in new.data
      BY <2>2, <3>1, <3>2
    <3>. QED
      BY <2>3, <2>4, <3>1, <3>3 DEF InMaps
  <2>5. CASE a.type = "SERVICE"
    <3>1. maps.service[a.id] = a.url /\ Secs(maps.instance[a.url]) = Secs(a.timestamp)
      BY <2>5 DEF InMaps
    <3>2. new.instance[a.url] = maps.instance[a.url]
      BY <1>1, <1>2, <1>3, <2>2
    <3>3. new.service[a.id] = maps.service[a.id]
      BY <1>1, <1>2, <1>3, <2>1, <2>2, <2>5
    <3>. QED
      BY <2>3, <2>5, <3>1, <3>2, <3>3 DEF InMaps
  <2>. QED
    BY <1>2, <2>4, <2>5
<1>5. CASE q.kind = "unregister" /\ Unlisted(maps, q.entry, q.secs)
  <2>1. q.entry \in Named /\ q.entry.type \in {"DATA", "SERVICE"}
    BY <1>5, RequestIs DEF Named
  <2> DEFINE new == Unregistered(maps, q.entry, q.secs)
  <2>2. /\ new.instance = [maps.instance EXCEPT ![q.entry.url] = 0]
        /\ new.data =
              IF q.entry.type = "DATA"
              THEN maps.data \ {Publisher(q.entry.id, q.entry.url, q.secs)}
              ELSE maps.data
        /\ new.service =
              IF q.entry.type = "DATA" THEN maps.service
              ELSE [maps.service EXCEPT ![q.entry.id] = NoUrl]
    BY <1>5, <2>1, UnregisteredIs
  <2>3. Handled(maps, q) = new
    BY <1>5 DEF Handled
  <2> HIDE DEF new
  <2>4. CASE a.type = "DATA"
    <3>1. Publisher(a.id, a.url, Secs(a.timestamp)) \in maps.data
      BY <2>4 DEF InMaps
    <3>2. Publisher(a.id, a.url, Secs(a.timestamp)) # Publisher(q.entry.id, q.entry.url, q.secs)
      BY <1>3 DEF Publisher
    <3>3. Publisher(a.id, a.url, Secs(a.timestamp)) \in new.data
      BY <2>2, <3>1, <3>2
    <3>. QED
      BY <2>3, <2>4, <3>3 DEF InMaps
  <2>5. CASE a.type = "SERVICE"
    <3>1. maps.service[a.id] = a.url /\ Secs(maps.instance[a.url]) = Secs(a.timestamp)
      BY <2>5 DEF InMaps
    <3>2. new.instance[a.url] = maps.instance[a.url]
      BY <1>1, <1>2, <1>3, <2>2
    <3>3. new.service[a.id] = maps.service[a.id]
      BY <1>1, <1>2, <1>3, <2>1, <2>2, <2>5
    <3>. QED
      BY <2>3, <2>5, <3>1, <3>2, <3>3 DEF InMaps
  <2>. QED
    BY <1>2, <2>4, <2>5
<1>6. CASE q.kind = "unregister" /\ ~Unlisted(maps, q.entry, q.secs)
  BY <1>6 DEF Handled
<1>. QED
  BY <1>4, <1>5, <1>6, RequestIs

\* A registration that is not older than the instance of its URL gets listed.
LEMMA HandledLists ==
    ASSUME NEW maps \in MapsType, NEW a \in Registrations, maps.instance[a.url] <= a.timestamp
    PROVE  InMaps(Handled(maps, RegisterRequest(a)), a)
<1>1. /\ maps.service \in [AllServices -> AllUrls \cup {NoUrl}]
      /\ maps.instance \in [AllUrls -> Nat]
  BY DEF MapsType
<1>2. /\ a.url \in AllUrls /\ a.type \in {"DATA", "SERVICE"} /\ a.timestamp \in Nat
      /\ a.type = "SERVICE" => a.id \in AllServices
  BY RegistrationIs
<1> DEFINE new == Registered(maps, a)
<1>3. Handled(maps, RegisterRequest(a)) = new
  <2>1. a.timestamp >= maps.instance[a.url]
    BY <1>1, <1>2
  <2>. QED
    BY <2>1 DEF Handled, RegisterRequest, Accepted
<1>4. /\ new.instance = [maps.instance EXCEPT ![a.url] = a.timestamp]
      /\ a.type = "DATA" => Publisher(a.id, a.url, Secs(a.timestamp)) \in new.data
      /\ a.type # "DATA" => new.service = [maps.service EXCEPT ![a.id] = a.url]
  BY RegisteredIs
<1>. QED
  BY <1>1, <1>2, <1>3, <1>4 DEF InMaps

\* More requests at the end of the queue.
LEMMA QueueGrows ==
    ASSUME Queue \in Seq(RequestType), NEW q \in Seq(RequestType), Queue' = Queue \o q,
           local' = local, NEW a
    PROVE  /\ QueueHas(a) /\ (\A i \in 1..Len(q) : ~Touch(q[i].entry, a)) => QueueHas(a)'
           /\ \A i \in 1..Len(q) :
                 q[i] = RegisterRequest(a)
                     /\ (\A j \in 1..Len(q) : j > i => ~Touch(q[j].entry, a))
                 => QueueHas(a)'
<1>1. /\ Len(Queue') = Len(Queue) + Len(q) /\ Len(Queue) \in Nat /\ Len(q) \in Nat
      /\ \A i \in 1..Len(Queue) : Queue'[i] = Queue[i] /\ i \in 1..Len(Queue')
      /\ \A i \in 1..Len(q) : Queue'[Len(Queue) + i] = q[i] /\ Len(Queue) + i \in 1..Len(Queue')
      /\ \A i \in 1..Len(Queue') :
            i \in 1..Len(Queue) \/ (i - Len(Queue) \in 1..Len(q) /\ i > Len(Queue)
                                    /\ Queue'[i] = q[i - Len(Queue)])
  BY ConcatIs
<1>2. ASSUME QueueHas(a), \A i \in 1..Len(q) : ~Touch(q[i].entry, a)
      PROVE  QueueHas(a)'
  <2>1. CASE InMaps(local, a) /\ \A j \in 1..Len(Queue) : ~Touch(Queue[j].entry, a)
    <3>1. \A j \in 1..Len(Queue') : ~Touch(Queue'[j].entry, a)
      BY <1>1, <1>2, <2>1
    <3>. QED
      BY <2>1, <3>1 DEF QueueHas
  <2>2. ASSUME NEW i \in 1..Len(Queue), Queue[i] = RegisterRequest(a),
               \A j \in 1..Len(Queue) : j > i => ~Touch(Queue[j].entry, a)
        PROVE  QueueHas(a)'
    <3>1. \A j \in 1..Len(Queue') : j > i => ~Touch(Queue'[j].entry, a)
      BY <1>1, <1>2, <2>2
    <3>. QED
      BY <1>1, <2>2, <3>1 DEF QueueHas
  <2>. QED
    BY <1>2, <2>1, <2>2 DEF QueueHas
<1>3. ASSUME NEW i \in 1..Len(q), q[i] = RegisterRequest(a),
             \A j \in 1..Len(q) : j > i => ~Touch(q[j].entry, a)
      PROVE  QueueHas(a)'
  <2> DEFINE n == Len(Queue) + i
  <2>1. n \in 1..Len(Queue') /\ Queue'[n] = RegisterRequest(a)
    BY <1>1, <1>3
  <2>2. ASSUME NEW j \in 1..Len(Queue'), j > n PROVE ~Touch(Queue'[j].entry, a)
    <3>1. j \notin 1..Len(Queue)
      BY <1>1, <2>2
    <3>2. j - Len(Queue) \in 1..Len(q) /\ Queue'[j] = q[j - Len(Queue)]
      BY <1>1, <3>1
    <3>3. j - Len(Queue) > i
      BY <1>1, <2>2
    <3>. QED
      BY <1>3, <3>2, <3>3
  <2>. QED
    BY <2>1, <2>2 DEF QueueHas
<1>. QED
  BY <1>2, <1>3

\* The request that is handled is about something else, or registers a; then
\* a is the latest at its URL and is accepted.
LEMMA ResponseHas ==
    ASSUME BaseInv, Latest, Response, NEW a \in Listed, QueueHas(a)
    PROVE  QueueHas(a)'
<1>1. /\ Queue # <<>> /\ Queue \in Seq(RequestType) /\ Queue' = Tail(Queue)
      /\ local' = Handled(local, Queue[1])
  BY ResponseIs
<1>2. /\ Len(Queue) \in Nat /\ 1 \in 1..Len(Queue) /\ Len(Queue') = Len(Queue) - 1
      /\ Queue[1] \in RequestType
      /\ \A i \in 1..Len(Queue') : Queue'[i] = Queue[i + 1] /\ i + 1 \in 1..Len(Queue)
  BY <1>1, HeadOnTail
<1>3. local \in MapsType /\ a \in Registrations /\ a.url \in AllUrls /\ a.timestamp \in Nat
  BY RegistrationsIn DEF BaseInv, SysType
<1>4. CASE InMaps(local, a) /\ \A j \in 1..Len(Queue) : ~Touch(Queue[j].entry, a)
  <2>1. InMaps(local', a)
    BY <1>1, <1>2, <1>3, <1>4, HandledKeeps
  <2>2. \A j \in 1..Len(Queue') : ~Touch(Queue'[j].entry, a)
    BY <1>2, <1>4
  <2>. QED
    BY <2>1, <2>2 DEF QueueHas
<1>5. ASSUME NEW i \in 1..Len(Queue), Queue[i] = RegisterRequest(a),
             \A j \in 1..Len(Queue) : j > i => ~Touch(Queue[j].entry, a)
      PROVE  QueueHas(a)'
  <2>1. CASE i = 1
    <3>1. local.instance[a.url] \in Nat
      BY <1>3 DEF MapsType
    <3>2. local.instance[a.url] <= a.timestamp
      BY <1>3, <3>1 DEF Latest, Seen
    <3>3. InMaps(local', a)
      BY <1>1, <1>3, <1>5, <2>1, <3>2, HandledLists
    <3>4. \A j \in 1..Len(Queue') : ~Touch(Queue'[j].entry, a)
      BY <1>2, <1>5, <2>1
    <3>. QED
      BY <3>3, <3>4 DEF QueueHas
  <2>2. CASE i # 1
    <3>1. i - 1 \in 1..Len(Queue') /\ Queue'[i - 1] = RegisterRequest(a)
      BY <1>2, <1>5, <2>2
    <3>2. \A j \in 1..Len(Queue') : j > i - 1 => ~Touch(Queue'[j].entry, a)
      BY <1>2, <1>5
    <3>. QED
      BY <3>1, <3>2 DEF QueueHas
  <2>. QED
    BY <2>1, <2>2
<1>. QED
  BY <1>4, <1>5 DEF QueueHas

\* A response keeps Follows.
LEMMA ResponseFollows ==
    ASSUME BaseInv, Latest, Follows, Response
    PROVE  Follows'
<1>1. UNCHANGED <<leaderVars, commandVars, sync, socketVars>>
  BY ResponseBase
<1>2. UNCHANGED <<phase, incarnation, leader, heard, commands, sync, attached, wire>>
  BY <1>1 DEF leaderVars, commandVars, socketVars
<1>3. ASSUME NEW a \in Listed, Will(a) PROVE Will(a)'
  BY <1>2, <1>3, ResponseHas DEF Will, Untouched, Brings, First, Right
<1>. QED
  BY <1>2, <1>3 DEF Follows, CaughtUp, HasRight, Right, Listed

\* A message more on the socket.
LEMMA WireGrows ==
    ASSUME wire \in Seq(MessageType), NEW m \in MessageType, wire' = Append(wire, m),
           sync' = sync, local' = local, Queue' = Queue, NEW a
    PROVE  /\ HasRight' <=> HasRight \/ Right(m)
           /\ Will(a) /\ (Right(m) => ~Touch(m.change, a)) => Will(a)'
           /\ Right(m) /\ ~sync.initialized /\ ~HasRight /\ a \in m.map => Will(a)'
           /\ Right(m) /\ m.change_type = "ADD" /\ m.change = a /\ a \in m.map => Will(a)'
<1>1. /\ Len(wire) \in Nat /\ Len(wire') = Len(wire) + 1
      /\ \A k \in 1..Len(wire) : wire'[k] = wire[k] /\ k \in 1..Len(wire')
      /\ wire'[Len(wire) + 1] = m /\ Len(wire) + 1 \in 1..Len(wire')
      /\ \A k \in 1..Len(wire') : k \in 1..Len(wire) \/ k = Len(wire) + 1
  OBVIOUS
<1>2. \A x : Right(x)' <=> Right(x)
  BY DEF Right
<1>3. HasRight' <=> HasRight \/ Right(m)
  <2>1. ASSUME HasRight' PROVE HasRight \/ Right(m)
    <3>1. PICK k \in 1..Len(wire') : Right(wire'[k])
      BY <1>2, <2>1 DEF HasRight, Right
    <3>. QED
      BY <1>1, <3>1 DEF HasRight
  <2>2. ASSUME HasRight PROVE HasRight'
    <3>1. PICK k \in 1..Len(wire) : Right(wire[k])
      BY <2>2 DEF HasRight
    <3>2. k \in 1..Len(wire') /\ wire'[k].registration_time = sync'.registrationTime
      BY <1>1, <3>1 DEF Right
    <3>. QED
      BY <3>2 DEF HasRight, Right
  <2>3. ASSUME Right(m) PROVE HasRight'
    BY <1>1, <2>3 DEF HasRight, Right
  <2>. QED
    BY <2>1, <2>2, <2>3
<1>4. ASSUME Will(a), Right(m) => ~Touch(m.change, a) PROVE Will(a)'
  <2>1. ASSUME NEW k \in 0..Len(wire), Untouched(a, k) PROVE Untouched(a, k)'
    BY <1>1, <1>4, <2>1 DEF Untouched, Right
  <2>2. CASE sync.initialized /\ QueueHas(a) /\ Untouched(a, 0)
    <3>1. QueueHas(a)'
      BY <2>2 DEF QueueHas
    <3>2. Untouched(a, 0)'
      BY <1>1, <2>1, <2>2
    <3>. QED
      BY <2>2, <3>1, <3>2 DEF Will
  <2>3. ASSUME NEW k \in 1..Len(wire), Right(wire[k]), Brings(k, a), Untouched(a, k)
        PROVE  Will(a)'
    <3>1. First(k)' <=> First(k)
      BY <1>1, <2>3 DEF First, Right
    <3>2. Brings(k, a)'
      BY <1>1, <2>3, <3>1 DEF Brings
    <3>3. Untouched(a, k)'
      BY <2>1, <2>3
    <3>4. k \in 1..Len(wire') /\ wire'[k].registration_time = sync'.registrationTime
      BY <1>1, <2>3 DEF Right
    <3>. QED
      BY <3>2, <3>3, <3>4 DEF Will, Right
  <2>. QED
    BY <1>4, <2>2, <2>3 DEF Will
<1>n. PICK n \in Nat : n = Len(wire) + 1
  BY <1>1
<1>5. ASSUME Right(m), Brings(n, a)' PROVE Will(a)'
  <2>1. Untouched(a, n)'
    BY <1>1, <1>n DEF Untouched
  <2>2. n \in 1..Len(wire') /\ wire'[n].registration_time = sync'.registrationTime
    BY <1>1, <1>n, <1>5 DEF Right
  <2>. QED
    BY <1>5, <2>1, <2>2 DEF Will, Right
<1>6. ASSUME Right(m), ~sync.initialized, ~HasRight, a \in m.map PROVE Will(a)'
  <2>1. First(n)'
    BY <1>1, <1>n, <1>6 DEF First, HasRight, Right
  <2>2. Brings(n, a)'
    BY <1>1, <1>n, <1>6, <2>1 DEF Brings
  <2>. QED
    BY <1>5, <1>6, <2>2
<1>7. ASSUME Right(m), m.change_type = "ADD", m.change = a, a \in m.map PROVE Will(a)'
  <2>1. Brings(n, a)'
    BY <1>1, <1>n, <1>7 DEF Brings
  <2>. QED
    BY <1>5, <1>7, <2>1
<1>. QED
  BY <1>3, <1>4, <1>6, <1>7

\* The first message leaves the socket.
LEMMA WireShrinks ==
    ASSUME wire \in Seq(MessageType), wire # <<>>, wire' = Tail(wire),
           sync'.registrationTime = sync.registrationTime
    PROVE  /\ HasRight' \/ Right(wire[1]) <=> HasRight
           /\ \A a : \A k \in Nat : Untouched(a, k + 1) => Untouched(a, k)'
           /\ \A k \in 1..Len(wire) : k # 1 =>
                 k - 1 \in 1..Len(wire') /\ wire'[k - 1] = wire[k]
<1>1. /\ Len(wire) \in Nat /\ Len(wire) >= 1 /\ Len(wire') = Len(wire) - 1
      /\ \A k \in 1..Len(wire') : wire'[k] = wire[k + 1] /\ k + 1 \in 1..Len(wire)
  BY HeadOnTail
<1>2. \A k \in 1..Len(wire) : k # 1 => k - 1 \in 1..Len(wire') /\ wire'[k - 1] = wire[k]
  BY <1>1
<1>3. \A x : Right(x)' <=> Right(x)
  BY DEF Right
<1>4. ASSUME HasRight' PROVE HasRight
  <2>1. PICK k \in 1..Len(wire') : wire'[k].registration_time = sync'.registrationTime
    BY <1>4 DEF HasRight, Right
  <2>. QED
    BY <1>1, <2>1 DEF HasRight, Right
<1>5. ASSUME Right(wire[1]) PROVE HasRight
  BY <1>1, <1>5 DEF HasRight
<1>6. ASSUME HasRight PROVE HasRight' \/ Right(wire[1])
  <2>1. PICK k \in 1..Len(wire) : Right(wire[k])
    BY <1>6 DEF HasRight
  <2>2. CASE k # 1
    BY <1>2, <2>1, <2>2 DEF HasRight, Right
  <2>. QED
    BY <2>1, <2>2
<1>7. ASSUME NEW a, NEW k \in Nat, Untouched(a, k + 1) PROVE Untouched(a, k)'
  BY <1>1, <1>7 DEF Untouched, Right
<1>. QED
  BY <1>2, <1>4, <1>5, <1>6, <1>7

\* A message that is not taken leaves the first one that is.
LEMMA FirstShifts ==
    ASSUME wire \in Seq(MessageType), wire # <<>>, wire' = Tail(wire), sync' = sync,
           ~Right(wire[1]), NEW i \in 1..Len(wire')
    PROVE  First(i)' <=> First(i + 1)
<1>1. /\ Len(wire) \in Nat /\ Len(wire) >= 1 /\ Len(wire') = Len(wire) - 1
      /\ \A k \in 1..Len(wire') : wire'[k] = wire[k + 1] /\ k + 1 \in 1..Len(wire)
  BY HeadOnTail
<1>2. \A k \in 1..Len(wire) : k # 1 => k - 1 \in 1..Len(wire') /\ wire'[k - 1] = wire[k]
  BY <1>1
<1>3. ASSUME First(i + 1) PROVE First(i)'
  <2>1. ASSUME NEW j \in 1..Len(wire'), j < i
        PROVE  wire'[j].registration_time # sync'.registrationTime
    <3>1. j + 1 \in 1..Len(wire) /\ j + 1 < i + 1 /\ wire'[j] = wire[j + 1]
      BY <1>1, <2>1
    <3>. QED
      BY <1>3, <3>1 DEF First, Right
  <2>. QED
    BY <1>3, <2>1 DEF First, Right
<1>4. ASSUME First(i)', NEW j \in 1..Len(wire), j < i + 1 PROVE ~Right(wire[j])
  <2>1. CASE j # 1
    <3>1. j - 1 \in 1..Len(wire') /\ j - 1 < i /\ wire'[j - 1] = wire[j]
      BY <1>1, <1>2, <1>4, <2>1
    <3>. QED
      BY <1>4, <3>1 DEF First, Right
  <2>. QED
    BY <2>1
<1>. QED
  BY <1>3, <1>4 DEF First

\* A message of another registration time is no loss.
LEMMA IgnoreFollows ==
    ASSUME BaseInv, Follows, IgnoreMessage
    PROVE  Follows'
<1>1. /\ UNCHANGED <<leaderVars, commandVars, attached, local>> /\ sync' = sync
      /\ Queue' = Queue /\ wire # <<>> /\ wire' = Tail(wire) /\ ~Right(wire[1])
  BY MessageIs DEF Right
<1>2. UNCHANGED <<phase, incarnation, leader, heard, commands, sync, attached, local>>
  BY <1>1 DEF leaderVars, commandVars
<1>3. wire \in Seq(MessageType)
  BY DEF BaseInv, SysType
<1>4. /\ HasRight' <=> HasRight
      /\ \A a : \A k \in Nat : Untouched(a, k + 1) => Untouched(a, k)'
      /\ \A k \in 1..Len(wire) : k # 1 => k - 1 \in 1..Len(wire') /\ wire'[k - 1] = wire[k]
  BY <1>1, <1>3, WireShrinks
<1>5. /\ Len(wire) \in Nat /\ Len(wire) >= 1 /\ Len(wire') = Len(wire) - 1
      /\ \A k \in 1..Len(wire') : wire'[k] = wire[k + 1] /\ k + 1 \in 1..Len(wire)
  BY <1>1, <1>3, HeadOnTail
<1>6. ASSUME NEW a, Will(a) PROVE Will(a)'
  <2>1. CASE sync.initialized /\ QueueHas(a) /\ Untouched(a, 0)
    <3>1. QueueHas(a)'
      BY <1>1, <2>1 DEF QueueHas
    <3>2. Untouched(a, 0 + 1)
      BY <2>1 DEF Untouched
    <3>3. Untouched(a, 0)'
      BY <1>4, <3>2
    <3>. QED
      BY <1>2, <2>1, <3>1, <3>3 DEF Will
  <2>2. ASSUME NEW k \in 1..Len(wire), Right(wire[k]), Brings(k, a), Untouched(a, k)
        PROVE  Will(a)'
    <3>1. k # 1
      BY <1>1, <2>2
    <3>2. PICK i \in Nat : i = k - 1
      BY <1>5, <3>1
    <3>3. i \in 1..Len(wire') /\ wire'[i] = wire[k] /\ k = i + 1
      BY <1>4, <1>5, <2>2, <3>1, <3>2
    <3>4. Untouched(a, i)'
      BY <1>4, <2>2, <3>3
    <3>5. First(i)' <=> First(k)
      BY <1>1, <1>3, <3>3, FirstShifts
    <3>6. Brings(i, a)'
      BY <2>2, <3>3, <3>5 DEF Brings
    <3>7. wire'[i].registration_time = sync'.registrationTime
      BY <1>2, <2>2, <3>3 DEF Right
    <3>. QED
      BY <3>3, <3>4, <3>6, <3>7 DEF Will, Right
  <2>. QED
    BY <1>6, <2>1, <2>2 DEF Will
<1>. QED
  BY <1>2, <1>4, <1>6 DEF Follows, CaughtUp, Listed

\* The requests of a change touch what the change touches.
LEMMA ChangeTouches ==
    ASSUME NEW m \in MessageType, NEW initialized \in BOOLEAN, NEW a,
           NEW i \in 1..Len(Requests(m, initialized))
    PROVE  initialized /\ ~Touch(m.change, a) => ~Touch(Requests(m, initialized)[i].entry, a)
<1>1. m.change_type \in {"ADD", "REMOVE"}
  BY DEF MessageType
<1>2. CASE initialized /\ m.change_type = "ADD"
  <2>1. Requests(m, initialized) = <<RegisterRequest(m.change)>>
    BY <1>2, RequestsIs
  <2>2. i = 1
    BY <2>1
  <2>. QED
    BY <2>1, <2>2 DEF RegisterRequest
<1>3. CASE initialized /\ m.change_type = "REMOVE"
  <2>1. Requests(m, initialized) =
          <<UnregistrationRequest(m.change.type, m.change, Secs(m.change.timestamp))>>
    BY <1>3, RequestsIs
  <2>2. i = 1
    BY <2>1
  <2>. QED
    BY <2>1, <2>2 DEF UnregistrationRequest, Touch, Registration
<1>. QED
  BY <1>1, <1>2, <1>3

\* The requests of a map register each entry, and no other touches it.
LEMMA MapBrings ==
    ASSUME NEW m \in MessageType, NEW initialized \in BOOLEAN, ~initialized, NEW a \in m.map
    PROVE  \E i \in 1..Len(Requests(m, initialized)) :
              /\ Requests(m, initialized)[i] = RegisterRequest(a)
              /\ \A j \in 1..Len(Requests(m, initialized)) :
                    j > i => ~Touch(Requests(m, initialized)[j].entry, a)
<1> DEFINE q == Requests(m, initialized)
<1>1. m.map \in SUBSET Registrations /\ IsFiniteSet(m.map) /\ Clean(m.map)
  BY DEF MessageType
<1>2. q = RegistrationRequests(m.map)
  BY RequestsIs
<1> HIDE DEF q
<1>3. /\ \A i \in 1..Len(q) : q[i] = RegisterRequest(q[i].entry) /\ q[i].entry \in m.map
      /\ \A i, j \in 1..Len(q) : q[i].entry = q[j].entry => i = j
      /\ \E i \in 1..Len(q) : q[i] = RegisterRequest(a)
  BY <1>1, <1>2, MapRequests
<1>4. PICK i \in 1..Len(q) : q[i] = RegisterRequest(a)
  BY <1>3
<1>5. q[i].entry = a
  BY <1>4 DEF RegisterRequest
<1>6. ASSUME NEW j \in 1..Len(q), j > i PROVE ~Touch(q[j].entry, a)
  <2>1. q[j].entry # a
    BY <1>3, <1>5, <1>6
  <2>2. q[j].entry \in m.map
    BY <1>3
  <2>. QED
    BY <1>1, <2>1, <2>2 DEF Clean
<1>. QED
  BY <1>4, <1>6 DEF q

\* A message that is taken becomes the requests of its map or of its change.
LEMMA TakeFollows ==
    ASSUME BaseInv, Follows, TakeMessage
    PROVE  Follows'
<1>1. /\ UNCHANGED <<leaderVars, commandVars, attached, local>>
      /\ sync'.registrationTime = sync.registrationTime /\ sync'.initialized
      /\ Queue' = Queue \o Requests(wire[1], sync.initialized)
      /\ wire # <<>> /\ wire' = Tail(wire) /\ Right(wire[1]) /\ wire[1] \in MessageType
  BY MessageIs DEF Right
<1>2. UNCHANGED <<phase, incarnation, leader, heard, commands, attached, local>>
  BY <1>1 DEF leaderVars, commandVars
<1>3. wire \in Seq(MessageType) /\ sync.initialized \in BOOLEAN /\ Queue \in Seq(RequestType)
  BY QueueIs DEF BaseInv, SysType, DetailsType
<1>4. /\ HasRight
      /\ \A a : \A k \in Nat : Untouched(a, k + 1) => Untouched(a, k)'
      /\ \A k \in 1..Len(wire) : k # 1 => k - 1 \in 1..Len(wire') /\ wire'[k - 1] = wire[k]
  BY <1>1, <1>3, WireShrinks
<1>5. Len(wire) \in Nat /\ 1 \in 1..Len(wire)
  BY <1>1, <1>3, HeadOnTail
<1> DEFINE q == Requests(wire[1], sync.initialized)
<1>6. q \in Seq(RequestType) /\ Queue' = Queue \o q
  BY <1>1, <1>3, RequestsIs
<1>7. ASSUME NEW a, Will(a) PROVE Will(a)'
  <2>1. ASSUME NEW k \in 1..Len(wire), k # 1, wire[k].change_type = "ADD", wire[k].change = a,
               Right(wire[k]), Untouched(a, k)
        PROVE  Will(a)'
    <3>1. PICK i \in Nat : i = k - 1
      BY <1>5, <2>1
    <3>2. i \in 1..Len(wire') /\ wire'[i] = wire[k] /\ k = i + 1
      BY <1>4, <1>5, <2>1, <3>1
    <3>3. Untouched(a, i)'
      BY <1>4, <2>1, <3>2
    <3>4. Brings(i, a)'
      BY <1>1, <2>1, <3>2 DEF Brings, First
    <3>5. wire'[i].registration_time = sync'.registrationTime
      BY <1>1, <2>1, <3>2 DEF Right
    <3>. QED
      BY <3>2, <3>3, <3>4, <3>5 DEF Will, Right
  <2>2. ASSUME QueueHas(a)', Untouched(a, 1) PROVE Will(a)'
    <3>1. Untouched(a, 0)'
      <4>1. Untouched(a, 0 + 1)
        BY <2>2
      <4>. QED
        BY <1>4, <4>1
    <3>. QED
      BY <1>1, <2>2, <3>1 DEF Will
  <2>3. CASE sync.initialized
    <3>2. CASE QueueHas(a) /\ Untouched(a, 0)
      <4>1. ~Touch(wire[1].change, a) /\ Untouched(a, 1)
        BY <1>1, <1>5, <3>2 DEF Untouched
      <4>2. \A i \in 1..Len(q) : ~Touch(q[i].entry, a)
        BY <1>1, <1>3, <2>3, <4>1, ChangeTouches
      <4>3. QueueHas(a)'
        BY <1>2, <1>3, <1>6, <3>2, <4>2, QueueGrows
      <4>. QED
        BY <2>2, <4>1, <4>3
    <3>3. ASSUME NEW k \in 1..Len(wire), Right(wire[k]), Brings(k, a), Untouched(a, k)
          PROVE  Will(a)'
      <4>1. wire[k].change_type = "ADD" /\ wire[k].change = a
        BY <2>3, <3>3 DEF Brings, First
      <4>2. CASE k = 1
        <5>1. q = <<RegisterRequest(a)>>
          BY <1>1, <1>3, <2>3, <4>1, <4>2, RequestsIs
        <5>2. 1 \in 1..Len(q) /\ q[1] = RegisterRequest(a) /\ \A j \in 1..Len(q) : ~(j > 1)
          BY <5>1
        <5>3. QueueHas(a)'
          BY <1>2, <1>3, <1>6, <5>2, QueueGrows
        <5>. QED
          BY <2>2, <3>3, <4>2, <5>3
      <4>. QED
        BY <2>1, <3>3, <4>1, <4>2
    <3>. QED
      BY <1>7, <3>2, <3>3 DEF Will
  <2>4. CASE ~sync.initialized
    <3>2. PICK k \in 1..Len(wire) : Right(wire[k]) /\ Brings(k, a) /\ Untouched(a, k)
      BY <1>7, <2>4 DEF Will
    <3>3. CASE k = 1
      <4>1. First(1)
        BY <1>5, <2>4 DEF First
      <4>2. a \in wire[1].map
        BY <3>2, <3>3, <4>1 DEF Brings
      <4>3. \E i \in 1..Len(q) : /\ q[i] = RegisterRequest(a)
                                 /\ \A j \in 1..Len(q) : j > i => ~Touch(q[j].entry, a)
        BY <1>1, <1>3, <2>4, <4>2, MapBrings
      <4>4. QueueHas(a)'
        BY <1>2, <1>3, <1>6, <4>3, QueueGrows
      <4>. QED
        BY <2>2, <3>2, <3>3, <4>4
    <3>4. CASE k # 1
      <4>1. ~First(k)
        <5>1. 1 < k
          BY <1>5, <3>4
        <5>. QED
          BY <1>1, <1>5, <5>1 DEF First
      <4>. QED
        BY <2>1, <3>2, <3>4, <4>1 DEF Brings
    <3>. QED
      BY <3>3, <3>4
  <2>. QED
    BY <2>3, <2>4
<1>8. CaughtUp' => CaughtUp /\ phase # "details"
  <2>1. CaughtUp' <=> CaughtUp
    BY <1>2 DEF CaughtUp
  <2>. QED
    BY <1>4, <2>1 DEF Follows
<1>. QED
  BY <1>1, <1>2, <1>4, <1>7, <1>8 DEF Follows, Listed

\* Before the node of the leader knows the registration time, no message has it.
LEMMA DetailsWrong ==
    ASSUME BaseInv, phase \in Bound
    PROVE  DetailsSecs # 0
<1>1. leader.instance[DetailsUrl] \in Nat /\ leader.instance[DetailsUrl] >= TicksPerSecond
  BY InstanceIn DEF BaseInv, LeaderInv, PlacesOK
<1>. QED
  BY <1>1, NextSecond DEF DetailsSecs

\* A change of the leader's maps that it announces.
LEMMA AnnouncedFollows ==
    ASSUME BaseInv, BaseInv', Follows, NEW e \in Registrations, NEW m \in MessageType,
           Announces(m), FollowerKept, UNCHANGED incarnation, phase # "down",
           m.map = Listed', m.change = e, m.registration_time = DetailsTime,
           \/ m.change_type = "ADD" /\ Listed' = Listed \cup {e}
                /\ \A f \in Listed : ~Touch(e, f)
           \/ Listed' = Listed \ {e} /\ e \in Listed,
           \/ phase' = phase
           \/ phase = "up" /\ phase' = "details"
           \/ phase = "timed" /\ phase' = "ready"
    PROVE  Follows'
<1>1. UNCHANGED <<heard, commands, sync, attached, local>> /\ Queue' = Queue
  BY DEF FollowerKept, commandVars, queueVars, Queue
<1>2. wire \in Seq(MessageType) /\ attached \in BOOLEAN
  BY DEF BaseInv, SysType
<1>3. CaughtUp' => CaughtUp
  BY <1>1 DEF CaughtUp
<1>4. CaughtUp /\ (attached \/ wire # <<>> \/ sync.initialized) =>
         phase \in Bound /\ sync.registrationTime = DetailsSecs /\ DetailsSecs # 0
  BY DetailsWrong DEF BaseInv, SocketOK
<1>5. CASE ~attached
  <2>1. wire' = wire /\ ~attached'
    BY <1>1, <1>5 DEF Announces
  <2>2. ASSUME CaughtUp PROVE ~sync.initialized /\ ~HasRight'
    <3>1. wire = <<>> /\ ~sync.initialized
      BY <1>5, <2>2 DEF BaseInv, SocketOK
    <3>2. Len(wire') = 0
      BY <2>1, <3>1
    <3>. QED
      BY <3>1, <3>2 DEF HasRight
  <2>. QED
    BY <1>1, <1>3, <2>1, <2>2 DEF Follows
<1>6. CASE attached
  <2>1. wire' = Append(wire, m)
    BY <1>6 DEF Announces
  <2>2. HasRight' <=> HasRight \/ Right(m)
    BY <1>1, <1>2, <2>1, WireGrows
  <2>3. CASE CaughtUp
    <3>1. phase \in Bound /\ sync.registrationTime = DetailsSecs /\ DetailsSecs # 0
      BY <1>4, <1>6, <2>3
    <3>2. phase \in {"timed", "ready"} => Right(m)
      BY <3>1 DEF Right, DetailsTime, DetailsSecs
    <3>3. phase = "details" => ~Right(m)
      BY <3>1 DEF Right, DetailsTime
    <3>4. phase' = "details" => phase = "details"
      BY <3>1 DEF Bound
    <3>5. phase' = "ready" => phase \in {"timed", "ready"}
      OBVIOUS
    <3>6. ASSUME sync.initialized \/ HasRight', NEW a \in Listed' PROVE Will(a)'
      <4>1. Right(m)
        BY <2>2, <2>3, <3>1, <3>2, <3>6 DEF Follows, Bound
      <4>2. CASE ~sync.initialized /\ ~HasRight
        BY <1>1, <1>2, <2>1, <3>6, <4>1, <4>2, WireGrows
      <4>3. CASE (sync.initialized \/ HasRight) /\ a \in Listed
        <5>1. Will(a)
          BY <1>6, <2>3, <4>3 DEF Follows
        <5>2. ~Touch(m.change, a)
          <6>1. Clean(Listed)
            BY ListedIn DEF BaseInv
          <6>. QED
            BY <3>6, <4>3, <6>1 DEF Clean
        <5>. QED
          BY <1>1, <1>2, <2>1, <5>1, <5>2, WireGrows
      <4>4. CASE a \notin Listed
        <5>1. m.change_type = "ADD" /\ m.change = a /\ a \in m.map
          BY <3>6, <4>4
        <5>. QED
          BY <1>1, <1>2, <2>1, <4>1, <5>1, WireGrows
      <4>. QED
        BY <4>2, <4>3, <4>4
    <3>7. phase' = "ready" => HasRight'
      BY <2>2, <3>2, <3>5
    <3>8. phase' = "details" => ~sync.initialized /\ ~HasRight'
      BY <2>2, <2>3, <3>3, <3>4 DEF Follows
    <3>. QED
      BY <1>1, <3>6, <3>7, <3>8 DEF Follows
  <2>. QED
    BY <1>3, <2>3 DEF Follows
<1>. QED
  BY <1>2, <1>5, <1>6

\* Steps of the leader keep Follows.
LEMMA LeaderStepFollows ==
    ASSUME BaseInv, Follows, LeaderInv', LeaderStep
    PROVE  Follows'
<1>0. BaseInv'
  BY LeaderStepBase
<1>1. CASE LeaderStarts \/ LeaderCrashes
  <2>1. ~CaughtUp'
    BY <1>1 DEF LeaderStarts, LeaderCrashes, CaughtUp, BaseInv, SysType, LeaderInv, ClockOK,
                FollowerKept, commandVars
  <2>. QED
    BY <2>1 DEF Follows
<1>2. CASE LeaderRests
  <2>1. /\ UNCHANGED <<incarnation, leader, wire, heard, commands, sync, attached, local>>
        /\ Queue' = Queue
    BY <1>2 DEF LeaderRests, FollowerKept, commandVars, queueVars, Queue
  <2>2. (CaughtUp' => CaughtUp) /\ (phase' # phase => phase' = "timed")
    BY <1>2, <2>1 DEF LeaderRests, CaughtUp
  <2>3. \A a : Will(a)' <=> Will(a)
    BY <2>1 DEF Will, QueueHas, Untouched, Brings, First, Right
  <2>. QED
    BY <2>1, <2>2, <2>3 DEF Follows, HasRight, Right, Listed
<1>3. ASSUME NEW e \in Registrations, LeaderAdds(e) PROVE Follows'
  <2>1. PICK m \in MessageType :
           /\ Announces(m) /\ m.map = Listed' /\ m.change = e /\ m.change_type = "ADD"
           /\ m.registration_time = DetailsTime
    BY <1>3, NoteIn DEF LeaderAdds, Adds, BaseInv
  <2>2. /\ FollowerKept /\ UNCHANGED incarnation /\ phase # "down"
        /\ Listed' = Listed \cup {e} /\ \A f \in Listed : ~Touch(e, f)
        /\ \/ phase' = phase
           \/ phase = "up" /\ phase' = "details"
           \/ phase = "timed" /\ phase' = "ready"
    BY <1>3 DEF LeaderAdds, Adds
  <2>. QED
    BY <1>0, <2>1, <2>2, AnnouncedFollows
<1>4. ASSUME NEW e \in Registrations, LeaderDrops(e) PROVE Follows'
  <2>1. PICK m \in MessageType :
           /\ Announces(m) /\ m.map = Listed' /\ m.change = e
           /\ m.registration_time = DetailsTime
    BY <1>4, NoteIn DEF LeaderDrops, Drops, BaseInv
  <2>2. /\ FollowerKept /\ UNCHANGED <<incarnation, phase>> /\ phase # "down"
        /\ Listed' = Listed \ {e} /\ e \in Listed
    BY <1>4 DEF LeaderDrops, Drops
  <2>. QED
    BY <1>0, <2>1, <2>2, AnnouncedFollows
<1>. QED
  BY <1>1, <1>2, <1>3, <1>4 DEF LeaderStep

\* The cached message has the whole map.
LEMMA AttachFollows ==
    ASSUME BaseInv, Follows, Attach
    PROVE  Follows'
<1>1. /\ UNCHANGED <<leaderVars, commandVars, sync, queueVars, local>> /\ Queue' = Queue
      /\ ~attached /\ attached' /\ phase \in Bound /\ sync.socket = "sub"
      /\ wire' = wire \o <<cache[1]>> /\ cache[1] \in MessageType /\ cache[1].map = Listed
  BY AttachIs
<1>2. UNCHANGED <<phase, incarnation, leader, heard, commands, sync, local>>
  BY <1>1 DEF leaderVars, commandVars
<1>3. (CaughtUp' <=> CaughtUp) /\ Listed' = Listed
  BY <1>2 DEF CaughtUp, Listed
<1>4. CASE CaughtUp
  <2>1. wire = <<>> /\ ~sync.initialized /\ sync.registrationTime = DetailsSecs
        /\ DetailsSecs # 0
    BY <1>1, <1>4, DetailsWrong DEF BaseInv, SocketOK
  <2>2. wire \in Seq(MessageType) /\ wire' = Append(wire, cache[1]) /\ Len(wire) = 0
    BY <1>1, <2>1
  <2>3. ~HasRight
    BY <2>2 DEF HasRight
  <2>4. HasRight' <=> Right(cache[1])
    BY <1>1, <1>2, <2>2, <2>3, WireGrows
  <2>5. ASSUME Right(cache[1]), NEW a \in Listed PROVE Will(a)'
    BY <1>1, <1>2, <2>1, <2>2, <2>3, <2>5, WireGrows
  <2>6. phase = "ready" => Right(cache[1])
    BY <2>1 DEF BaseInv, CacheOK, Right
  <2>7. phase = "details" => ~Right(cache[1])
    BY <2>1 DEF BaseInv, CacheOK, Right
  <2>. QED
    BY <1>2, <1>3, <2>1, <2>4, <2>5, <2>6, <2>7 DEF Follows
<1>. QED
  BY <1>3, <1>4 DEF Follows

\* Steps of the follower keep Follows.
LEMMA FollowerStepFollows ==
    ASSUME BaseInv, Latest, Follows, FollowerStep
    PROVE  Follows'
<1>1. CASE Hear \/ Miss
  BY <1>1, CommandBase DEF Follows
<1>2. CASE AddDomain \/ UpdateDomain \/ RemoveDomain \/ Reply
  <2>1. ~attached' /\ wire' = <<>> /\ ~sync'.initialized
    BY <1>2, LookUpIs, RemoveIs, ReplyIs
  <2>2. ~HasRight'
    <3>1. Len(wire') = 0
      BY <2>1
    <3>. QED
      BY <3>1 DEF HasRight
  <2>. QED
    BY <2>1, <2>2 DEF Follows
<1>3. CASE Lookup \/ EmptyReply
  <2>1. /\ UNCHANGED <<phase, incarnation, leader, heard, commands, sync, attached, wire, local>>
        /\ Queue' = Queue
    BY <1>3, LookupIs DEF leaderVars, commandVars
  <2>. QED
    BY <2>1 DEF Follows, CaughtUp, Listed, HasRight, Will, QueueHas, Untouched, Brings, First,
                Right
<1>4. CASE Attach
  BY <1>4, AttachFollows
<1>5. CASE IgnoreMessage
  BY <1>5, IgnoreFollows
<1>6. CASE TakeMessage
  BY <1>6, TakeFollows
<1>7. CASE Response
  BY <1>7, ResponseFollows
<1>. QED
  BY <1>1, <1>2, <1>3, <1>4, <1>5, <1>6, <1>7 DEF FollowerStep, Synchronizer

\* Steps that change nothing keep it.
LEMMA StutterFollows ==
    ASSUME Follows, UNCHANGED syncVars
    PROVE  Follows'
<1>1. /\ UNCHANGED <<phase, incarnation, leader, heard, commands, sync, attached, wire, local>>
      /\ Queue' = Queue
  BY DEF syncVars, leaderVars, commandVars, socketVars, queueVars, Queue
<1>. QED
  BY <1>1 DEF Follows, CaughtUp, Listed, HasRight, Will, QueueHas, Untouched, Brings, First,
              Right

\* The first state has it.
LEMMA InitFollows ==
    ASSUME SyncInit
    PROVE  Follows
  BY DEF SyncInit, Follows, CaughtUp

\* The inductive invariant of the next theorem.
FollowInv == BaseInv /\ Latest /\ Follows

\* Every reachable state has it.
LEMMA FollowInvHolds ==
    ASSUME Orderly
    PROVE  SyncSpec => []FollowInv
<1>1. SyncInit => FollowInv
  BY InitBase, InitLatest, InitFollows DEF FollowInv
<1>2. ASSUME FollowInv, [SyncNext]_syncVars PROVE FollowInv'
  <2>1. CASE SyncNext
    <3>1. CASE LeaderInv' /\ LeaderStep
      BY <1>2, <3>1, LeaderStepBase, LeaderStepLatest, LeaderStepFollows DEF FollowInv
    <3>2. CASE FollowerStep
      BY <1>2, <3>2, FollowerStepBase, FollowerStepLatest, FollowerStepFollows DEF FollowInv
    <3>. QED
      BY <1>2, <2>1, <3>1, <3>2, NextIs DEF FollowInv
  <2>2. CASE UNCHANGED syncVars
    BY <1>2, <2>2, StutterBase, StutterLatest, StutterFollows DEF FollowInv
  <2>. QED
    BY <1>2, <2>1, <2>2
<1>. QED
  BY <1>1, <1>2, PTL DEF SyncSpec

\* It has the types.
LEMMA FollowerTyped ==
    ASSUME BaseInv
    PROVE  SyncTypeOK
<1>1. /\ now \in Nat /\ phase \in {"down", "up", "details", "timed", "ready"}
      /\ incarnation \in 0..MaxIncarnations /\ heard \in 0..incarnation
      /\ removes \in 0..MaxRemoves
  <2>1. /\ now \in Nat /\ phase \in Phases /\ incarnation \in Nat /\ heard \in Nat
        /\ incarnation <= MaxIncarnations /\ heard <= incarnation /\ removes \in 0..MaxRemoves
    BY DEF BaseInv, LeaderInv, ClockOK, SysType
  <2>2. MaxIncarnations \in Nat
    BY DomainSyncAssumption
  <2>. QED
    BY <2>1, <2>2 DEF Phases
<1>2. apps \subseteq Registrations
  BY DEF BaseInv, LeaderInv, AppsOK
<1>3. \A maps \in MapsType : IsMaps(maps)
  BY DEF MapsType, IsMaps, PublisherType
<1>4. leader \in MapsType /\ local \in MapsType
  BY DEF BaseInv, LeaderInv, LeaderMaps, SysType
<1>5. \A k \in DOMAIN commands : commands[k] \in {"Add", "Update", "Remove"}
  <2>1. commands \in Seq({"Add", "Update", "Remove"})
    BY DEF BaseInv, SysType
  <2>. QED
    BY <2>1
<1>6. /\ sync.socket \in {"none", "lookup", "sub"} /\ sync.map \subseteq Registrations
      /\ lookup.state \in {"none", "sent", "lost", "empty", "found"}
  BY DEF BaseInv, SysType, DetailsType, LookupType
<1>7. \A q \in RequestType : IsRequest(q)
  BY RequestIs DEF IsRequest
<1>8. /\ \A k \in DOMAIN registrationUpdates : registrationUpdates[k] \in RequestType
      /\ \A k \in DOMAIN pendingResponse : pendingResponse[k] \in RequestType
      /\ Len(pendingResponse) <= 1
  <2>1. /\ registrationUpdates \in Seq(RequestType) /\ pendingResponse \in Seq(RequestType)
        /\ Len(pendingResponse) <= 1
    BY DEF BaseInv, SysType
  <2>. QED
    BY <2>1
<1>. QED
  BY <1>1, <1>2, <1>3, <1>4, <1>5, <1>6, <1>7, <1>8 DEF SyncTypeOK

\* The follower lists what it will list once nothing is on its way.
LEMMA SettledLists ==
    ASSUME FollowInv, Settled, NEW a \in Listed
    PROVE  InMaps(local, a)
<1>1. /\ CaughtUp /\ attached /\ phase = "ready" /\ Len(wire) = 0 /\ Len(Queue) = 0
  <2>1. Queue = <<>> /\ wire = <<>>
    BY DEF Settled, Queue
  <2>. QED
    BY <2>1 DEF Settled, CaughtUp
<1>2. Will(a)
  BY <1>1 DEF FollowInv, Follows
<1>3. QueueHas(a)
  BY <1>1, <1>2 DEF Will
<1>. QED
  BY <1>1, <1>3 DEF QueueHas

\* A follower that is settled misses nothing.
LEMMA SettledHasAll ==
    ASSUME FollowInv, Settled
    PROVE  HasAll
<1>1. leader \in MapsType /\ Timed(leader)
  BY DEF FollowInv, BaseInv, LeaderInv, LeaderMaps, Faithful
<1>2. ASSUME NEW p \in leader.data PROVE p \in local.data
  <2> DEFINE a == Registration("DATA", p.id, p.url, leader.instance[p.url])
  <2>1. a \in Listed
    BY DEF Listed, Entries
  <2>2. InMaps(local, a)
    BY <2>1, SettledLists
  <2>3. Publisher(p.id, p.url, Secs(leader.instance[p.url])) \in local.data
    BY <2>2 DEF InMaps, Registration
  <2>4. p = Publisher(p.id, p.url, p.registration_time)
    BY <1>1 DEF MapsType, PublisherType, Publisher
  <2>5. p.registration_time = Secs(leader.instance[p.url])
    BY <1>1 DEF Timed
  <2>. QED
    BY <2>3, <2>4, <2>5
<1>3. ASSUME NEW s \in AllServices, leader.service[s] # NoUrl
      PROVE  /\ local.service[s] = leader.service[s]
             /\ Secs(local.instance[local.service[s]]) = Secs(leader.instance[leader.service[s]])
  <2> DEFINE a == Registration("SERVICE", s, leader.service[s], leader.instance[leader.service[s]])
  <2>1. a \in Listed
    BY <1>3 DEF Listed, Entries
  <2>2. InMaps(local, a)
    BY <2>1, SettledLists
  <2>. QED
    BY <2>2 DEF InMaps, Registration
<1>4. Listing(leader)[2] \subseteq Listing(local)[2]
  BY <1>3 DEF Listing
<1>. QED
  BY <1>2, <1>4 DEF HasAll, Listing

\* Whatever the numbers of products, services, starts and commands: when the
\* components of the leader's domain unregister before they end, a follower that
\* has handled everything misses nothing of what the leader lists.
THEOREM SettledFollowerHasAllHolds ==
    ASSUME Orderly
    PROVE  SyncSpec => []SettledFollowerHasAll
<1>1. FollowInv => SettledFollowerHasAll
  BY FollowerTyped, SettledHasAll DEF SettledFollowerHasAll, FollowInv
<1>. QED
  BY <1>1, FollowInvHolds, PTL

(***************************************************************************)
(* What the follower will not list                                         *)
(***************************************************************************)

\* Nothing that is on its way has the timestamp of no instance.
Stamped == \A u : ~Told(u, 0)

\* Nothing that is listed has the timestamp of no instance.
LEMMA ListedStamped ==
    ASSUME LeaderInv, NEW e \in Listed
    PROVE  e.timestamp # 0
  BY DEF LeaderInv, LeaderMaps, Faithful, Timed, Listed, Entries, Registration

StampedList == \A e \in Listed : e.timestamp # 0

\* The same as one formula, to be used for the next state, too.
LEMMA ListIsStamped == LeaderInv => StampedList
  BY ListedStamped DEF StampedList

\* Every step keeps Stamped.
LEMMA StepStamped ==
    ASSUME Stamped, BaseInv, (LeaderInv' /\ LeaderStep) \/ FollowerStep
    PROVE  Stamped'
<1>1. ASSUME FollowerStep, NEW u, Told(u, 0)' PROVE FALSE
  BY <1>1, FollowerStepTold DEF Stamped
<1>2. ASSUME LeaderInv', LeaderStarts \/ LeaderRests \/ LeaderCrashes PROVE Stamped'
  <2>1. /\ Queue' = Queue /\ wire' = wire /\ (cache' = cache \/ Len(cache') = 0)
    BY <1>2 DEF LeaderStarts, LeaderRests, LeaderCrashes, FollowerKept, queueVars, Queue
  <2>. QED
    BY <2>1 DEF Stamped, Told, Asked, Carried, Shows
<1>3. ASSUME LeaderInv', LeaderStep, NEW e \in Registrations, LeaderAdds(e) \/ LeaderDrops(e),
             NEW u, Told(u, 0)'
      PROVE  FALSE
  <2>1. BaseInv'
    BY <1>3, LeaderStepBase
  <2>2. PICK m \in MessageType : Announces(m) /\ m.map = Listed' /\ m.change = e
    BY <1>3, NoteIn DEF LeaderAdds, Adds, LeaderDrops, Drops, BaseInv
  <2>3. Shows(m, u, 0)
    <3>1. FollowerKept
      BY <1>3 DEF LeaderAdds, LeaderDrops
    <3>2. Told(u, 0) \/ Shows(m, u, 0)
      BY <1>3, <2>1, <2>2, <3>1, AnnouncedTold
    <3>. QED
      BY <3>2 DEF Stamped
  <2>4. e.timestamp # 0
    BY <1>3, ListedStamped DEF LeaderAdds, Adds, LeaderDrops, Drops, BaseInv
  <2>5. \A f \in Listed' : f.timestamp # 0
    <3>1. LeaderInv' => StampedList'
      BY ListIsStamped, PTL
    <3>. QED
      BY <1>3, <3>1 DEF StampedList
  <2>. QED
    BY <2>2, <2>3, <2>4, <2>5 DEF Shows
<1>. QED
  BY <1>1, <1>2, <1>3 DEF LeaderStep, Stamped

\* The first state has it.
LEMMA InitStamped ==
    ASSUME SyncInit
    PROVE  Stamped
<1>1. Len(cache) = 0 /\ Len(wire) = 0 /\ Len(Queue) = 0
  BY DEF SyncInit, Queue
<1>. QED
  BY <1>1 DEF Stamped, Told, Asked, Carried

\* An entry of a directory: what Listing shows of it.
Item(type, id, url, secs) == [type |-> type, id |-> id, url |-> url, secs |-> secs]
ItemOf(e) == Item(e.type, e.id, e.url, Secs(e.timestamp))
DataItem(p) == Item("DATA", p.id, p.url, p.registration_time)
ServiceItem(maps, t) ==
    Item("SERVICE", t, maps.service[t], Secs(maps.instance[maps.service[t]]))
Items(maps) ==
    {DataItem(p) : p \in maps.data}
    \cup {ServiceItem(maps, t) : t \in {r \in AllServices : maps.service[r] # NoUrl}}

\* Every provider has an instance.
Provided(maps) ==
    \A t \in AllServices :
        maps.service[t] # NoUrl => maps.instance[maps.service[t]] # 0

\* The request is to unregister the entry.
Removal(q, x) ==
    q.kind = "unregister" /\ Item(q.entry.type, q.entry.id, q.entry.url, q.secs) = x

\* A registration of which no entry shares the URL or the service.
LEMMA RegisterItems ==
    ASSUME NEW maps \in MapsType, NEW r \in Registrations, r.timestamp # 0, Provided(maps),
           \A x \in Items(maps) : ~Touch(r, x)
    PROVE  /\ Provided(Registered(maps, r))
           /\ \A x \in Items(Registered(maps, r)) : x \in Items(maps) \/ x = ItemOf(r)
<1> DEFINE new == Registered(maps, r)
<1>1. /\ maps.data \in SUBSET PublisherType
      /\ maps.service \in [AllServices -> AllUrls \cup {NoUrl}]
      /\ maps.instance \in [AllUrls -> Nat]
  BY DEF MapsType
<1>2. /\ r.url \in AllUrls /\ r.type \in {"DATA", "SERVICE"}
      /\ r.type = "SERVICE" => r.id \in AllServices
  BY RegistrationIs
<1>3. /\ new.instance = [maps.instance EXCEPT ![r.url] = r.timestamp]
      /\ new.data =
            IF r.type = "DATA"
            THEN {p \in maps.data : p.id # r.id \/ p.url # r.url}
                   \cup {Publisher(r.id, r.url, Secs(r.timestamp))}
            ELSE maps.data
      /\ new.service =
            IF r.type = "DATA" THEN maps.service
            ELSE [maps.service EXCEPT ![r.id] = r.url]
  BY RegisteredIs
<1> HIDE DEF new
<1>4. ASSUME NEW t \in AllServices, maps.service[t] # NoUrl
      PROVE  /\ maps.service[t] # r.url /\ maps.service[t] \in AllUrls
             /\ r.type = "SERVICE" => t # r.id
             /\ new.instance[maps.service[t]] = maps.instance[maps.service[t]]
             /\ maps.instance[maps.service[t]] # 0
             /\ ServiceItem(maps, t) \in Items(maps)
  <2>1. ServiceItem(maps, t) \in Items(maps)
    BY <1>4 DEF Items
  <2>2. ServiceItem(maps, t).url = maps.service[t] /\ ServiceItem(maps, t).type = "SERVICE"
        /\ ServiceItem(maps, t).id = t
    BY DEF ServiceItem, Item
  <2>3. maps.service[t] # r.url /\ (r.type = "SERVICE" => t # r.id)
    BY <2>1, <2>2 DEF Touch
  <2>4. maps.service[t] \in AllUrls
    BY <1>1, <1>4
  <2>. QED
    BY <1>1, <1>3, <1>4, <2>1, <2>3, <2>4 DEF Provided
<1>5. ASSUME NEW t \in AllServices, new.service[t] # NoUrl
      PROVE  /\ new.instance[new.service[t]] # 0
             /\ ServiceItem(new, t) \in Items(maps) \/ ServiceItem(new, t) = ItemOf(r)
  <2>1. CASE r.type = "SERVICE" /\ t = r.id
    <3>1. new.service[t] = r.url /\ new.instance[r.url] = r.timestamp
      BY <1>1, <1>2, <1>3, <2>1
    <3>. QED
      BY <2>1, <3>1 DEF ServiceItem, ItemOf
  <2>2. CASE ~(r.type = "SERVICE" /\ t = r.id)
    <3>1. new.service[t] = maps.service[t]
      BY <1>1, <1>2, <1>3, <2>2
    <3>2. ServiceItem(new, t) = ServiceItem(maps, t)
      BY <1>4, <1>5, <3>1 DEF ServiceItem
    <3>. QED
      BY <1>4, <1>5, <3>1, <3>2
  <2>. QED
    BY <2>1, <2>2
<1>6. ASSUME NEW p \in new.data PROVE DataItem(p) \in Items(maps) \/ DataItem(p) = ItemOf(r)
  <2>1. CASE p \in maps.data
    BY <2>1 DEF Items
  <2>2. CASE r.type = "DATA" /\ p = Publisher(r.id, r.url, Secs(r.timestamp))
    BY <2>2 DEF DataItem, ItemOf, Publisher
  <2>. QED
    BY <1>3, <2>1, <2>2
<1>7. Provided(new)
  BY <1>5 DEF Provided
<1>8. \A x \in Items(new) : x \in Items(maps) \/ x = ItemOf(r)
  BY <1>5, <1>6 DEF Items
<1>. QED
  BY <1>7, <1>8 DEF new

\* An unregistration that shares URL or service with no entry but its own.
LEMMA UnregisterItems ==
    ASSUME NEW maps \in MapsType, NEW r \in Named, NEW secs, Unlisted(maps, r, secs),
           Provided(maps),
           \A x \in Items(maps) : Touch(r, x) => Item(r.type, r.id, r.url, secs) = x
    PROVE  /\ Provided(Unregistered(maps, r, secs))
           /\ \A x \in Items(Unregistered(maps, r, secs)) : x \in Items(maps) /\ ~Touch(r, x)
<1> DEFINE new == Unregistered(maps, r, secs)
           own == Item(r.type, r.id, r.url, secs)
<1>1. /\ maps.data \in SUBSET PublisherType
      /\ maps.service \in [AllServices -> AllUrls \cup {NoUrl}]
      /\ maps.instance \in [AllUrls -> Nat]
  BY DEF MapsType
<1>2. /\ r.url \in AllUrls /\ r.type \in {"DATA", "SERVICE"}
      /\ r.type # "DATA" => r.id \in AllServices
  BY UnregisteredIs DEF Named
<1>3. /\ new.instance = [maps.instance EXCEPT ![r.url] = 0]
      /\ new.data =
            IF r.type = "DATA" THEN maps.data \ {Publisher(r.id, r.url, secs)} ELSE maps.data
      /\ new.service =
            IF r.type = "DATA" THEN maps.service
            ELSE [maps.service EXCEPT ![r.id] = NoUrl]
  BY UnregisteredIs
<1>o. own.type = r.type /\ own.id = r.id /\ own.url = r.url /\ own.secs = secs
  BY DEF Item
<1>t. \A x \in Items(maps) : Touch(r, x) => own = x
  OBVIOUS
<1> HIDE DEF new, own
<1>4. ASSUME NEW t \in AllServices, new.service[t] # NoUrl
      PROVE  /\ new.instance[new.service[t]] # 0
             /\ ServiceItem(new, t) \in Items(maps) /\ ~Touch(r, ServiceItem(new, t))
  <2>1. new.service[t] = maps.service[t] /\ (r.type = "SERVICE" => t # r.id)
    BY <1>1, <1>2, <1>3, <1>4
  <2>2. ServiceItem(maps, t) \in Items(maps)
    BY <1>4, <2>1 DEF Items
  <2>3. ServiceItem(maps, t).url = maps.service[t] /\ ServiceItem(maps, t).type = "SERVICE"
        /\ ServiceItem(maps, t).id = t
    BY DEF ServiceItem, Item
  <2>4. ~Touch(r, ServiceItem(maps, t))
    BY <1>o, <1>t, <1>2, <2>1, <2>2, <2>3
  <2>5. maps.service[t] # r.url /\ maps.service[t] \in AllUrls
    BY <1>1, <1>4, <2>1, <2>3, <2>4 DEF Touch
  <2>6. new.instance[maps.service[t]] = maps.instance[maps.service[t]]
    BY <1>1, <1>3, <2>5
  <2>7. ServiceItem(new, t) = ServiceItem(maps, t)
    BY <2>1, <2>6 DEF ServiceItem
  <2>. QED
    BY <1>4, <2>1, <2>2, <2>4, <2>6, <2>7 DEF Provided
<1>5. ASSUME NEW p \in new.data PROVE DataItem(p) \in Items(maps) /\ ~Touch(r, DataItem(p))
  <2>1. p \in maps.data
    BY <1>3
  <2>2. DataItem(p) \in Items(maps)
    BY <2>1 DEF Items
  <2>3. own # DataItem(p)
    <3>1. p = Publisher(p.id, p.url, p.registration_time)
      BY <1>1, <2>1 DEF PublisherType, Publisher
    <3>2. DataItem(p).type = "DATA" /\ DataItem(p).id = p.id /\ DataItem(p).url = p.url
          /\ DataItem(p).secs = p.registration_time
      BY DEF DataItem, Item
    <3>3. ASSUME own = DataItem(p) PROVE FALSE
      <4>1. r.type = "DATA" /\ p.id = r.id /\ p.url = r.url /\ p.registration_time = secs
        BY <1>o, <3>2, <3>3
      <4>2. p = Publisher(r.id, r.url, secs)
        BY <3>1, <4>1
      <4>. QED
        BY <1>3, <4>1, <4>2
    <3>. QED
      BY <3>3
  <2>. QED
    BY <1>t, <2>2, <2>3
<1>6. Provided(new)
  BY <1>4 DEF Provided
<1>7. \A x \in Items(new) : x \in Items(maps) /\ ~Touch(r, x)
  BY <1>4, <1>5 DEF Items
<1>. QED
  BY <1>6, <1>7 DEF new

\* An unregistration of a listed entry finds it.
LEMMA RemovalFinds ==
    ASSUME NEW maps \in MapsType, Provided(maps), NEW q \in RequestType,
           NEW x \in Items(maps), Removal(q, x)
    PROVE  Unlisted(maps, q.entry, q.secs)
<1>1. /\ x.type = q.entry.type /\ x.id = q.entry.id /\ x.url = q.entry.url /\ x.secs = q.secs
  BY DEF Removal, Item
<1>2. CASE x.type = "DATA"
  <2>1. PICK p \in maps.data : x = DataItem(p)
    BY <1>2 DEF Items, ServiceItem, Item
  <2>2. p = Publisher(p.id, p.url, p.registration_time)
    BY DEF MapsType, PublisherType, Publisher
  <2>3. x.id = p.id /\ x.url = p.url /\ x.secs = p.registration_time
    BY <2>1 DEF DataItem, Item
  <2>. QED
    BY <1>1, <1>2, <2>2, <2>3 DEF Unlisted
<1>3. CASE x.type # "DATA"
  <2>1. PICK t \in AllServices : maps.service[t] # NoUrl /\ x = ServiceItem(maps, t)
    BY <1>3 DEF Items, DataItem, Item
  <2>2. x.id = t /\ x.url = maps.service[t] /\ x.secs = Secs(maps.instance[maps.service[t]])
    BY <2>1 DEF ServiceItem, Item
  <2>. QED
    BY <1>1, <1>3, <2>1, <2>2 DEF Unlisted, Provided
<1>. QED
  BY <1>2, <1>3

\* What a request leaves of the entries when it shares URL or service with none
\* but the one it is to unregister.
LEMMA HandledItems ==
    ASSUME NEW maps \in MapsType, Provided(maps), NEW q \in RequestType,
           q.kind = "register" => q.entry.timestamp # 0,
           \A x \in Items(maps) : Touch(q.entry, x) => Removal(q, x)
    PROVE  /\ Provided(Handled(maps, q))
           /\ \A x \in Items(Handled(maps, q)) :
                 \/ x \in Items(maps) /\ ~Touch(q.entry, x)
                 \/ q.kind = "register" /\ x = ItemOf(q.entry)
<1>1. CASE q.kind = "register"
  <2>1. q.entry \in Registrations /\ \A x \in Items(maps) : ~Touch(q.entry, x)
    BY <1>1, RequestIs DEF Removal
  <2>2. /\ Provided(Registered(maps, q.entry))
        /\ \A x \in Items(Registered(maps, q.entry)) : x \in Items(maps) \/ x = ItemOf(q.entry)
    BY <1>1, <2>1, RegisterItems
  <2>. QED
    BY <1>1, <2>1, <2>2 DEF Handled
<1>2. CASE q.kind = "unregister"
  <2>1. q.entry \in Named
    BY <1>2, RequestIs
  <2>2. CASE Unlisted(maps, q.entry, q.secs)
    <3>1. \A x \in Items(maps) :
             Touch(q.entry, x) => Item(q.entry.type, q.entry.id, q.entry.url, q.secs) = x
      BY DEF Removal
    <3>2. /\ Provided(Unregistered(maps, q.entry, q.secs))
          /\ \A x \in Items(Unregistered(maps, q.entry, q.secs)) :
                x \in Items(maps) /\ ~Touch(q.entry, x)
      BY <2>1, <2>2, <3>1, UnregisterItems
    <3>. QED
      BY <1>2, <2>2, <3>2 DEF Handled
  <2>3. CASE ~Unlisted(maps, q.entry, q.secs)
    <3>1. Handled(maps, q) = maps
      BY <1>2, <2>3 DEF Handled
    <3>. QED
      BY <2>3, <3>1, RemovalFinds
  <2>. QED
    BY <2>2, <2>3
<1>. QED
  BY <1>1, <1>2, RequestIs

\* The leader has not restarted and the domain was not removed.
Alone == (incarnation = 0 \/ (incarnation = 1 /\ phase # "down")) /\ removes = 0

\* The messages after the k-th leave the entry listed, as the leader does, or
\* remove it before another touches it.
WireFate(x, k) ==
    \/ Untouched(x, k) /\ x \in Items(leader)
    \/ \E j \in 1..Len(wire) :
          /\ j > k /\ Right(wire[j])
          /\ wire[j].change_type = "REMOVE" /\ ItemOf(wire[j].change) = x
          /\ \A i \in 1..Len(wire) :
                k < i /\ i < j /\ Right(wire[i]) => ~Touch(wire[i].change, x)

\* The same of the requests after the k-th.
Fate(x, k) ==
    \/ (\A j \in 1..Len(Queue) : j > k => ~Touch(Queue[j].entry, x)) /\ WireFate(x, 0)
    \/ \E j \in 1..Len(Queue) :
          /\ j > k /\ Removal(Queue[j], x)
          /\ \A i \in 1..Len(Queue) : k < i /\ i < j => ~Touch(Queue[i].entry, x)

\* The commands of a leader that is alone: one Add.
CommandState ==
    \/ heard = 0 /\ commands = <<>> /\ sync.socket = "none"
    \/ heard = 1 /\ incarnation = 1 /\ commands = <<"Add">> /\ sync.socket = "none"
    \/ heard = 1 /\ incarnation = 1 /\ commands = <<>> /\ sync.socket # "none"

\* Before the first message is taken nothing is asked or listed.
Quiet == ~sync.initialized => Queue = <<>> /\ local = EmptyMaps

\* A registration in the queue, or in a message that will be taken, meets
\* its fate, too.
QueueMeans(i) == Queue[i].kind = "register" => Fate(ItemOf(Queue[i].entry), i)

WireMeans(k) ==
    IF First(k) THEN \A e \in wire[k].map : WireFate(ItemOf(e), k)
    ELSE wire[k].change_type = "ADD" => WireFate(ItemOf(wire[k].change), k)

\* The invariant of exactness: everything the follower lists or will list is
\* listed by the leader or will be unregistered.
Meant ==
    /\ Provided(local)
    /\ \A x \in Items(local) : Fate(x, 0)
    /\ \A i \in 1..Len(Queue) : QueueMeans(i)
    /\ \A k \in 1..Len(wire) : Right(wire[k]) => WireMeans(k)

\* It holds as long as the leader has not restarted.
AloneOK == Alone => CommandState /\ Quiet /\ Meant

\* Empty maps have no entries.
LEMMA EmptyItems == Items(EmptyMaps) = {} /\ Provided(EmptyMaps)
<1>1. EmptyMaps.data = {} /\ \A t \in AllServices : EmptyMaps.service[t] = NoUrl
  BY DEF EmptyMaps
<1>. QED
  BY <1>1 DEF Items, Provided

\* No message of this registration has come yet.
NothingComes == ~sync.initialized /\ ~HasRight

\* Then there is nothing to show.
LEMMA NothingMeant == Quiet /\ NothingComes => Meant
<1> SUFFICES ASSUME Quiet, NothingComes PROVE Meant
  OBVIOUS
<1>1. Len(Queue) = 0 /\ local = EmptyMaps /\ ~HasRight
  BY DEF Quiet, NothingComes
<1>. QED
  BY <1>1, EmptyItems DEF Meant, HasRight

\* A leader that is alone was alone before.
LEMMA AloneBefore ==
    ASSUME BaseInv, (LeaderInv' /\ LeaderStep) \/ FollowerStep, Alone'
    PROVE  Alone
<1>1. CASE FollowerStep
  <2>1. UNCHANGED <<phase, incarnation>>
    BY <1>1, FollowerStepBase DEF leaderVars
  <2>2. ~Miss
    <3>1. removes \in Nat
      BY DomainSyncAssumption DEF BaseInv, SysType
    <3>. QED
      BY <3>1 DEF Miss, Alone
  <2>3. removes' = removes
    BY <1>1, <2>2, LookUpIs, RemoveIs, LookupIs, ReplyIs, MessageIs, AttachIs, ResponseBase
       DEF FollowerStep, Synchronizer, Hear, commandVars
  <2>. QED
    BY <2>1, <2>3 DEF Alone
<1>2. CASE LeaderInv' /\ LeaderStep
  <2>1. removes' = removes
    BY <1>2 DEF LeaderStep, LeaderStarts, LeaderRests, LeaderCrashes, LeaderAdds, LeaderDrops,
                FollowerKept, commandVars
  <2>2. CASE LeaderStarts
    BY <2>1, <2>2 DEF LeaderStarts, Alone, BaseInv, LeaderInv, ClockOK
  <2>3. CASE ~LeaderStarts
    <3>1. incarnation' = incarnation /\ (phase' # "down" => phase # "down")
      BY <1>2, <2>3 DEF LeaderStep, LeaderRests, LeaderCrashes, LeaderAdds, LeaderDrops
    <3>. QED
      BY <2>1, <3>1 DEF Alone
  <2>. QED
    BY <2>2, <2>3
<1>. QED
  BY <1>1, <1>2

\* A follower that knows the leader has caught up with it.
LEMMA AloneCaughtUp ==
    ASSUME BaseInv, Alone, CommandState, sync.socket # "none"
    PROVE  CaughtUp /\ incarnation = 1 /\ heard = 1 /\ commands = <<>>
  BY DEF CommandState, Alone, CaughtUp

\* Without a subscription nothing has come.
LEMMA AloneIdle ==
    ASSUME BaseInv, Alone, CommandState, ~attached
    PROVE  wire = <<>> /\ ~sync.initialized
<1>1. CASE sync.socket = "none"
  BY <1>1 DEF BaseInv, SocketOK
<1>2. CASE sync.socket # "none"
  BY <1>2, AloneCaughtUp DEF BaseInv, SocketOK
<1>. QED
  BY <1>1, <1>2

\* The entries of the leader are those it lists.
ItemsListed == Items(leader) = {ItemOf(e) : e \in Listed}

\* The leader's maps show what it lists.
LEMMA ListedItems == LeaderInv => ItemsListed
<1> SUFFICES ASSUME LeaderInv PROVE ItemsListed
  OBVIOUS
<1>1. leader \in MapsType /\ Timed(leader)
  BY DEF LeaderInv, LeaderMaps, Faithful
<1>2. ASSUME NEW p \in leader.data
      PROVE  DataItem(p) = ItemOf(Registration("DATA", p.id, p.url, leader.instance[p.url]))
  BY <1>1 DEF DataItem, ItemOf, Registration, Timed
<1>3. ASSUME NEW t \in AllServices
      PROVE  ServiceItem(leader, t) =
                ItemOf(Registration("SERVICE", t, leader.service[t],
                                    leader.instance[leader.service[t]]))
  BY DEF ServiceItem, ItemOf, Registration
<1>4. ASSUME NEW e \in Listed PROVE ItemOf(e) \in Items(leader)
  BY <1>2, <1>3 DEF Listed, Entries, Items
<1>5. ASSUME NEW x \in Items(leader) PROVE \E e \in Listed : x = ItemOf(e)
  <2>1. CASE \E p \in leader.data : x = DataItem(p)
    <3>1. PICK p \in leader.data : x = DataItem(p)
      BY <2>1
    <3>2. Registration("DATA", p.id, p.url, leader.instance[p.url]) \in Listed
      BY DEF Listed, Entries
    <3>. QED
      BY <1>2, <3>1, <3>2
  <2>2. CASE \E t \in AllServices : leader.service[t] # NoUrl /\ x = ServiceItem(leader, t)
    <3>1. PICK t \in AllServices : leader.service[t] # NoUrl /\ x = ServiceItem(leader, t)
      BY <2>2
    <3>2. Registration("SERVICE", t, leader.service[t], leader.instance[leader.service[t]])
             \in Listed
      BY <3>1 DEF Listed, Entries
    <3>. QED
      BY <1>3, <3>1, <3>2
  <2>. QED
    BY <2>1, <2>2 DEF Items
<1>. QED
  BY <1>4, <1>5 DEF ItemsListed

\* An entry touches what its registration touches.
LEMMA ItemTouch ==
    ASSUME NEW e, NEW f
    PROVE  Touch(e, ItemOf(f)) <=> Touch(e, f)
  BY DEF Touch, ItemOf, Item

\* A message more about something else, or one that drops x.
LEMMA WireFateGrows ==
    ASSUME wire \in Seq(MessageType), NEW m \in MessageType, wire' = Append(wire, m),
           sync' = sync, NEW x, NEW k \in 0..Len(wire), WireFate(x, k),
           x \in Items(leader) =>
              \/ x \in Items(leader') /\ (Right(m) => ~Touch(m.change, x))
              \/ Right(m) /\ m.change_type = "REMOVE" /\ ItemOf(m.change) = x
    PROVE  WireFate(x, k)'
<1>1. /\ Len(wire) \in Nat /\ Len(wire') = Len(wire) + 1
      /\ \A i \in 1..Len(wire) : wire'[i] = wire[i] /\ i \in 1..Len(wire')
      /\ wire'[Len(wire) + 1] = m /\ Len(wire) + 1 \in 1..Len(wire')
      /\ \A i \in 1..Len(wire') : i \in 1..Len(wire) \/ i = Len(wire) + 1
  OBVIOUS
<1>2. ASSUME NEW j \in 1..Len(wire), j > k, Right(wire[j]), wire[j].change_type = "REMOVE",
             ItemOf(wire[j].change) = x,
             \A i \in 1..Len(wire) :
                k < i /\ i < j /\ Right(wire[i]) => ~Touch(wire[i].change, x)
      PROVE  WireFate(x, k)'
  <2>1. /\ j \in 1..Len(wire') /\ wire'[j] = wire[j]
        /\ wire'[j].registration_time = sync'.registrationTime
    BY <1>1, <1>2 DEF Right
  <2>2. \A i \in 1..Len(wire') : i < j => i \in 1..Len(wire) /\ wire'[i] = wire[i]
    BY <1>1
  <2>3. \A i \in 1..Len(wire') :
           k < i /\ i < j /\ wire'[i].registration_time = sync'.registrationTime
              => ~Touch(wire'[i].change, x)
    BY <1>2, <2>2 DEF Right
  <2>. QED
    BY <1>2, <2>1, <2>3 DEF WireFate, Right
<1>3. ASSUME Untouched(x, k), x \in Items(leader') /\ (Right(m) => ~Touch(m.change, x))
      PROVE  WireFate(x, k)'
  <2>1. Untouched(x, k)'
    BY <1>1, <1>3 DEF Untouched, Right
  <2>. QED
    BY <1>3, <2>1 DEF WireFate
<1>4. ASSUME Untouched(x, k), Right(m), m.change_type = "REMOVE", ItemOf(m.change) = x
      PROVE  WireFate(x, k)'
  <2>1. PICK n \in Nat : n = Len(wire) + 1
    BY <1>1
  <2>2. /\ n \in 1..Len(wire') /\ n > k /\ wire'[n] = m
        /\ m.registration_time = sync'.registrationTime
    BY <1>1, <1>4, <2>1 DEF Right
  <2>3. \A i \in 1..Len(wire') :
           k < i /\ i < n /\ wire'[i].registration_time = sync'.registrationTime
              => ~Touch(wire'[i].change, x)
    BY <1>1, <1>4, <2>1 DEF Untouched, Right
  <2>. QED
    BY <1>4, <2>2, <2>3 DEF WireFate, Right
<1>. QED
  BY <1>2, <1>3, <1>4 DEF WireFate

\* The first message leaves the socket.
LEMMA WireFateShrinks ==
    ASSUME wire \in Seq(MessageType), wire # <<>>, wire' = Tail(wire),
           sync'.registrationTime = sync.registrationTime, leader' = leader,
           NEW x, NEW k \in Nat, WireFate(x, k + 1)
    PROVE  WireFate(x, k)'
<1>1. /\ Len(wire) \in Nat /\ Len(wire) >= 1 /\ Len(wire') = Len(wire) - 1
      /\ \A i \in 1..Len(wire') : wire'[i] = wire[i + 1] /\ i + 1 \in 1..Len(wire)
  BY HeadOnTail
<1>2. CASE Untouched(x, k + 1) /\ x \in Items(leader)
  BY <1>2, WireShrinks DEF WireFate
<1>3. ASSUME NEW j \in 1..Len(wire), j > k + 1, Right(wire[j]), wire[j].change_type = "REMOVE",
             ItemOf(wire[j].change) = x,
             \A i \in 1..Len(wire) :
                k + 1 < i /\ i < j /\ Right(wire[i]) => ~Touch(wire[i].change, x)
      PROVE  WireFate(x, k)'
  <2>1. PICK n \in Nat : n = j - 1
    BY <1>1, <1>3
  <2>2. n \in 1..Len(wire') /\ j = n + 1 /\ n > k
    BY <1>1, <1>3, <2>1
  <2>3. wire'[n] = wire[j] /\ wire'[n].registration_time = sync'.registrationTime
    BY <1>1, <1>3, <2>2 DEF Right
  <2>4. \A i \in 1..Len(wire') :
           k < i /\ i < n /\ wire'[i].registration_time = sync'.registrationTime
              => ~Touch(wire'[i].change, x)
    BY <1>1, <1>3, <2>2 DEF Right
  <2>. QED
    BY <1>3, <2>2, <2>3, <2>4 DEF WireFate, Right
<1>. QED
  BY <1>2, <1>3 DEF WireFate

\* The queue stays.
LEMMA FateKept ==
    ASSUME Queue' = Queue, NEW x, NEW k, Fate(x, k), WireFate(x, 0) => WireFate(x, 0)'
    PROVE  Fate(x, k)'
  BY DEF Fate

\* ListedItems for the next state.
LEMMA ItemsListedPrimed ==
    ASSUME LeaderInv'
    PROVE  Items(leader') = {ItemOf(e) : e \in Listed'}
<1>1. LeaderInv' => ItemsListed'
  BY ListedItems, PTL
<1>. QED
  BY <1>1 DEF ItemsListed

\* NothingMeant for the next state.
LEMMA NothingMeantPrimed ==
    ASSUME Quiet', ~sync'.initialized, ~HasRight'
    PROVE  Meant'
<1>1. Quiet' /\ NothingComes' => Meant'
  BY NothingMeant, PTL
<1>. QED
  BY <1>1 DEF NothingComes

\* The announcement of a change: what is added is meant, what is dropped
\* gets the message that removes it.
LEMMA AnnouncedMeant ==
    ASSUME BaseInv, BaseInv', Follows, Alone, CommandState, Quiet, Meant,
           NEW e \in Registrations, NEW m \in MessageType,
           Announces(m), FollowerKept, UNCHANGED incarnation, phase # "down",
           m.map = Listed', m.change = e, m.registration_time = DetailsTime,
           \/ m.change_type = "ADD" /\ Listed' = Listed \cup {e}
                /\ \A f \in Listed : ~Touch(e, f)
           \/ m.change_type = "REMOVE" /\ Listed' = Listed \ {e} /\ e \in Listed
    PROVE  CommandState' /\ Quiet' /\ Meant'
<1>1. UNCHANGED <<heard, commands, sync, attached, local>> /\ Queue' = Queue
  BY DEF FollowerKept, commandVars, queueVars, Queue
<1>2. wire \in Seq(MessageType) /\ attached \in BOOLEAN /\ Len(wire) \in Nat
  BY DEF BaseInv, SysType
<1>3. CommandState' /\ Quiet'
  BY <1>1 DEF CommandState, Quiet
<1>4. CASE ~attached
  <2>1. wire' = <<>> /\ ~sync'.initialized
    BY <1>1, <1>4, AloneIdle DEF Announces
  <2>2. ~HasRight'
    <3>1. Len(wire') = 0
      BY <2>1
    <3>. QED
      BY <3>1 DEF HasRight
  <2>. QED
    BY <1>3, <2>1, <2>2, NothingMeantPrimed
<1>5. CASE attached
  <2>1. wire' = Append(wire, m)
    BY <1>5 DEF Announces
  <2>2. HasRight' <=> HasRight \/ Right(m)
    BY <1>1, <1>2, <2>1, WireGrows
  <2>3. sync.socket = "sub"
    BY <1>5 DEF BaseInv, SocketOK
  <2>4. CaughtUp /\ phase \in Bound /\ sync.registrationTime = DetailsSecs
    BY <2>3, AloneCaughtUp DEF BaseInv, SocketOK
  <2>5. CASE ~Right(m)
    <3>1. phase = "details"
      BY <2>4, <2>5 DEF Right, DetailsTime, DetailsSecs, Bound
    <3>2. ~sync'.initialized /\ ~HasRight'
      BY <1>1, <2>2, <2>4, <2>5, <3>1 DEF Follows
    <3>. QED
      BY <1>3, <3>2, NothingMeantPrimed
  <2>6. CASE Right(m)
    <3>1. /\ Items(leader) = {ItemOf(f) : f \in Listed}
          /\ Items(leader') = {ItemOf(f) : f \in Listed'}
      BY ListedItems, ItemsListedPrimed DEF ItemsListed, BaseInv
    <3>2. ASSUME NEW x \in Items(leader)
          PROVE  \/ x \in Items(leader') /\ ~Touch(m.change, x)
                 \/ m.change_type = "REMOVE" /\ ItemOf(m.change) = x
      <4>1. PICK f \in Listed : x = ItemOf(f)
        BY <3>1
      <4>2. CASE f \in Listed' /\ ~Touch(e, f)
        BY <3>1, <4>1, <4>2, ItemTouch
      <4>3. CASE m.change_type = "REMOVE" /\ f = e
        BY <4>1, <4>3
      <4>4. Clean(Listed)
        BY ListedIn DEF BaseInv
      <4>. QED
        BY <4>2, <4>3, <4>4 DEF Clean
    <3>3. ASSUME NEW x, NEW k \in 0..Len(wire), WireFate(x, k) PROVE WireFate(x, k)'
      BY <1>1, <1>2, <2>1, <2>6, <3>2, <3>3, WireFateGrows
    <3>4. ASSUME NEW x, NEW k, Fate(x, k) PROVE Fate(x, k)'
      <4>1. 0 \in 0..Len(wire)
        BY <1>2
      <4>. QED
        BY <1>1, <3>3, <3>4, <4>1, FateKept
    <3>5. /\ Len(wire') = Len(wire) + 1
          /\ \A k \in 1..Len(wire) : wire'[k] = wire[k] /\ k \in 0..Len(wire)
          /\ wire'[Len(wire) + 1] = m
          /\ \A k \in 1..Len(wire') : k \in 1..Len(wire) \/ k = Len(wire) + 1
      BY <1>2, <2>1
    <3>6. ASSUME NEW k \in 1..Len(wire'), wire'[k].registration_time = sync'.registrationTime
          PROVE  WireMeans(k)'
      <4>1. CASE k \in 1..Len(wire)
        <5>1. WireMeans(k) /\ wire'[k] = wire[k] /\ k \in 0..Len(wire)
          BY <1>1, <3>5, <3>6, <4>1 DEF Meant, Right
        <5>2. First(k)' <=> First(k)
          BY <1>1, <1>2, <3>5, <4>1 DEF First, Right
        <5>. QED
          BY <3>3, <5>1, <5>2 DEF WireMeans
      <4>2. CASE k = Len(wire) + 1
        <5>1. wire'[k] = m
          BY <3>5, <4>2
        <5>2. ASSUME NEW f \in Listed' PROVE WireFate(ItemOf(f), k)'
          <6>1. ItemOf(f) \in Items(leader')
            BY <3>1
          <6>2. Untouched(ItemOf(f), k)'
            BY <1>2, <3>5, <4>2 DEF Untouched
          <6>. QED
            BY <6>1, <6>2 DEF WireFate
        <5>3. m.change_type = "ADD" => m.change \in Listed'
          OBVIOUS
        <5>. QED
          BY <5>1, <5>2, <5>3 DEF WireMeans
      <4>. QED
        BY <3>5, <4>1, <4>2
    <3>7. \A x \in Items(local') : Fate(x, 0)'
      BY <1>1, <3>4 DEF Meant
    <3>8. ASSUME NEW i \in 1..Len(Queue') PROVE QueueMeans(i)'
      BY <1>1, <3>4 DEF Meant, QueueMeans
    <3>. QED
      BY <1>1, <1>3, <3>6, <3>7, <3>8 DEF Meant, Right
  <2>. QED
    BY <2>5, <2>6
<1>. QED
  BY <1>2, <1>4, <1>5

\* The map of the cached message is what the leader lists.
LEMMA AttachMeant ==
    ASSUME BaseInv, Alone, CommandState, Quiet, Attach
    PROVE  CommandState' /\ Quiet' /\ Meant'
<1>1. /\ UNCHANGED <<leaderVars, commandVars, sync, queueVars, local>> /\ Queue' = Queue
      /\ ~attached /\ sync.socket = "sub"
      /\ wire' = wire \o <<cache[1]>> /\ cache[1] \in MessageType /\ cache[1].map = Listed
  BY AttachIs
<1>2. UNCHANGED <<incarnation, leader, heard, commands, sync, local>>
  BY <1>1 DEF leaderVars, commandVars
<1>3. CommandState' /\ Quiet'
  BY <1>1, <1>2 DEF CommandState, Quiet
<1>4. wire = <<>> /\ ~sync.initialized
  BY <1>1, AloneIdle
<1>5. Queue' = <<>> /\ local' = EmptyMaps
  BY <1>1, <1>2, <1>4 DEF Quiet
<1>6. wire' = <<cache[1]>> /\ Len(wire') = 1 /\ wire'[1] = cache[1]
  BY <1>1, <1>4
<1>7. First(1)'
  BY <1>2, <1>4, <1>6 DEF First
<1>8. ASSUME NEW e \in Listed PROVE WireFate(ItemOf(e), 1)'
  <2>1. ItemOf(e) \in Items(leader')
    BY <1>2, ListedItems DEF BaseInv, ItemsListed
  <2>2. Untouched(ItemOf(e), 1)'
    BY <1>6 DEF Untouched
  <2>. QED
    BY <2>1, <2>2 DEF WireFate
<1>9. WireMeans(1)'
  BY <1>1, <1>6, <1>7, <1>8 DEF WireMeans
<1>10. \A k \in 1..Len(wire') : k = 1
  BY <1>6
<1>11. Provided(local') /\ Items(local') = {} /\ Len(Queue') = 0
  BY <1>5, EmptyItems
<1>12. Meant'
  BY <1>9, <1>10, <1>11 DEF Meant
<1>. QED
  BY <1>3, <1>12

\* A message of another registration time means nothing.
LEMMA IgnoreMeant ==
    ASSUME BaseInv, CommandState, Quiet, Meant, IgnoreMessage
    PROVE  CommandState' /\ Quiet' /\ Meant'
<1>1. /\ UNCHANGED <<leaderVars, commandVars, attached, local>> /\ sync' = sync
      /\ Queue' = Queue /\ wire # <<>> /\ wire' = Tail(wire) /\ ~Right(wire[1])
  BY MessageIs DEF Right
<1>2. UNCHANGED <<incarnation, leader, heard, commands, sync, local>>
  BY <1>1 DEF leaderVars, commandVars
<1>3. CommandState' /\ Quiet'
  BY <1>1, <1>2 DEF CommandState, Quiet
<1>4. wire \in Seq(MessageType)
  BY DEF BaseInv, SysType
<1>5. /\ Len(wire) \in Nat /\ Len(wire) >= 1 /\ Len(wire') = Len(wire) - 1
      /\ \A k \in 1..Len(wire') : wire'[k] = wire[k + 1] /\ k + 1 \in 1..Len(wire) /\ k \in Nat
  BY <1>1, <1>4, HeadOnTail
<1>6. ASSUME NEW x, NEW k \in Nat, WireFate(x, k + 1) PROVE WireFate(x, k)'
  BY <1>1, <1>2, <1>4, <1>6, WireFateShrinks
<1>7. ASSUME NEW x, WireFate(x, 0) PROVE WireFate(x, 0)'
  <2>1. WireFate(x, 0 + 1)
    <3>1. \A j \in 1..Len(wire) : Right(wire[j]) => j > 1
      BY <1>1, <1>5
    <3>. QED
      BY <1>5, <1>7, <3>1 DEF WireFate, Untouched
  <2>2. 0 \in Nat
    OBVIOUS
  <2>. QED
    BY <1>6, <2>1, <2>2
<1>8. ASSUME NEW x, NEW k, Fate(x, k) PROVE Fate(x, k)'
  BY <1>1, <1>7, <1>8, FateKept
<1>9. ASSUME NEW k \in 1..Len(wire'), wire'[k].registration_time = sync'.registrationTime
      PROVE  WireMeans(k)'
  <2>1. wire'[k] = wire[k + 1] /\ k + 1 \in 1..Len(wire) /\ k \in Nat
    BY <1>5
  <2>2. WireMeans(k + 1)
    BY <1>1, <1>9, <2>1 DEF Meant, Right
  <2>3. First(k)' <=> First(k + 1)
    BY <1>1, <1>4, FirstShifts
  <2>. QED
    BY <1>6, <2>1, <2>2, <2>3 DEF WireMeans
<1>10. ASSUME NEW i \in 1..Len(Queue') PROVE QueueMeans(i)'
  BY <1>1, <1>8 DEF Meant, QueueMeans
<1>11. \A x \in Items(local') : Fate(x, 0)'
  BY <1>2, <1>8 DEF Meant
<1>. QED
  BY <1>2, <1>3, <1>9, <1>10, <1>11 DEF Meant, Right

\* The requests go to the end of the queue.
LEMMA FateGrows ==
    ASSUME Queue \in Seq(RequestType), NEW q \in Seq(RequestType), Queue' = Queue \o q,
           NEW x, NEW k \in 0..Len(Queue), Fate(x, k),
           WireFate(x, 0) =>
              \/ WireFate(x, 0)' /\ \A i \in 1..Len(q) : ~Touch(q[i].entry, x)
              \/ Len(q) = 1 /\ Removal(q[1], x)
    PROVE  Fate(x, k)'
<1>1. /\ Len(Queue') = Len(Queue) + Len(q) /\ Len(Queue) \in Nat /\ Len(q) \in Nat
      /\ \A i \in 1..Len(Queue) : Queue'[i] = Queue[i] /\ i \in 1..Len(Queue')
      /\ \A i \in 1..Len(q) : Queue'[Len(Queue) + i] = q[i] /\ Len(Queue) + i \in 1..Len(Queue')
      /\ \A i \in 1..Len(Queue') :
            i \in 1..Len(Queue) \/ (i - Len(Queue) \in 1..Len(q) /\ i > Len(Queue)
                                    /\ Queue'[i] = q[i - Len(Queue)])
  BY ConcatIs
<1>2. ASSUME NEW j \in 1..Len(Queue), j > k, Removal(Queue[j], x),
             \A i \in 1..Len(Queue) : k < i /\ i < j => ~Touch(Queue[i].entry, x)
      PROVE  Fate(x, k)'
  <2>1. j \in 1..Len(Queue') /\ Removal(Queue'[j], x)
    BY <1>1, <1>2
  <2>2. \A i \in 1..Len(Queue') : i < j => i \in 1..Len(Queue) /\ Queue'[i] = Queue[i]
    BY <1>1
  <2>3. \A i \in 1..Len(Queue') : k < i /\ i < j => ~Touch(Queue'[i].entry, x)
    BY <1>2, <2>2
  <2>. QED
    BY <1>2, <2>1, <2>3 DEF Fate
<1>3. ASSUME \A j \in 1..Len(Queue) : j > k => ~Touch(Queue[j].entry, x), WireFate(x, 0)',
             \A i \in 1..Len(q) : ~Touch(q[i].entry, x)
      PROVE  Fate(x, k)'
  <2>1. \A j \in 1..Len(Queue') : j > k => ~Touch(Queue'[j].entry, x)
    BY <1>1, <1>3
  <2>. QED
    BY <1>3, <2>1 DEF Fate
<1>4. ASSUME \A j \in 1..Len(Queue) : j > k => ~Touch(Queue[j].entry, x),
             Len(q) = 1, Removal(q[1], x)
      PROVE  Fate(x, k)'
  <2>1. PICK n \in Nat : n = Len(Queue) + 1
    BY <1>1
  <2>2. n \in 1..Len(Queue') /\ n > k /\ Queue'[n] = q[1]
    BY <1>1, <1>4, <2>1
  <2>3. \A i \in 1..Len(Queue') : k < i /\ i < n => ~Touch(Queue'[i].entry, x)
    BY <1>1, <1>4, <2>1
  <2>. QED
    BY <1>4, <2>2, <2>3 DEF Fate
<1>. QED
  BY <1>2, <1>3, <1>4 DEF Fate

\* A message that is taken becomes requests that mean the same.
LEMMA TakeMeant ==
    ASSUME BaseInv, CommandState, Quiet, Meant, TakeMessage
    PROVE  CommandState' /\ Quiet' /\ Meant'
<1>1. /\ UNCHANGED <<leaderVars, commandVars, attached, local>>
      /\ sync'.registrationTime = sync.registrationTime /\ sync'.initialized
      /\ sync'.socket = sync.socket
      /\ Queue' = Queue \o Requests(wire[1], sync.initialized)
      /\ wire # <<>> /\ wire' = Tail(wire) /\ Right(wire[1]) /\ wire[1] \in MessageType
  BY MessageIs DEF Right
<1>2. UNCHANGED <<incarnation, leader, heard, commands, local>>
  BY <1>1 DEF leaderVars, commandVars
<1>3. CommandState' /\ Quiet'
  BY <1>1, <1>2 DEF CommandState, Quiet
<1>4. wire \in Seq(MessageType) /\ sync.initialized \in BOOLEAN /\ Queue \in Seq(RequestType)
  BY QueueIs DEF BaseInv, SysType, DetailsType
<1>5. /\ Len(wire) \in Nat /\ 1 \in 1..Len(wire) /\ Len(wire') = Len(wire) - 1
      /\ \A k \in 1..Len(wire') : wire'[k] = wire[k + 1] /\ k + 1 \in 1..Len(wire) /\ k \in Nat
  BY <1>1, <1>4, HeadOnTail
<1>6. ASSUME NEW x, NEW k \in Nat, WireFate(x, k + 1) PROVE WireFate(x, k)'
  BY <1>1, <1>2, <1>4, <1>6, WireFateShrinks
<1>7. ASSUME NEW x, WireFate(x, 1) PROVE WireFate(x, 0)'
  <2>1. 0 \in Nat /\ WireFate(x, 0 + 1)
    BY <1>7
  <2>. QED
    BY <1>6, <2>1
<1> DEFINE q == Requests(wire[1], sync.initialized)
<1>8. q \in Seq(RequestType) /\ Queue' = Queue \o q
  BY <1>1, <1>4, RequestsIs
<1>9. /\ Len(Queue') = Len(Queue) + Len(q) /\ Len(Queue) \in Nat /\ Len(q) \in Nat
      /\ \A i \in 1..Len(Queue) : Queue'[i] = Queue[i] /\ i \in 0..Len(Queue)
      /\ \A i \in 1..Len(Queue') :
            i \in 1..Len(Queue) \/ (i - Len(Queue) \in 1..Len(q) /\ i > Len(Queue)
                                    /\ Queue'[i] = q[i - Len(Queue)])
  BY <1>4, <1>8, ConcatIs
<1>10. ASSUME NEW k \in 1..Len(wire'), wire'[k].registration_time = sync'.registrationTime
       PROVE  WireMeans(k)'
  <2>1. wire'[k] = wire[k + 1] /\ k + 1 \in 1..Len(wire) /\ k \in Nat
    BY <1>5
  <2>2. WireMeans(k + 1)
    BY <1>1, <1>10, <2>1 DEF Meant, Right
  <2>3. ~First(k + 1)
    <3>1. 1 < k + 1
      OBVIOUS
    <3>. QED
      BY <1>1, <1>5, <3>1 DEF First
  <2>4. ~First(k)'
    BY <1>1 DEF First
  <2>. QED
    BY <1>6, <2>1, <2>2, <2>3, <2>4 DEF WireMeans
<1>11. ASSUME NEW i \in 1..Len(q), q[i].kind = "register",
              \A j \in 1..Len(q) : j > i => ~Touch(q[j].entry, q[i].entry),
              WireFate(ItemOf(q[i].entry), 1),
              NEW n \in 1..Len(Queue'), n = Len(Queue) + i, Queue'[n] = q[i]
       PROVE  QueueMeans(n)'
  <2>1. PICK x : x = ItemOf(q[i].entry)
    OBVIOUS
  <2>2. WireFate(x, 0)'
    BY <1>7, <1>11, <2>1
  <2>3. ASSUME NEW j \in 1..Len(Queue'), j > n PROVE ~Touch(Queue'[j].entry, x)
    <3>1. j \notin 1..Len(Queue)
      BY <1>9, <1>11, <2>3
    <3>2. j - Len(Queue) \in 1..Len(q) /\ Queue'[j] = q[j - Len(Queue)]
      BY <1>9, <3>1
    <3>3. j - Len(Queue) > i
      BY <1>9, <1>11, <2>3
    <3>. QED
      BY <1>11, <2>1, <3>2, <3>3, ItemTouch
  <2>4. Fate(x, n)'
    BY <2>2, <2>3 DEF Fate
  <2>5. x = ItemOf(Queue'[n].entry)
    BY <1>11, <2>1
  <2>. QED
    BY <2>4, <2>5 DEF QueueMeans
<1>12. CASE sync.initialized
  <2>1. ASSUME NEW x, NEW k \in 0..Len(Queue), Fate(x, k) PROVE Fate(x, k)'
    <3>1. ASSUME WireFate(x, 0), ~Touch(wire[1].change, x)
          PROVE  WireFate(x, 0)' /\ \A i \in 1..Len(q) : ~Touch(q[i].entry, x)
      <4>1. WireFate(x, 1)
        <5>1. CASE Untouched(x, 0) /\ x \in Items(leader)
          BY <5>1 DEF WireFate, Untouched
        <5>2. ASSUME NEW j \in 1..Len(wire), j > 0, Right(wire[j]),
                     wire[j].change_type = "REMOVE", ItemOf(wire[j].change) = x,
                     \A i \in 1..Len(wire) :
                        0 < i /\ i < j /\ Right(wire[i]) => ~Touch(wire[i].change, x)
              PROVE  WireFate(x, 1)
          <6>1. j # 1
            <7>1. Touch(wire[j].change, x)
              BY <5>2 DEF Touch, ItemOf, Item
            <7>. QED
              BY <3>1, <7>1
          <6>2. j > 1
            BY <1>5, <5>2, <6>1
          <6>. QED
            BY <1>5, <5>2, <6>2 DEF WireFate
        <5>. QED
          BY <3>1, <5>1, <5>2 DEF WireFate
      <4>2. \A i \in 1..Len(q) : ~Touch(q[i].entry, x)
        BY <1>1, <1>4, <1>12, <3>1, ChangeTouches
      <4>. QED
        BY <1>7, <4>1, <4>2
    <3>2. ASSUME WireFate(x, 0), Touch(wire[1].change, x) PROVE Len(q) = 1 /\ Removal(q[1], x)
      <4>1. ~Untouched(x, 0)
        BY <1>1, <1>5, <3>2 DEF Untouched
      <4>2. PICK j \in 1..Len(wire) :
               /\ j > 0 /\ Right(wire[j])
               /\ wire[j].change_type = "REMOVE" /\ ItemOf(wire[j].change) = x
               /\ \A i \in 1..Len(wire) :
                     0 < i /\ i < j /\ Right(wire[i]) => ~Touch(wire[i].change, x)
        BY <3>2, <4>1 DEF WireFate
      <4>3. j = 1
        BY <1>1, <1>5, <3>2, <4>2
      <4>4. q = <<UnregistrationRequest(wire[1].change.type, wire[1].change,
                                        Secs(wire[1].change.timestamp))>>
        BY <1>1, <1>4, <1>12, <4>2, <4>3, RequestsIs
      <4>5. Len(q) = 1 /\ q[1] = UnregistrationRequest(wire[1].change.type, wire[1].change,
                                        Secs(wire[1].change.timestamp))
        BY <4>4
      <4>6. Removal(q[1], x)
        BY <4>2, <4>3, <4>5 DEF Removal, UnregistrationRequest, Registration, ItemOf, Item
      <4>. QED
        BY <4>5, <4>6
    <3> HIDE DEF q
    <3>. QED
      BY <1>4, <1>8, <2>1, <3>1, <3>2, FateGrows
  <2>2. ASSUME NEW i \in 1..Len(Queue') PROVE QueueMeans(i)'
    <3>1. CASE i \in 1..Len(Queue)
      <4>1. QueueMeans(i) /\ Queue'[i] = Queue[i] /\ i \in 0..Len(Queue)
        BY <1>9, <3>1 DEF Meant
      <4>. QED
        BY <2>1, <4>1 DEF QueueMeans
    <3>2. CASE i - Len(Queue) \in 1..Len(q) /\ Queue'[i] = q[i - Len(Queue)]
      <4>1. CASE wire[1].change_type = "ADD"
        <5>1. q = <<RegisterRequest(wire[1].change)>>
          BY <1>1, <1>4, <1>12, <4>1, RequestsIs
        <5>2. Len(q) = 1 /\ q[1].kind = "register" /\ q[1].entry = wire[1].change
          BY <5>1 DEF RegisterRequest
        <5>3. i - Len(Queue) = 1 /\ i = Len(Queue) + 1 /\ 1 \in 1..Len(q)
              /\ \A j \in 1..Len(q) : ~(j > 1)
          BY <1>9, <3>2, <5>2
        <5>4. WireFate(ItemOf(q[1].entry), 1)
          <6>1. WireMeans(1) /\ ~First(1)
            BY <1>1, <1>5, <1>12 DEF Meant, First
          <6>. QED
            BY <4>1, <5>2, <6>1 DEF WireMeans
        <5> HIDE DEF q
        <5>. QED
          BY <1>11, <3>2, <5>2, <5>3, <5>4
      <4>2. CASE wire[1].change_type = "REMOVE"
        <5>1. q = <<UnregistrationRequest(wire[1].change.type, wire[1].change,
                                          Secs(wire[1].change.timestamp))>>
          BY <1>1, <1>4, <1>12, <4>2, RequestsIs
        <5>2. Len(q) = 1 /\ q[1].kind = "unregister"
          BY <5>1 DEF UnregistrationRequest
        <5>3. i - Len(Queue) = 1
          BY <3>2, <5>2
        <5>. QED
          BY <3>2, <5>2, <5>3 DEF QueueMeans
      <4>. QED
        BY <1>1, <4>1, <4>2 DEF MessageType
    <3>. QED
      BY <1>9, <3>1, <3>2
  <2>3. \A x \in Items(local') : Fate(x, 0)'
    <3>1. 0 \in 0..Len(Queue)
      BY <1>9
    <3>. QED
      BY <1>2, <2>1, <3>1 DEF Meant
  <2>. QED
    BY <1>2, <1>3, <1>10, <2>2, <2>3 DEF Meant, Right
<1>13. CASE ~sync.initialized
  <2>1. Queue = <<>> /\ local = EmptyMaps /\ Len(Queue) = 0
    BY <1>13 DEF Quiet
  <2>2. WireMeans(1) /\ First(1)
    BY <1>1, <1>5, <1>13 DEF Meant, First
  <2>3. ASSUME NEW e \in wire[1].map PROVE WireFate(ItemOf(e), 1)
    BY <2>2 DEF WireMeans
  <2>4. /\ wire[1].map \in SUBSET Registrations /\ IsFiniteSet(wire[1].map)
        /\ Clean(wire[1].map) /\ q = RegistrationRequests(wire[1].map)
    BY <1>1, <1>4, <1>13, RequestsIs DEF MessageType
  <2> HIDE DEF q
  <2>5. /\ \A i \in 1..Len(q) : q[i] = RegisterRequest(q[i].entry) /\ q[i].entry \in wire[1].map
        /\ \A i, j \in 1..Len(q) : q[i].entry = q[j].entry => i = j
    BY <2>4, MapRequests
  <2>6. ASSUME NEW n \in 1..Len(Queue') PROVE QueueMeans(n)'
    <3>1. n \in 1..Len(q) /\ Queue'[n] = q[n] /\ n = Len(Queue) + n
      BY <1>8, <2>1
    <3>2. q[n].kind = "register" /\ q[n].entry \in wire[1].map
      <4>1. \A e : RegisterRequest(e).kind = "register"
        BY DEF RegisterRequest
      <4>. QED
        BY <2>5, <3>1, <4>1
    <3>3. ASSUME NEW j \in 1..Len(q), j > n PROVE ~Touch(q[j].entry, q[n].entry)
      BY <2>4, <2>5, <3>1, <3>3 DEF Clean
    <3>. QED
      BY <1>11, <2>3, <3>1, <3>2, <3>3
  <2>7. Provided(local') /\ Items(local') = {}
    BY <1>2, <2>1, EmptyItems
  <2>. QED
    BY <1>3, <1>10, <2>6, <2>7 DEF Meant, Right
<1>. QED
  BY <1>12, <1>13

\* The entries the response touches are the ones it removes.
LEMMA ResponseMeant ==
    ASSUME BaseInv, Stamped, CommandState, Quiet, Meant, Response
    PROVE  CommandState' /\ Quiet' /\ Meant'
<1>1. /\ Queue # <<>> /\ Queue \in Seq(RequestType) /\ Queue' = Tail(Queue)
      /\ local' = Handled(local, Queue[1])
      /\ UNCHANGED <<leader, incarnation, heard, commands, sync, wire>>
  BY ResponseIs, ResponseBase DEF leaderVars, commandVars, socketVars
<1>2. CommandState' /\ Quiet'
  BY <1>1 DEF CommandState, Quiet
<1>3. /\ Len(Queue) \in Nat /\ 1 \in 1..Len(Queue) /\ Len(Queue') = Len(Queue) - 1
      /\ Queue[1] \in RequestType
      /\ \A i \in 1..Len(Queue') : Queue'[i] = Queue[i + 1] /\ i + 1 \in 1..Len(Queue) /\ i \in Nat
  BY <1>1, HeadOnTail
<1>4. local \in MapsType /\ Provided(local)
  BY DEF BaseInv, SysType, Meant
<1>5. \A x, k : WireFate(x, k)' <=> WireFate(x, k)
  BY <1>1 DEF WireFate, Untouched, Right
<1>6. ASSUME NEW x, NEW k \in Nat, Fate(x, k + 1) PROVE Fate(x, k)'
  <2>1. ASSUME NEW j \in 1..Len(Queue), j > k + 1, Removal(Queue[j], x),
               \A i \in 1..Len(Queue) : k + 1 < i /\ i < j => ~Touch(Queue[i].entry, x)
        PROVE  Fate(x, k)'
    <3>1. PICK n \in Nat : n = j - 1
      BY <1>3, <2>1
    <3>2. n \in 1..Len(Queue') /\ n > k /\ Queue'[n] = Queue[j]
      BY <1>3, <2>1, <3>1
    <3>3. \A i \in 1..Len(Queue') : k < i /\ i < n => ~Touch(Queue'[i].entry, x)
      BY <1>3, <2>1, <3>1
    <3>. QED
      BY <2>1, <3>2, <3>3 DEF Fate
  <2>2. ASSUME \A j \in 1..Len(Queue) : j > k + 1 => ~Touch(Queue[j].entry, x), WireFate(x, 0)
        PROVE  Fate(x, k)'
    <3>1. \A j \in 1..Len(Queue') : j > k => ~Touch(Queue'[j].entry, x)
      BY <1>3, <2>2
    <3>. QED
      BY <1>5, <2>2, <3>1 DEF Fate
  <2>. QED
    BY <1>6, <2>1, <2>2 DEF Fate
<1>7. ASSUME NEW x, Fate(x, 1) PROVE Fate(x, 0)'
  <2>1. 0 \in Nat /\ Fate(x, 0 + 1)
    BY <1>7
  <2>. QED
    BY <1>6, <2>1
<1>8. ASSUME NEW x \in Items(local), Touch(Queue[1].entry, x) PROVE Removal(Queue[1], x)
  <2>1. Fate(x, 0) /\ 1 > 0
    BY DEF Meant
  <2>2. PICK j \in 1..Len(Queue) :
           /\ j > 0 /\ Removal(Queue[j], x)
           /\ \A i \in 1..Len(Queue) : 0 < i /\ i < j => ~Touch(Queue[i].entry, x)
    BY <1>3, <1>8, <2>1 DEF Fate
  <2>3. j = 1
    BY <1>3, <1>8, <2>2
  <2>. QED
    BY <2>2, <2>3
<1>9. Queue[1].kind = "register" => Queue[1].entry.timestamp # 0
  BY <1>3 DEF Stamped, Told, Asked
<1>10. /\ Provided(local')
       /\ \A x \in Items(local') :
             \/ x \in Items(local) /\ ~Touch(Queue[1].entry, x)
             \/ Queue[1].kind = "register" /\ x = ItemOf(Queue[1].entry)
  BY <1>1, <1>3, <1>4, <1>8, <1>9, HandledItems
<1>11. ASSUME NEW x \in Items(local') PROVE Fate(x, 0)'
  <2>1. CASE x \in Items(local) /\ ~Touch(Queue[1].entry, x)
    <3>1. Fate(x, 0)
      BY <2>1 DEF Meant
    <3>2. Fate(x, 1)
      <4>1. CASE (\A j \in 1..Len(Queue) : j > 0 => ~Touch(Queue[j].entry, x)) /\ WireFate(x, 0)
        BY <1>3, <4>1 DEF Fate
      <4>2. ASSUME NEW j \in 1..Len(Queue), j > 0, Removal(Queue[j], x),
                   \A i \in 1..Len(Queue) : 0 < i /\ i < j => ~Touch(Queue[i].entry, x)
            PROVE  Fate(x, 1)
        <5>1. Touch(Queue[j].entry, x)
          BY <4>2 DEF Removal, Touch, Item
        <5>2. j > 1
          BY <1>3, <2>1, <4>2, <5>1
        <5>. QED
          BY <1>3, <4>2, <5>2 DEF Fate
      <4>. QED
        BY <3>1, <4>1, <4>2 DEF Fate
    <3>. QED
      BY <1>7, <3>2
  <2>2. CASE Queue[1].kind = "register" /\ x = ItemOf(Queue[1].entry)
    <3>1. Fate(x, 1)
      BY <1>3, <2>2 DEF Meant, QueueMeans
    <3>. QED
      BY <1>7, <3>1
  <2>. QED
    BY <1>10, <2>1, <2>2
<1>12. ASSUME NEW i \in 1..Len(Queue') PROVE QueueMeans(i)'
  <2>1. Queue'[i] = Queue[i + 1] /\ i \in Nat /\ QueueMeans(i + 1)
    BY <1>3 DEF Meant
  <2>. QED
    BY <1>6, <2>1 DEF QueueMeans
<1>13. ASSUME NEW k \in 1..Len(wire'), wire'[k].registration_time = sync'.registrationTime
       PROVE  WireMeans(k)'
  <2>1. WireMeans(k)
    BY <1>1, <1>13 DEF Meant, Right
  <2>2. First(k)' <=> First(k)
    BY <1>1 DEF First, Right
  <2>. QED
    BY <1>1, <1>5, <2>1, <2>2 DEF WireMeans
<1>. QED
  BY <1>2, <1>10, <1>11, <1>12, <1>13 DEF Meant, Right

\* A step that leaves the follower, its messages and what the leader lists.
LEMMA MeantKept ==
    ASSUME Meant, Queue' = Queue, UNCHANGED <<leader, wire, local>>,
           sync'.registrationTime = sync.registrationTime,
           sync'.initialized = sync.initialized
    PROVE  Meant'
  BY DEF Meant, QueueMeans, WireMeans, Fate, WireFate, Untouched, First, Right

\* Steps of the leader keep AloneOK.
LEMMA LeaderStepAlone ==
    ASSUME BaseInv, Follows, AloneOK, LeaderInv', LeaderStep
    PROVE  AloneOK'
<1> SUFFICES ASSUME Alone' PROVE CommandState' /\ Quiet' /\ Meant'
  BY DEF AloneOK
<1>1. Alone /\ CommandState /\ Quiet /\ Meant /\ BaseInv'
  BY AloneBefore, LeaderStepBase DEF AloneOK
<1>2. UNCHANGED <<heard, commands, sync, local>> /\ Queue' = Queue
  BY DEF LeaderStep, LeaderStarts, LeaderRests, LeaderCrashes, LeaderAdds, LeaderDrops,
         FollowerKept, commandVars, queueVars, Queue
<1>3. Quiet'
  BY <1>1, <1>2 DEF Quiet
<1>4. CASE LeaderStarts
  <2>1. UNCHANGED <<leader, wire>> /\ incarnation = 0
    BY <1>1, <1>4 DEF LeaderStarts, Alone
  <2>2. heard = 0
    BY <2>1 DEF BaseInv, SysType
  <2>3. CommandState'
    BY <1>1, <1>2, <2>2 DEF CommandState
  <2>. QED
    BY <1>1, <1>2, <1>3, <2>1, <2>3, MeantKept
<1>5. CASE LeaderRests
  <2>1. UNCHANGED <<leader, wire, incarnation>>
    BY <1>5 DEF LeaderRests
  <2>2. CommandState'
    BY <1>1, <1>2, <2>1 DEF CommandState
  <2>. QED
    BY <1>1, <1>2, <1>3, <2>1, <2>2, MeantKept
<1>6. CASE LeaderCrashes
  <2>1. incarnation = 0 /\ incarnation' = incarnation /\ wire' = wire
    BY <1>6 DEF LeaderCrashes, Alone
  <2>2. CommandState' /\ sync.socket = "none"
    BY <1>1, <1>2, <2>1 DEF CommandState, BaseInv, SysType
  <2>3. wire' = <<>> /\ ~sync'.initialized
    BY <1>2, <2>1, <2>2 DEF BaseInv, SocketOK
  <2>4. ~HasRight'
    <3>1. Len(wire') = 0
      BY <2>3
    <3>. QED
      BY <3>1 DEF HasRight
  <2>. QED
    BY <1>3, <2>2, <2>3, <2>4, NothingMeantPrimed
<1>7. ASSUME NEW e \in Registrations, LeaderAdds(e) PROVE CommandState' /\ Quiet' /\ Meant'
  <2>1. PICK m \in MessageType :
           /\ Announces(m) /\ m.map = Listed' /\ m.change = e /\ m.change_type = "ADD"
           /\ m.registration_time = DetailsTime
    BY <1>7, NoteIn DEF LeaderAdds, Adds, BaseInv
  <2>2. /\ FollowerKept /\ UNCHANGED incarnation /\ phase # "down"
        /\ Listed' = Listed \cup {e} /\ \A f \in Listed : ~Touch(e, f)
    BY <1>7 DEF LeaderAdds, Adds
  <2>. QED
    BY <1>1, <2>1, <2>2, AnnouncedMeant
<1>8. ASSUME NEW e \in Registrations, LeaderDrops(e) PROVE CommandState' /\ Quiet' /\ Meant'
  <2>1. PICK m \in MessageType :
           /\ Announces(m) /\ m.map = Listed' /\ m.change = e /\ m.change_type = "REMOVE"
           /\ m.registration_time = DetailsTime
    BY <1>8, NoteIn DEF LeaderDrops, Drops, BaseInv
  <2>2. /\ FollowerKept /\ UNCHANGED incarnation /\ phase # "down"
        /\ Listed' = Listed \ {e} /\ e \in Listed
    BY <1>8 DEF LeaderDrops, Drops
  <2>. QED
    BY <1>1, <2>1, <2>2, AnnouncedMeant
<1>. QED
  BY <1>4, <1>5, <1>6, <1>7, <1>8 DEF LeaderStep

\* Steps of the follower keep AloneOK.
LEMMA FollowerStepAlone ==
    ASSUME BaseInv, Stamped, AloneOK, FollowerStep
    PROVE  AloneOK'
<1> SUFFICES ASSUME Alone' PROVE CommandState' /\ Quiet' /\ Meant'
  BY DEF AloneOK
<1>1. Alone /\ CommandState /\ Quiet /\ Meant
  BY AloneBefore DEF AloneOK
<1>2. UNCHANGED <<phase, incarnation, leader>>
  BY FollowerStepBase DEF leaderVars
<1>3. CASE Hear
  <2>1. /\ heard # incarnation /\ phase # "down" /\ heard' = incarnation
        /\ commands' = Append(commands, IF heard = 0 THEN "Add" ELSE "Update")
        /\ UNCHANGED <<sync, wire, local>> /\ Queue' = Queue
    BY <1>3 DEF Hear, socketVars, queueVars, Queue
  <2>2. heard = 0 /\ commands = <<>> /\ sync.socket = "none"
    BY <1>1, <2>1 DEF CommandState
  <2>3. incarnation = 1
    BY <1>1, <2>1, <2>2 DEF Alone
  <2>4. commands' = <<"Add">>
    BY <2>1, <2>2
  <2>5. CommandState'
    BY <1>2, <2>1, <2>2, <2>3, <2>4 DEF CommandState
  <2>. QED
    BY <1>1, <1>2, <2>1, <2>5, MeantKept DEF Quiet
<1>4. ~Miss
  <2>1. removes \in Nat /\ removes' = 0 /\ removes = 0
    BY <1>1, DomainSyncAssumption DEF BaseInv, SysType, Alone
  <2>. QED
    BY <2>1 DEF Miss
<1>5. ~UpdateDomain /\ ~RemoveDomain
  <2>1. commands = <<>> \/ commands = <<"Add">>
    BY <1>1 DEF CommandState
  <2>2. Head(<<"Add">>) = "Add"
    OBVIOUS
  <2>. QED
    BY <2>1, <2>2 DEF UpdateDomain, RemoveDomain
<1>6. CASE AddDomain
  <2>1. /\ Queue' = Queue /\ local' = local /\ commands # <<>> /\ commands' = Tail(commands)
        /\ wire' = <<>> /\ ~sync'.initialized /\ sync'.socket = "lookup"
        /\ sync.socket = "none" /\ heard' = heard
    BY <1>6, LookUpIs
  <2>2. heard = 1 /\ incarnation = 1 /\ commands = <<"Add">> /\ ~sync.initialized
    BY <1>1, <2>1 DEF CommandState, BaseInv, SocketOK
  <2>3. commands' = <<>> /\ Len(wire') = 0
    BY <2>1, <2>2
  <2>4. CommandState' /\ Quiet' /\ ~HasRight'
    BY <1>1, <1>2, <2>1, <2>2, <2>3 DEF CommandState, Quiet, HasRight
  <2>. QED
    BY <2>1, <2>4, NothingMeantPrimed
<1>7. CASE Reply
  <2>1. /\ Queue' = Queue /\ UNCHANGED <<commandVars, wire, local>> /\ wire = <<>>
        /\ ~sync'.initialized /\ ~sync.initialized
        /\ sync'.socket = "sub" /\ sync.socket = "lookup"
    BY <1>7, ReplyIs
  <2>2. Len(wire') = 0
    BY <2>1
  <2>3. CommandState' /\ Quiet' /\ ~HasRight'
    BY <1>1, <1>2, <2>1, <2>2 DEF CommandState, Quiet, HasRight, commandVars
  <2>. QED
    BY <2>1, <2>3, NothingMeantPrimed
<1>8. CASE Lookup \/ EmptyReply
  <2>1. Queue' = Queue /\ UNCHANGED <<commandVars, sync, wire, local>>
    BY <1>8, LookupIs
  <2>2. CommandState' /\ Quiet'
    BY <1>1, <1>2, <2>1 DEF CommandState, Quiet, commandVars
  <2>. QED
    BY <1>1, <1>2, <2>1, <2>2, MeantKept
<1>9. CASE Attach
  BY <1>1, <1>9, AttachMeant
<1>10. CASE IgnoreMessage
  BY <1>1, <1>10, IgnoreMeant
<1>11. CASE TakeMessage
  BY <1>1, <1>11, TakeMeant
<1>12. CASE Response
  BY <1>1, <1>12, ResponseMeant
<1>. QED
  BY <1>3, <1>4, <1>5, <1>6, <1>7, <1>8, <1>9, <1>10, <1>11, <1>12
     DEF FollowerStep, Synchronizer

\* Steps that change nothing keep it.
LEMMA StutterAlone ==
    ASSUME Stamped, AloneOK, UNCHANGED syncVars
    PROVE  Stamped' /\ AloneOK'
<1>1. /\ UNCHANGED <<phase, incarnation, leader, cache, heard, removes, commands, sync, wire,
                     local>>
      /\ Queue' = Queue
  BY DEF syncVars, leaderVars, commandVars, socketVars, queueVars, Queue
<1>2. Stamped'
  BY <1>1 DEF Stamped, Told, Asked, Carried, Shows
<1>3. ASSUME Alone' PROVE CommandState' /\ Quiet' /\ Meant'
  <2>1. CommandState /\ Quiet /\ Meant
    BY <1>1, <1>3 DEF AloneOK, Alone
  <2>. QED
    BY <1>1, <2>1, MeantKept DEF CommandState, Quiet
<1>. QED
  BY <1>2, <1>3 DEF AloneOK

\* The first state has it.
LEMMA InitAlone ==
    ASSUME SyncInit
    PROVE  AloneOK
<1>1. /\ heard = 0 /\ commands = <<>> /\ sync.socket = "none" /\ ~sync.initialized
      /\ Queue = <<>> /\ local = EmptyMaps /\ Len(wire) = 0
  BY DEF SyncInit, NoDetails, Queue
<1>. QED
  BY <1>1, NothingMeant DEF AloneOK, CommandState, Quiet, NothingComes, HasRight

\* The inductive invariant of the next theorem.
ExactInv == FollowInv /\ Stamped /\ AloneOK

\* Every reachable state has it.
LEMMA ExactInvHolds ==
    ASSUME Orderly
    PROVE  SyncSpec => []ExactInv
<1>1. SyncInit => ExactInv
  BY InitBase, InitLatest, InitFollows, InitStamped, InitAlone DEF ExactInv, FollowInv
<1>2. ASSUME FollowInv, FollowInv', Stamped, AloneOK, [SyncNext]_syncVars
      PROVE  Stamped' /\ AloneOK'
  <2>1. CASE SyncNext
    <3>1. (LeaderInv' /\ LeaderStep) \/ FollowerStep
      BY <1>2, <2>1, NextIs DEF FollowInv
    <3>2. Stamped'
      BY <1>2, <3>1, StepStamped DEF FollowInv
    <3>3. AloneOK'
      BY <1>2, <3>1, LeaderStepAlone, FollowerStepAlone DEF FollowInv
    <3>. QED
      BY <3>2, <3>3
  <2>2. CASE UNCHANGED syncVars
    BY <1>2, <2>2, StutterAlone
  <2>. QED
    BY <1>2, <2>1, <2>2
<1>. QED
  BY <1>1, <1>2, FollowInvHolds, PTL DEF SyncSpec, ExactInv

\* The follower lists no other entry once nothing is on its way.
LEMMA SettledExact ==
    ASSUME ExactInv, Settled, incarnation = 1, removes = 0
    PROVE  Listing(leader) = Listing(local)
<1>1. Alone /\ Len(wire) = 0 /\ Len(Queue) = 0
  <2>1. Queue = <<>> /\ wire = <<>> /\ phase = "ready"
    BY DEF Settled, Queue
  <2>. QED
    BY <2>1 DEF Alone
<1>2. ASSUME NEW x \in Items(local) PROVE x \in Items(leader)
  <2>1. Fate(x, 0)
    BY <1>1 DEF ExactInv, AloneOK, Meant
  <2>. QED
    BY <1>1, <2>1 DEF Fate, WireFate
<1>3. leader \in MapsType /\ local \in MapsType
  BY DEF ExactInv, FollowInv, BaseInv, LeaderInv, LeaderMaps, SysType
<1>4. \A maps \in MapsType : \A p \in maps.data : p = Publisher(p.id, p.url, p.registration_time)
  BY DEF MapsType, PublisherType, Publisher
<1>5. /\ \A p : DataItem(p).type = "DATA" /\ DataItem(p).id = p.id /\ DataItem(p).url = p.url
                /\ DataItem(p).secs = p.registration_time
      /\ \A maps, t :
            /\ ServiceItem(maps, t).type = "SERVICE" /\ ServiceItem(maps, t).id = t
            /\ ServiceItem(maps, t).url = maps.service[t]
            /\ ServiceItem(maps, t).secs = Secs(maps.instance[maps.service[t]])
  BY DEF DataItem, ServiceItem, Item
<1>6. ASSUME NEW p \in local.data PROVE p \in leader.data
  <2>1. DataItem(p) \in Items(leader)
    BY <1>2 DEF Items
  <2>2. PICK r \in leader.data : DataItem(p) = DataItem(r)
    BY <1>5, <2>1 DEF Items
  <2>3. p = r
    BY <1>3, <1>4, <1>5, <2>2
  <2>. QED
    BY <2>3
<1>7. ASSUME NEW t \in AllServices, local.service[t] # NoUrl
      PROVE  /\ leader.service[t] = local.service[t]
             /\ Secs(leader.instance[leader.service[t]]) = Secs(local.instance[local.service[t]])
  <2>1. ServiceItem(local, t) \in Items(leader)
    BY <1>2, <1>7 DEF Items
  <2>2. PICK r \in AllServices : ServiceItem(local, t) = ServiceItem(leader, r)
    BY <1>5, <2>1 DEF Items
  <2>. QED
    BY <1>5, <2>2
<1>8. HasAll
  BY SettledHasAll DEF ExactInv
<1>9. leader.data = local.data
  BY <1>6, <1>8 DEF HasAll, Listing
<1>10. Listing(leader)[2] = Listing(local)[2]
  <2>1. Listing(leader)[2] \subseteq Listing(local)[2]
    BY <1>8 DEF HasAll
  <2>2. Listing(local)[2] \subseteq Listing(leader)[2]
    BY <1>7 DEF Listing
  <2>. QED
    BY <2>1, <2>2
<1>. QED
  BY <1>9, <1>10 DEF Listing

\* As long as the leader has not restarted and the domain was not removed, a
\* follower that has handled everything lists exactly what the leader lists.
THEOREM SettledFollowerIsExactHolds ==
    ASSUME Orderly
    PROVE  SyncSpec => []SettledFollowerIsExact
<1>1. ExactInv => SettledFollowerIsExact
  BY SettledExact DEF SettledFollowerIsExact
<1>. QED
  BY <1>1, ExactInvHolds, PTL
=============================================================================
