------------------------- MODULE MachineConfigProofs -------------------------
(***************************************************************************)
(* What the rewriting of a machine configuration does to every stream of   *)
(* documents, every install disk and every list of addresses: Rewrite      *)
(* keeps what Rewritten promises.  The loops over the addresses are        *)
(* reasoned about by induction on the number of addresses done.            *)
(***************************************************************************)
EXTENDS MachineConfig, DataInduction

-----------------------------------------------------------------------------
(* One list of SANs.                                                       *)

\* The list new has old as a prefix, the addresses of E besides, and lists
\* none of the latter twice or in vain.
Grown(old, new, E) ==
  /\ new \in Seq(Text) /\ Len(old) <= Len(new)
  /\ \A i \in 1..Len(old) : new[i] = old[i]
  /\ \A i \in (Len(old) + 1)..Len(new) : new[i] \in E
  /\ \A e \in E : \E i \in 1..Len(new) : new[i] = e
  /\ \A i, j \in (Len(old) + 1)..Len(new) : new[i] = new[j] => i = j
  /\ \A i \in (Len(old) + 1)..Len(new), j \in 1..Len(old) : old[j] # new[i]

\* A list that nothing was added to has grown by nothing.
LEMMA GrownByNothing ==
  ASSUME NEW old \in Seq(Text)
  PROVE  Grown(old, old, {})
  BY DEF Grown

\* containsStringAny and append extend a list by one address.
LEMMA AppendGrows ==
  ASSUME NEW old \in Seq(Text), NEW new, NEW E, Grown(old, new, E), NEW ip \in Text
  PROVE  Grown(old, AppendSAN(new, ip), E \cup {ip})
<1> DEFINE L == Len(new)
<1>1. new \in Seq(Text) /\ L \in Nat /\ Len(old) \in Nat /\ Len(old) <= L
  BY DEF Grown
<1>2. CASE Contains(new, ip)
  <2>1. AppendSAN(new, ip) = new /\ \E i \in 1..Len(new) : new[i] = ip
    BY <1>2 DEF AppendSAN, Contains
  <2> QED
    BY <2>1 DEF Grown
<1>3. CASE ~Contains(new, ip)
  <2> DEFINE s == Append(new, ip)
  <2>1. AppendSAN(new, ip) = s
    BY <1>3 DEF AppendSAN
  <2>2. \A i \in 1..L : new[i] # ip
    BY <1>3 DEF Contains
  <2>3. s \in Seq(Text) /\ Len(s) = L + 1 /\ s[L + 1] = ip /\ \A i \in 1..L : s[i] = new[i]
    BY <1>1
  <2> HIDE DEF s, L
  <2>4. \A i \in 1..Len(s) : i \in 1..L \/ i = L + 1
    BY <1>1, <2>3
  <2>5. /\ Len(old) <= Len(s) /\ 1..Len(old) \subseteq 1..L
        /\ (Len(old) + 1)..Len(s) \subseteq 1..Len(s)
        /\ \A i \in (Len(old) + 1)..Len(s) : i \in (Len(old) + 1)..L \/ i = L + 1
        /\ (Len(old) + 1)..L \subseteq 1..L
        /\ 1..L \subseteq 1..Len(s) /\ L + 1 \in 1..Len(s)
    BY <1>1, <2>3
  <2>6. \A i \in 1..Len(old) : s[i] = old[i]
    BY <2>3, <2>5 DEF Grown
  <2>7. \A i \in (Len(old) + 1)..Len(s) : s[i] \in E \cup {ip}
    BY <2>3, <2>5 DEF Grown, L
  <2>8. \A e \in E \cup {ip} : \E i \in 1..Len(s) : s[i] = e
    BY <2>3, <2>5 DEF Grown, L
  <2>9. ASSUME NEW i \in (Len(old) + 1)..Len(s), NEW j \in (Len(old) + 1)..Len(s), s[i] = s[j]
        PROVE  i = j
    <3>1. CASE i = L + 1 /\ j # L + 1
      BY <2>2, <2>3, <2>5, <2>9, <3>1
    <3>2. CASE j = L + 1 /\ i # L + 1
      BY <2>2, <2>3, <2>5, <2>9, <3>2
    <3>3. CASE i # L + 1 /\ j # L + 1
      <4>1. i \in (Len(old) + 1)..L /\ j \in (Len(old) + 1)..L /\ new[i] = new[j]
        BY <2>3, <2>5, <2>9, <3>3
      <4> QED
        BY <4>1 DEF Grown, L
    <3> QED
      BY <3>1, <3>2, <3>3
  <2>10. ASSUME NEW i \in (Len(old) + 1)..Len(s), NEW j \in 1..Len(old)
         PROVE  old[j] # s[i]
    BY <2>2, <2>3, <2>5 DEF Grown, L
  <2> QED
    BY <2>1, <2>3, <2>5, <2>6, <2>7, <2>8, <2>9, <2>10 DEF Grown
<1> QED
  BY <1>2, <1>3

\* A list that has grown by the endpoints is extended by them as promised.
LEMMA GrownIsExtended ==
  ASSUME NEW old \in Seq(Text), NEW new, NEW endpoints \in Seq(Text),
         Grown(old, new, {endpoints[i] : i \in 1..Len(endpoints)})
  PROVE  SANsExtended(old, new, endpoints)
<1>1. new \in Seq(Text) /\ Len(old) \in Nat /\ Len(new) \in Nat /\ Len(old) <= Len(new)
  BY DEF Grown
<1>2. IsPrefix(old, new)
  <2>1. SubSeq(old, 1, Len(old)) = [i \in 1..Len(old) |-> old[i]]
    BY <1>1
  <2>2. SubSeq(new, 1, Len(old)) = [i \in 1..Len(old) |-> new[i]]
    BY <1>1
  <2> QED
    BY <1>1, <2>1, <2>2 DEF IsPrefix, Grown
<1>3. ToSet(new) = ToSet(old) \cup ToSet(endpoints)
  <2>1. /\ ToSet(new) = {new[i] : i \in 1..Len(new)}
        /\ ToSet(old) = {old[i] : i \in 1..Len(old)}
        /\ ToSet(endpoints) = {endpoints[i] : i \in 1..Len(endpoints)}
    BY <1>1 DEF ToSet
  <2>2. ASSUME NEW i \in 1..Len(new)
        PROVE  new[i] \in ToSet(old) \cup ToSet(endpoints)
    <3>1. i \in 1..Len(old) \/ i \in (Len(old) + 1)..Len(new)
      BY <1>1
    <3> QED
      BY <2>1, <3>1 DEF Grown
  <2>3. ASSUME NEW i \in 1..Len(old)
        PROVE  old[i] \in ToSet(new)
    <3>1. i \in 1..Len(new)
      BY <1>1
    <3> QED
      BY <2>1, <3>1 DEF Grown
  <2>4. ASSUME NEW i \in 1..Len(endpoints)
        PROVE  endpoints[i] \in ToSet(new)
    <3> DEFINE E == {endpoints[k] : k \in 1..Len(endpoints)}
    <3>1. endpoints[i] \in E
      OBVIOUS
    <3> HIDE DEF E
    <3>2. PICK k \in 1..Len(new) : new[k] = endpoints[i]
      BY <3>1 DEF Grown, E
    <3> QED
      BY <2>1, <3>2
  <2> QED
    BY <2>1, <2>2, <2>3, <2>4
<1>4. \A i \in (Len(old) + 1)..Len(new) : ~Contains(old, new[i])
  BY DEF Grown, Contains
<1> QED
  BY <1>2, <1>3, <1>4 DEF SANsExtended, Grown

-----------------------------------------------------------------------------
(* The streams of documents.                                               *)

\* Documents whose install disk is one of D.
Documents(D) ==
  [machine: BOOLEAN, cluster: BOOLEAN, disk: D, diskSelector: BOOLEAN,
   certSANs: Seq(Text), apiSANs: Seq(Text), payload: Text]

\* What both loops leave alone.
SameDocument(old, new) ==
  /\ new.machine = old.machine /\ new.cluster = old.cluster /\ new.disk = old.disk
  /\ new.diskSelector = old.diskSelector /\ new.payload = old.payload

\* A stream after the addresses of E were added to machine.certSANs.
CertsGrown(docs, new, D, E) ==
  /\ new \in [DOMAIN docs -> Documents(D)]
  /\ \A i \in DOMAIN docs :
       /\ SameDocument(docs[i], new[i]) /\ new[i].apiSANs = docs[i].apiSANs
       /\ docs[i].machine => Grown(docs[i].certSANs, new[i].certSANs, E)
       /\ ~docs[i].machine => new[i].certSANs = docs[i].certSANs

\* setCertSANs adds one address to the list of every document with a machine
\* section.
LEMMA CertsGrow ==
  ASSUME NEW D, NEW docs, NEW I, docs \in [I -> Documents(D)], NEW x, NEW E,
         CertsGrown(docs, x, D, E), NEW ip \in Text
  PROVE  CertsGrown(docs, setCertSANs(x, ip), D, E \cup {ip})
<1> DEFINE y == setCertSANs(x, ip)
<1>1. DOMAIN docs = I /\ x \in [I -> Documents(D)] /\ DOMAIN x = I
  BY DEF CertsGrown
<1>2. DOMAIN y = I /\ y = [i \in I |-> y[i]]
  BY <1>1 DEF setCertSANs
<1>3. ASSUME NEW i \in I
      PROVE  /\ y[i] \in Documents(D)
             /\ SameDocument(docs[i], y[i]) /\ y[i].apiSANs = docs[i].apiSANs
             /\ docs[i].machine => Grown(docs[i].certSANs, y[i].certSANs, E \cup {ip})
             /\ ~docs[i].machine => y[i].certSANs = docs[i].certSANs
  <2>1. x[i] \in Documents(D) /\ docs[i] \in Documents(D)
    BY <1>1
  <2>2. /\ SameDocument(docs[i], x[i]) /\ x[i].apiSANs = docs[i].apiSANs
        /\ docs[i].machine => Grown(docs[i].certSANs, x[i].certSANs, E)
        /\ ~docs[i].machine => x[i].certSANs = docs[i].certSANs
    BY <1>1 DEF CertsGrown
  <2>3. CASE ~docs[i].machine
    <3>1. ~x[i].machine
      BY <2>2, <2>3 DEF SameDocument
    <3>2. y[i] = x[i]
      BY <1>1, <3>1 DEF setCertSANs
    <3> QED
      BY <2>1, <2>2, <2>3, <3>2
  <2>4. CASE docs[i].machine
    <3> DEFINE sans == AppendSAN(x[i].certSANs, ip)
    <3>1. x[i].machine
      BY <2>2, <2>4 DEF SameDocument
    <3>2. y[i] = [x[i] EXCEPT !.certSANs = sans]
      BY <1>1, <3>1 DEF setCertSANs
    <3>3. docs[i].certSANs \in Seq(Text)
      BY <2>1 DEF Documents
    <3>4. Grown(docs[i].certSANs, sans, E \cup {ip})
      BY <2>2, <2>4, <3>3, AppendGrows
    <3>5. sans \in Seq(Text)
      BY <3>4 DEF Grown
    <3> HIDE DEF sans, y
    <3>6. y[i] \in Documents(D) /\ y[i].certSANs = sans /\ y[i].apiSANs = x[i].apiSANs
      BY <2>1, <3>2, <3>5 DEF Documents
    <3>7. SameDocument(x[i], y[i])
      BY <2>1, <3>2 DEF Documents, SameDocument
    <3>8. SameDocument(docs[i], y[i])
      BY <2>2, <3>7 DEF SameDocument
    <3> QED
      BY <2>2, <2>4, <3>4, <3>6, <3>8
  <2> QED
    BY <2>3, <2>4
<1> HIDE DEF y
<1>4. y \in [DOMAIN docs -> Documents(D)]
  BY <1>1, <1>2, <1>3
<1>5. CertsGrown(docs, y, D, E \cup {ip})
  BY <1>1, <1>3, <1>4 DEF CertsGrown
<1> QED
  BY <1>5 DEF y

\* A stream nothing was added to.
LEMMA CertsUngrown ==
  ASSUME NEW D, NEW I, NEW docs \in [I -> Documents(D)]
  PROVE  CertsGrown(docs, docs, D, {})
<1>1. ASSUME NEW i \in I
      PROVE  Grown(docs[i].certSANs, docs[i].certSANs, {})
  <2>1. docs[i].certSANs \in Seq(Text)
    BY DEF Documents
  <2> QED
    BY <2>1, GrownByNothing
<1> QED
  BY <1>1 DEF CertsGrown, SameDocument

\* The loop of injectCertSANs adds all the addresses: by induction on how many
\* of them are done.
LEMMA CertsInjected ==
  ASSUME NEW D, NEW I, NEW docs \in [I -> Documents(D)], NEW ips \in Seq(Text)
  PROVE  CertsGrown(docs, injectCertSANs(docs, ips), D, {ips[k] : k \in 1..Len(ips)})
<1> DEFINE N == Len(ips)
           S == [I -> Documents(D)]
           F == [n \in 1..N |-> [x \in S |-> setCertSANs(x, ips[n])]]
           Loop(g) == [n \in 0..N |-> IF n = 0 THEN docs ELSE setCertSANs(g[n - 1], ips[n])]
           done == CHOOSE g : g = Loop(g)
           E(n) == {ips[k] : k \in 1..n}
           T == {n \in 0..N : CertsGrown(docs, done[n], D, E(n))}
<1>1. N \in Nat /\ \A n \in 1..N : ips[n] \in Text
  OBVIOUS
<1>2. injectCertSANs(docs, ips) = done[N]
  BY Zenon DEF injectCertSANs
<1>3. ASSUME NEW x \in S, NEW ip \in Text
      PROVE  setCertSANs(x, ip) \in S
  <2>1. CertsGrown(x, x, D, {})
    BY CertsUngrown
  <2>2. CertsGrown(x, setCertSANs(x, ip), D, {} \cup {ip})
    BY <2>1, CertsGrow
  <2> QED
    BY <2>2 DEF CertsGrown
<1>4. F \in [1..N -> [S -> S]]
  BY <1>1, <1>3
<1>5. \E f : f = Loop(f)
  <2> HIDE DEF F
  <2>1. PICK f \in [0..N -> S] : IsRun(f, N, docs, F)
    BY <1>1, <1>4, LoopRuns
  <2>2. ASSUME NEW n \in 0..N
        PROVE  f[n] = IF n = 0 THEN docs ELSE setCertSANs(f[n - 1], ips[n])
    <3>1. CASE n = 0
      BY <2>1, <3>1 DEF IsRun
    <3>2. CASE n # 0
      <4>1. n \in 1..N /\ f[n - 1] \in S
        BY <1>1, <3>2
      <4>2. f[n] = F[n][f[n - 1]]
        BY <2>1, <4>1 DEF IsRun
      <4> QED
        BY <3>2, <4>1, <4>2 DEF F
    <3> QED
      BY <3>1, <3>2
  <2>3. f = Loop(f)
    BY <2>2
  <2> QED
    BY <2>3
<1>6. done = Loop(done)
  BY <1>5
<1> HIDE DEF done
<1>7. 0 \in T
  <2>1. done[0] = docs
    BY <1>1, <1>6
  <2>2. E(0) = {}
    OBVIOUS
  <2> HIDE DEF E
  <2>3. CertsGrown(docs, done[0], D, E(0))
    BY <2>1, <2>2, CertsUngrown
  <2> QED
    BY <1>1, <2>3
<1>8. ASSUME NEW n \in 1..N, n - 1 \in T
      PROVE  n \in T
  <2>1. done[n] = setCertSANs(done[n - 1], ips[n])
    BY <1>1, <1>6
  <2>2. E(n) = E(n - 1) \cup {ips[n]}
    BY <1>1
  <2>3. CertsGrown(docs, done[n - 1], D, E(n - 1))
    BY <1>8
  <2> HIDE DEF E
  <2>4. CertsGrown(docs, done[n], D, E(n))
    BY <1>1, <2>1, <2>2, <2>3, CertsGrow
  <2> QED
    BY <1>1, <2>4
<1> HIDE DEF T
<1>9. 0..N \subseteq T
  BY <1>1, <1>7, <1>8, BoundedInduction
<1>10. N \in T
  BY <1>1, <1>9
<1> QED
  BY <1>2, <1>10 DEF T

\* A stream after the addresses of E were added to cluster.apiServer.certSANs.
APIGrown(docs, new, D, E) ==
  /\ new \in [DOMAIN docs -> Documents(D)]
  /\ \A i \in DOMAIN docs :
       /\ SameDocument(docs[i], new[i]) /\ new[i].certSANs = docs[i].certSANs
       /\ docs[i].cluster => Grown(docs[i].apiSANs, new[i].apiSANs, E)
       /\ ~docs[i].cluster => new[i].apiSANs = docs[i].apiSANs

\* setClusterAPIServerCertSANs adds one address to the list of every document
\* with a cluster section.
LEMMA APIGrow ==
  ASSUME NEW D, NEW docs, NEW I, docs \in [I -> Documents(D)], NEW x, NEW E,
         APIGrown(docs, x, D, E), NEW ip \in Text
  PROVE  APIGrown(docs, setClusterAPIServerCertSANs(x, ip), D, E \cup {ip})
<1> DEFINE y == setClusterAPIServerCertSANs(x, ip)
<1>1. DOMAIN docs = I /\ x \in [I -> Documents(D)] /\ DOMAIN x = I
  BY DEF APIGrown
<1>2. DOMAIN y = I /\ y = [i \in I |-> y[i]]
  BY <1>1 DEF setClusterAPIServerCertSANs
<1>3. ASSUME NEW i \in I
      PROVE  /\ y[i] \in Documents(D)
             /\ SameDocument(docs[i], y[i]) /\ y[i].certSANs = docs[i].certSANs
             /\ docs[i].cluster => Grown(docs[i].apiSANs, y[i].apiSANs, E \cup {ip})
             /\ ~docs[i].cluster => y[i].apiSANs = docs[i].apiSANs
  <2>1. x[i] \in Documents(D) /\ docs[i] \in Documents(D)
    BY <1>1
  <2>2. /\ SameDocument(docs[i], x[i]) /\ x[i].certSANs = docs[i].certSANs
        /\ docs[i].cluster => Grown(docs[i].apiSANs, x[i].apiSANs, E)
        /\ ~docs[i].cluster => x[i].apiSANs = docs[i].apiSANs
    BY <1>1 DEF APIGrown
  <2>3. CASE ~docs[i].cluster
    <3>1. ~x[i].cluster
      BY <2>2, <2>3 DEF SameDocument
    <3>2. y[i] = x[i]
      BY <1>1, <3>1 DEF setClusterAPIServerCertSANs
    <3> QED
      BY <2>1, <2>2, <2>3, <3>2
  <2>4. CASE docs[i].cluster
    <3> DEFINE sans == AppendSAN(x[i].apiSANs, ip)
    <3>1. x[i].cluster
      BY <2>2, <2>4 DEF SameDocument
    <3>2. y[i] = [x[i] EXCEPT !.apiSANs = sans]
      BY <1>1, <3>1 DEF setClusterAPIServerCertSANs
    <3>3. docs[i].apiSANs \in Seq(Text)
      BY <2>1 DEF Documents
    <3>4. Grown(docs[i].apiSANs, sans, E \cup {ip})
      BY <2>2, <2>4, <3>3, AppendGrows
    <3>5. sans \in Seq(Text)
      BY <3>4 DEF Grown
    <3> HIDE DEF sans, y
    <3>6. y[i] \in Documents(D) /\ y[i].apiSANs = sans /\ y[i].certSANs = x[i].certSANs
      BY <2>1, <3>2, <3>5 DEF Documents
    <3>7. SameDocument(x[i], y[i])
      BY <2>1, <3>2 DEF Documents, SameDocument
    <3>8. SameDocument(docs[i], y[i])
      BY <2>2, <3>7 DEF SameDocument
    <3> QED
      BY <2>2, <2>4, <3>4, <3>6, <3>8
  <2> QED
    BY <2>3, <2>4
<1> HIDE DEF y
<1>4. y \in [DOMAIN docs -> Documents(D)]
  BY <1>1, <1>2, <1>3
<1>5. APIGrown(docs, y, D, E \cup {ip})
  BY <1>1, <1>3, <1>4 DEF APIGrown
<1> QED
  BY <1>5 DEF y

\* A stream nothing was added to.
LEMMA APIUngrown ==
  ASSUME NEW D, NEW I, NEW docs \in [I -> Documents(D)]
  PROVE  APIGrown(docs, docs, D, {})
<1>1. ASSUME NEW i \in I
      PROVE  Grown(docs[i].apiSANs, docs[i].apiSANs, {})
  <2>1. docs[i].apiSANs \in Seq(Text)
    BY DEF Documents
  <2> QED
    BY <2>1, GrownByNothing
<1> QED
  BY <1>1 DEF APIGrown, SameDocument

\* The loop of injectClusterAPIServerCertSANs adds all the addresses: by induction on how many
\* of them are done.
LEMMA APIInjected ==
  ASSUME NEW D, NEW I, NEW docs \in [I -> Documents(D)], NEW ips \in Seq(Text)
  PROVE  APIGrown(docs, injectClusterAPIServerCertSANs(docs, ips), D, {ips[k] : k \in 1..Len(ips)})
<1> DEFINE N == Len(ips)
           S == [I -> Documents(D)]
           F == [n \in 1..N |-> [x \in S |-> setClusterAPIServerCertSANs(x, ips[n])]]
           Loop(g) == [n \in 0..N |-> IF n = 0 THEN docs
                                      ELSE setClusterAPIServerCertSANs(g[n - 1], ips[n])]
           done == CHOOSE g : g = Loop(g)
           E(n) == {ips[k] : k \in 1..n}
           T == {n \in 0..N : APIGrown(docs, done[n], D, E(n))}
<1>1. N \in Nat /\ \A n \in 1..N : ips[n] \in Text
  OBVIOUS
<1>2. injectClusterAPIServerCertSANs(docs, ips) = done[N]
  BY Zenon DEF injectClusterAPIServerCertSANs
<1>3. ASSUME NEW x \in S, NEW ip \in Text
      PROVE  setClusterAPIServerCertSANs(x, ip) \in S
  <2>1. APIGrown(x, x, D, {})
    BY APIUngrown
  <2>2. APIGrown(x, setClusterAPIServerCertSANs(x, ip), D, {} \cup {ip})
    BY <2>1, APIGrow
  <2> QED
    BY <2>2 DEF APIGrown
<1>4. F \in [1..N -> [S -> S]]
  BY <1>1, <1>3
<1>5. \E f : f = Loop(f)
  <2> HIDE DEF F
  <2>1. PICK f \in [0..N -> S] : IsRun(f, N, docs, F)
    BY <1>1, <1>4, LoopRuns
  <2>2. ASSUME NEW n \in 0..N
        PROVE  f[n] = IF n = 0 THEN docs ELSE setClusterAPIServerCertSANs(f[n - 1], ips[n])
    <3>1. CASE n = 0
      BY <2>1, <3>1 DEF IsRun
    <3>2. CASE n # 0
      <4>1. n \in 1..N /\ f[n - 1] \in S
        BY <1>1, <3>2
      <4>2. f[n] = F[n][f[n - 1]]
        BY <2>1, <4>1 DEF IsRun
      <4> QED
        BY <3>2, <4>1, <4>2 DEF F
    <3> QED
      BY <3>1, <3>2
  <2>3. f = Loop(f)
    BY <2>2
  <2> QED
    BY <2>3
<1>6. done = Loop(done)
  BY <1>5
<1> HIDE DEF done
<1>7. 0 \in T
  <2>1. done[0] = docs
    BY <1>1, <1>6
  <2>2. E(0) = {}
    OBVIOUS
  <2> HIDE DEF E
  <2>3. APIGrown(docs, done[0], D, E(0))
    BY <2>1, <2>2, APIUngrown
  <2> QED
    BY <1>1, <2>3
<1>8. ASSUME NEW n \in 1..N, n - 1 \in T
      PROVE  n \in T
  <2>1. done[n] = setClusterAPIServerCertSANs(done[n - 1], ips[n])
    BY <1>1, <1>6
  <2>2. E(n) = E(n - 1) \cup {ips[n]}
    BY <1>1
  <2>3. APIGrown(docs, done[n - 1], D, E(n - 1))
    BY <1>8
  <2> HIDE DEF E
  <2>4. APIGrown(docs, done[n], D, E(n))
    BY <1>1, <2>1, <2>2, <2>3, APIGrow
  <2> QED
    BY <1>1, <2>4
<1> HIDE DEF T
<1>9. 0..N \subseteq T
  BY <1>1, <1>7, <1>8, BoundedInduction
<1>10. N \in T
  BY <1>1, <1>9
<1> QED
  BY <1>2, <1>10 DEF T

\* setInstallDisk keeps everything but the disk, and that where an operator chose
\* one.
LEMMA DiskIsSet ==
  ASSUME NEW D, NEW I, NEW docs \in [I -> Documents(D)], NEW disk \in D
  PROVE  /\ setInstallDisk(docs, disk) \in [I -> Documents(D)]
         /\ \A i \in I :
              LET old == docs[i]
                  new == setInstallDisk(docs, disk)[i]
              IN  /\ new.machine = old.machine /\ new.cluster = old.cluster
                  /\ new.diskSelector = old.diskSelector /\ new.payload = old.payload
                  /\ new.certSANs = old.certSANs /\ new.apiSANs = old.apiSANs
                  /\ new.disk = IF old.machine /\ old.disk = NoDisk /\ ~old.diskSelector
                                  THEN disk ELSE old.disk
<1> DEFINE y == setInstallDisk(docs, disk)
<1>1. DOMAIN y = I /\ y = [i \in I |-> y[i]]
  BY DEF setInstallDisk
<1>2. ASSUME NEW i \in I
      PROVE  /\ y[i] \in Documents(D)
             /\ y[i].machine = docs[i].machine /\ y[i].cluster = docs[i].cluster
             /\ y[i].diskSelector = docs[i].diskSelector /\ y[i].payload = docs[i].payload
             /\ y[i].certSANs = docs[i].certSANs /\ y[i].apiSANs = docs[i].apiSANs
             /\ y[i].disk = IF docs[i].machine /\ docs[i].disk = NoDisk /\ ~docs[i].diskSelector
                              THEN disk ELSE docs[i].disk
  <2>1. docs[i] \in Documents(D)
    OBVIOUS
  <2>2. CASE docs[i].machine /\ docs[i].disk = NoDisk /\ ~docs[i].diskSelector
    <3>1. y[i] = [docs[i] EXCEPT !.disk = disk]
      BY <2>2 DEF setInstallDisk
    <3> HIDE DEF y
    <3> QED
      BY <2>1, <2>2, <3>1 DEF Documents
  <2>3. CASE ~(docs[i].machine /\ docs[i].disk = NoDisk /\ ~docs[i].diskSelector)
    <3>1. y[i] = docs[i]
      BY <2>3 DEF setInstallDisk
    <3> HIDE DEF y
    <3> QED
      BY <2>1, <2>3, <3>1
  <2> QED
    BY <2>2, <2>3
<1> HIDE DEF y
<1>3. y \in [I -> Documents(D)]
  BY <1>1, <1>2
<1> QED
  BY <1>2, <1>3 DEF y

\* What is applied to a machine is a rewriting of its bootstrap data: no document
\* is dropped, added or moved, an operator's disk or disk selector wins, and the
\* SAN lists keep the operator's addresses and gain exactly the endpoints they
\* lack, each once (Rewrite, for every stream, disk and list of addresses).
THEOREM RewriteIsARewriting ==
  ASSUME NEW docs \in Seq(Document), NEW disk, NEW endpoints \in Seq(Text)
  PROVE  Rewritten(docs, Rewrite(docs, disk, endpoints), disk, endpoints)
<1> DEFINE I == 1..Len(docs)
           D == Text \cup {disk}
           E == {endpoints[k] : k \in 1..Len(endpoints)}
           a == IF disk = NoDisk THEN docs ELSE setInstallDisk(docs, disk)
           b == injectCertSANs(a, endpoints)
           c == injectClusterAPIServerCertSANs(b, endpoints)
<1>1. Rewrite(docs, disk, endpoints) = c
  BY DEF Rewrite, injectHostCertSANs
<1>2. docs \in [I -> Documents(D)] /\ disk \in D /\ DOMAIN docs = I /\ Len(docs) \in Nat
  <2>1. Document \subseteq Documents(D)
    BY DEF Document, Documents
  <2>2. DOMAIN docs = I /\ Len(docs) \in Nat /\ disk \in D
    OBVIOUS
  <2>3. docs = [i \in I |-> docs[i]] /\ \A i \in I : docs[i] \in Document
    OBVIOUS
  <2> HIDE DEF D, I
  <2> QED
    BY <2>1, <2>2, <2>3
<1> HIDE DEF D, I
<1>3. /\ a \in [I -> Documents(D)]
      /\ \A i \in I :
           /\ a[i].machine = docs[i].machine /\ a[i].cluster = docs[i].cluster
           /\ a[i].diskSelector = docs[i].diskSelector /\ a[i].payload = docs[i].payload
           /\ a[i].certSANs = docs[i].certSANs /\ a[i].apiSANs = docs[i].apiSANs
           /\ a[i].disk = IF docs[i].machine /\ docs[i].disk = NoDisk /\ ~docs[i].diskSelector
                            THEN disk ELSE docs[i].disk
  <2>1. CASE disk = NoDisk
    BY <1>2, <2>1
  <2>2. CASE disk # NoDisk
    BY <1>2, <2>2, DiskIsSet
  <2> QED
    BY <2>1, <2>2
<1> HIDE DEF a
<1>4. DOMAIN a = I /\ CertsGrown(a, b, D, E)
  BY <1>3, CertsInjected
<1> HIDE DEF b
<1>5. b \in [I -> Documents(D)] /\ DOMAIN b = I
  BY <1>4 DEF CertsGrown
<1>6. APIGrown(b, c, D, E)
  BY <1>5, APIInjected
<1> HIDE DEF c
<1>7. c \in [I -> Documents(D)] /\ DOMAIN c = I
  BY <1>5, <1>6 DEF APIGrown
<1>8. Len(c) = Len(docs)
  BY <1>2, <1>7 DEF I
<1>9. ASSUME NEW i \in I
      PROVE  DocRewritten(docs[i], c[i], disk, endpoints)
  <2>1. docs[i] \in Documents(D) /\ a[i] \in Documents(D) /\ b[i] \in Documents(D)
    BY <1>2, <1>3, <1>5
  <2>2. SameDocument(a[i], b[i]) /\ b[i].apiSANs = a[i].apiSANs
    BY <1>4 DEF CertsGrown
  <2>3. SameDocument(b[i], c[i]) /\ c[i].certSANs = b[i].certSANs
    BY <1>5, <1>6 DEF APIGrown
  <2>4. SameDocument(a[i], c[i])
    BY <2>2, <2>3 DEF SameDocument
  <2>5. c[i].machine = docs[i].machine /\ c[i].cluster = docs[i].cluster
    BY <1>3, <2>4 DEF SameDocument
  <2>6. c[i].diskSelector = docs[i].diskSelector /\ c[i].payload = docs[i].payload
    BY <1>3, <2>4 DEF SameDocument
  <2>7. c[i].disk = IF docs[i].machine /\ docs[i].disk = NoDisk /\ ~docs[i].diskSelector
                      THEN disk ELSE docs[i].disk
    BY <1>3, <2>4 DEF SameDocument
  <2>8. docs[i].certSANs \in Seq(Text) /\ docs[i].apiSANs \in Seq(Text)
    BY <2>1 DEF Documents
  <2>9. IF docs[i].machine THEN SANsExtended(docs[i].certSANs, c[i].certSANs, endpoints)
                           ELSE c[i].certSANs = docs[i].certSANs
    <3>1. CASE docs[i].machine
      <4>1. Grown(docs[i].certSANs, c[i].certSANs, E)
        BY <1>3, <1>4, <2>3, <3>1 DEF CertsGrown
      <4> QED
        BY <2>8, <3>1, <4>1, GrownIsExtended
    <3>2. CASE ~docs[i].machine
      BY <1>3, <1>4, <2>3, <3>2 DEF CertsGrown
    <3> QED
      BY <3>1, <3>2
  <2>10. IF docs[i].cluster THEN SANsExtended(docs[i].apiSANs, c[i].apiSANs, endpoints)
                            ELSE c[i].apiSANs = docs[i].apiSANs
    <3>1. b[i].apiSANs = docs[i].apiSANs /\ b[i].cluster = docs[i].cluster
      BY <1>3, <2>2 DEF SameDocument
    <3>2. CASE docs[i].cluster
      <4>1. Grown(docs[i].apiSANs, c[i].apiSANs, E)
        BY <1>5, <1>6, <3>1, <3>2 DEF APIGrown
      <4> QED
        BY <2>8, <3>2, <4>1, GrownIsExtended
    <3>3. CASE ~docs[i].cluster
      BY <1>5, <1>6, <3>1, <3>3 DEF APIGrown
    <3> QED
      BY <3>2, <3>3
  <2> QED
    BY <2>5, <2>6, <2>7, <2>9, <2>10 DEF DocRewritten
<1> QED
  BY <1>1, <1>2, <1>8, <1>9 DEF Rewritten
=============================================================================
