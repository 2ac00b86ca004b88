--------------------------- MODULE InventoryProofs ---------------------------
(***************************************************************************)
(* Proofs about the inventories of Kubespray's contributors.               *)
(*                                                                         *)
(* contrib/inventory_builder/inventory.py, for any command lines,          *)
(* documents, number of invocations and thresholds: the inventory is well  *)
(* formed, its roles are sound on either side of the thresholds, and every *)
(* address is listed.                                                      *)
(*                                                                         *)
(* contrib/terraform/terraform.py, for any files, orders of them, command  *)
(* lines and number of files written meanwhile: what is reported of a host *)
(* was true, and nothing is missing that was true all along.               *)
(*                                                                         *)
(* Their loops carry a state along and are folds here.  The first section  *)
(* proves what the later ones need of folds: induction over the numbers,   *)
(* for a set instead of a predicate, and the sequence of values a fold     *)
(* goes through.                                                           *)
(***************************************************************************)
EXTENDS InventoryBuilder, TerraformInventory, FiniteSetTheorems, SequenceTheorems, TLAPS

-----------------------------------------------------------------------------

(* Induction over the numbers for a set: a number that were left out would *)
(* make the shift of the numbers up to it an injection into a smaller set. *)
LEMMA Induction ==
  ASSUME NEW S, 0 \in S, \A n \in Nat : n \in S => n + 1 \in S
  PROVE  Nat \subseteq S
<1> SUFFICES ASSUME NEW m \in Nat, m \notin S PROVE FALSE
  OBVIOUS
<1> DEFINE A == {x \in 0 .. m : x \in S}
           up == [x \in A |-> x + 1]
<1>1. IsFiniteSet(A) /\ Cardinality(A) \in Nat
  <2>1. IsFiniteSet(0 .. m) /\ A \in SUBSET (0 .. m)
    BY FS_Interval
  <2> QED
    BY <2>1, FS_Subset, FS_CardinalityType
<1>2. 0 \in A
  OBVIOUS
<1>3. IsFiniteSet(A \ {0}) /\ Cardinality(A \ {0}) = Cardinality(A) - 1
  BY <1>1, <1>2, FS_RemoveElement
<1>4. \A x \in A : x + 1 \in A \ {0}
  OBVIOUS
<1>5. up \in Injection(A, A \ {0})
  BY <1>4 DEF Injection, IsInjective
<1>6. Cardinality(A) <= Cardinality(A \ {0})
  BY <1>3, <1>5, FS_Injection
<1> QED
  BY <1>1, <1>3, <1>6

(* Max, by which the folds of the library are defined, is the greatest     *)
(* number of a set of numbers up to n.                                     *)
LEMMA GreatestOf ==
  ASSUME NEW n \in Nat, NEW t \in SUBSET (1 .. n), n \in t
  PROVE  Max(t) = n
<1>1. \A x \in t : (\A y \in t : x >= y) => x = n
  OBVIOUS
<1>2. \A y \in t : n >= y
  OBVIOUS
<1> QED
  BY <1>1, <1>2 DEF Max

(* Every such set that is not empty has its greatest number.               *)
LEMMA GreatestIn ==
  ASSUME NEW n \in Nat, NEW t \in SUBSET (1 .. n), t # {}
  PROVE  Max(t) \in t
<1> DEFINE S == {m \in Nat : \A u \in SUBSET (1 .. m) : u # {} => Max(u) \in u}
<1>1. 0 \in S
  <2>1. \A u \in SUBSET (1 .. 0) : u = {}
    OBVIOUS
  <2> QED
    BY <2>1
<1>2. ASSUME NEW m \in Nat, m \in S PROVE m + 1 \in S
  <2> SUFFICES ASSUME NEW u \in SUBSET (1 .. m + 1), u # {} PROVE Max(u) \in u
    OBVIOUS
  <2>1. CASE m + 1 \in u
    BY <2>1, GreatestOf
  <2>2. CASE m + 1 \notin u
    BY <1>2, <2>2
  <2> QED
    BY <2>1, <2>2
<1> QED
  BY <1>1, <1>2, Induction

(* The function that FoldLeft chooses, for a step that is a function.      *)
Recurs(g, n, base, step) ==
    g = [t \in SUBSET (1 .. n) |-> IF t = {} THEN base ELSE step[g[t \ {Max(t)}], Max(t)]]

(* There is a function as FoldLeft chooses it, on the sets of positions of *)
(* a sequence of n elements: step[x, k] is what the k-th element makes of  *)
(* x.                                                                      *)
LEMMA FoldExists ==
  ASSUME NEW n \in Nat, NEW B, NEW base \in B, NEW step \in [B \X (1 .. n) -> B]
  PROVE  \E g \in [SUBSET (1 .. n) -> B] : Recurs(g, n, base, step)
<1> DEFINE Good(m) == \E g \in [SUBSET (1 .. m) -> B] : Recurs(g, m, base, step)
           S == {m \in Nat : m <= n => Good(m)}
<1> HIDE DEF Good
<1>1. 0 \in S
  <2> DEFINE g == [t \in SUBSET (1 .. 0) |-> base]
  <2>1. \A t \in SUBSET (1 .. 0) : t = {}
    OBVIOUS
  <2>2. g = [t \in SUBSET (1 .. 0) |-> IF t = {} THEN base ELSE step[g[t \ {Max(t)}], Max(t)]]
    BY <2>1
  <2>3. Recurs(g, 0, base, step) /\ g \in [SUBSET (1 .. 0) -> B]
    BY <2>2 DEF Recurs
  <2>4. Good(0)
    BY <2>3 DEF Good
  <2> QED
    BY <2>4
<1>2. ASSUME NEW m \in Nat, m \in S PROVE m + 1 \in S
  <2> SUFFICES ASSUME m + 1 <= n PROVE Good(m + 1)
    OBVIOUS
  <2>1. PICK g \in [SUBSET (1 .. m) -> B] : Recurs(g, m, base, step)
    <3>1. Good(m)
      BY <1>2
    <3> QED
      BY <3>1 DEF Good
  <2> DEFINE h == [t \in SUBSET (1 .. m + 1) |->
                      IF m + 1 \in t THEN step[g[t \ {m + 1}], m + 1] ELSE g[t]]
             Body(t) == IF t = {} THEN base ELSE step[h[t \ {Max(t)}], Max(t)]
  <2>2. ASSUME NEW t \in SUBSET (1 .. m + 1), m + 1 \in t
        PROVE  h[t] = Body(t) /\ h[t] \in B
    <3>1. Max(t) = m + 1
      BY <2>2, GreatestOf
    <3>2. t \ {m + 1} \in SUBSET (1 .. m) /\ t \ {m + 1} \in SUBSET (1 .. m + 1) /\ m + 1 \notin t \ {m + 1}
      OBVIOUS
    <3>3. h[t \ {m + 1}] = g[t \ {m + 1}] /\ g[t \ {m + 1}] \in B
      BY <3>2
    <3>4. h[t] = step[g[t \ {m + 1}], m + 1]
      BY <2>2
    <3>5. m + 1 \in 1 .. n
      OBVIOUS
    <3> QED
      BY <2>2, <3>1, <3>3, <3>4, <3>5
  <2>3. ASSUME NEW t \in SUBSET (1 .. m + 1), m + 1 \notin t
        PROVE  h[t] = Body(t) /\ h[t] \in B
    <3>1. t \in SUBSET (1 .. m) /\ h[t] = g[t] /\ g[t] \in B
      BY <2>3
    <3>2. g[t] = IF t = {} THEN base ELSE step[g[t \ {Max(t)}], Max(t)]
      BY <2>1, <3>1 DEF Recurs
    <3>3. t # {} => h[t \ {Max(t)}] = g[t \ {Max(t)}]
      <4>1. t \ {Max(t)} \in SUBSET (1 .. m + 1) /\ m + 1 \notin t \ {Max(t)}
        BY <2>3
      <4> QED
        BY <4>1
    <3> HIDE DEF h
    <3> QED
      BY <3>1, <3>2, <3>3
  <2>4. h \in [SUBSET (1 .. m + 1) -> B]
    BY <2>2, <2>3
  <2>5. h = [t \in SUBSET (1 .. m + 1) |-> Body(t)]
    BY <2>2, <2>3
  <2>6. Recurs(h, m + 1, base, step)
    BY <2>5 DEF Recurs
  <2> HIDE DEF h
  <2> QED
    BY <2>4, <2>6 DEF Good
<1>3. n \in S
  <2> HIDE DEF S
  <2> QED
    BY <1>1, <1>2, Induction
<1>4. Good(n)
  BY <1>3
<1> QED
  BY <1>4 DEF Good

(* What is left of the chosen function when it is applied to the values of *)
(* B only.                                                                 *)
Starts(g, base) == g[{}] = base
Follows(g, n, B, step) ==
    \A t \in SUBSET (1 .. n) :
        t # {} /\ g[t \ {Max(t)}] \in B => g[t] = step[g[t \ {Max(t)}], Max(t)]

(* The values a fold goes through, f[0] before the first element, f[n] at  *)
(* the end.                                                                *)
Steps(f, n, base, step) == f[0] = base /\ \A k \in 1 .. n : f[k] = step[f[k - 1], k]

Leads(n, B, base, step, last) ==
    \E f \in [0 .. n -> B] : Steps(f, n, base, step) /\ f[n] = last

(* A function that unfolds as the one of FoldLeft does goes through such   *)
(* values.                                                                 *)
LEMMA FoldSteps ==
  ASSUME NEW n \in Nat, NEW B, NEW base \in B, NEW step \in [B \X (1 .. n) -> B], NEW g,
         Starts(g, base), Follows(g, n, B, step)
  PROVE  Leads(n, B, base, step, g[1 .. n])
<1> DEFINE f == [k \in 0 .. n |-> g[1 .. k]]
           S == {m \in Nat : m <= n => f[m] \in B}
<1>1. f[0] = base
  <2>1. 1 .. 0 = {}
    OBVIOUS
  <2> QED
    BY <2>1 DEF Starts
<1>2. ASSUME NEW k \in 1 .. n, f[k - 1] \in B PROVE f[k] = step[f[k - 1], k] /\ f[k] \in B
  <2>1. 1 .. k \in SUBSET (1 .. k) /\ k \in 1 .. k /\ 1 .. k \in SUBSET (1 .. n) /\ 1 .. k # {}
    OBVIOUS
  <2>2. Max(1 .. k) = k
    BY <2>1, GreatestOf
  <2>3. (1 .. k) \ {k} = 1 .. (k - 1)
    OBVIOUS
  <2>4. f[k - 1] = g[1 .. (k - 1)] /\ f[k] = g[1 .. k]
    OBVIOUS
  <2>5. g[(1 .. k) \ {Max(1 .. k)}] \in B
    BY <1>2, <2>2, <2>3, <2>4
  <2>6. g[1 .. k] = step[g[(1 .. k) \ {Max(1 .. k)}], Max(1 .. k)]
    BY <2>1, <2>5 DEF Follows
  <2>7. f[k] = step[f[k - 1], k]
    BY ONLY <2>2, <2>3, <2>4, <2>6
  <2> HIDE DEF f
  <2> QED
    BY <1>2, <2>7
<1> HIDE DEF f
<1>3. \A k \in 0 .. n : f[k] \in B
  <2>1. 0 \in S
    BY <1>1
  <2>2. ASSUME NEW m \in Nat, m \in S PROVE m + 1 \in S
    <3> SUFFICES ASSUME m + 1 <= n PROVE f[m + 1] \in B
      OBVIOUS
    <3>1. m + 1 \in 1 .. n /\ (m + 1) - 1 = m /\ f[m] \in B
      BY <2>2
    <3> QED
      BY <1>2, <3>1
  <2> HIDE DEF S
  <2>3. Nat \subseteq S
    BY <2>1, <2>2, Induction
  <2> QED
    BY <2>3 DEF S
<1>4. \A k \in 1 .. n : f[k] = step[f[k - 1], k]
  <2> SUFFICES ASSUME NEW k \in 1 .. n PROVE f[k] = step[f[k - 1], k]
    OBVIOUS
  <2>1. k - 1 \in 0 .. n
    OBVIOUS
  <2> QED
    BY <1>2, <1>3, <2>1
<1>5. f \in [0 .. n -> B] /\ f[n] = g[1 .. n]
  BY <1>3 DEF f
<1> QED
  BY <1>1, <1>4, <1>5 DEF Steps, Leads

-----------------------------------------------------------------------------
(* What build_hostnames carries along, and the arguments once a range is   *)
(* expanded.                                                               *)
Builder == [hosts : Seq(Host), next : Nat]
Single == [op : {"address", "deleteIp"}, ip : Nat] \cup [op : {"named"}, name : Nat, ip : Nat]
             \cup [op : {"deleteName"}, name : Nat]

(* No two hosts of one name (all_hosts is a dictionary), and none of one   *)
(* address.                                                                *)
Distinct(hosts) == \A i, j \in DOMAIN hosts : hosts[i].name = hosts[j].name => i = j
Apart(hosts) == \A i, j \in DOMAIN hosts : hosts[i].ip = hosts[j].ip => i = j

(* all_hosts[name] = options, for a name that is a key and for one that is *)
(* not.                                                                    *)
LEMMA PutIs ==
  ASSUME NEW hosts \in Seq(Host), NEW h \in Host
  PROVE  /\ Put(hosts, h) \in Seq(Host)
         /\ Names(Put(hosts, h)) = Names(hosts) \cup {h.name}
         /\ Distinct(hosts) => Distinct(Put(hosts, h))
         /\ Distinct(hosts) /\ Apart(hosts) /\ h.ip \notin Ips(hosts) => Apart(Put(hosts, h))
         /\ h.name \notin Names(hosts) => Ips(Put(hosts, h)) = Ips(hosts) \cup {h.ip}
<1> DEFINE new == Put(hosts, h)
<1>1. CASE h.name \in Names(hosts)
  <2>1. new = [i \in 1 .. Len(hosts) |-> IF hosts[i].name = h.name THEN h ELSE hosts[i]]
    BY <1>1 DEF Put
  <2>2. new \in Seq(Host) /\ Len(new) = Len(hosts) /\ DOMAIN new = 1 .. Len(hosts)
    BY <2>1
  <2>3. \A i \in 1 .. Len(hosts) :
            /\ new[i].name = hosts[i].name
            /\ new[i].ip = (IF hosts[i].name = h.name THEN h.ip ELSE hosts[i].ip)
    BY <2>1
  <2> HIDE DEF new
  <2>4. Names(new) = Names(hosts) /\ (Distinct(hosts) => Distinct(new))
    BY <2>2, <2>3 DEF Names, Distinct
  <2>5. Distinct(hosts) /\ Apart(hosts) /\ h.ip \notin Ips(hosts) => Apart(new)
    BY <2>2, <2>3 DEF Distinct, Apart, Ips
  <2> QED
    BY <1>1, <2>2, <2>4, <2>5 DEF new
<1>2. CASE h.name \notin Names(hosts)
  <2>1. new = Append(hosts, h)
    BY <1>2 DEF Put
  <2>2. /\ new \in Seq(Host) /\ Len(new) = Len(hosts) + 1
        /\ new[Len(hosts) + 1] = h
        /\ \A i \in 1 .. Len(hosts) : new[i] = hosts[i]
    BY <2>1
  <2> HIDE DEF new
  <2>3. DOMAIN new = (1 .. Len(hosts)) \cup {Len(hosts) + 1} /\ DOMAIN hosts = 1 .. Len(hosts)
    BY <2>2
  <2>4. Names(new) = Names(hosts) \cup {h.name}
    BY <2>2, <2>3 DEF Names
  <2>5. Ips(new) = Ips(hosts) \cup {h.ip}
    BY <2>2, <2>3 DEF Ips
  <2>6. \A i \in 1 .. Len(hosts) : hosts[i].name # h.name
    BY <1>2 DEF Names
  <2>7. Distinct(hosts) => Distinct(new)
    BY <2>2, <2>3, <2>6 DEF Distinct
  <2>8. Apart(hosts) /\ h.ip \notin Ips(hosts) => Apart(new)
    <3> SUFFICES ASSUME Apart(hosts), h.ip \notin Ips(hosts) PROVE Apart(new)
      OBVIOUS
    <3>1. \A i \in 1 .. Len(hosts) : hosts[i].ip # h.ip
      BY DEF Ips
    <3> QED
      BY <2>2, <2>3, <3>1 DEF Apart
  <2> QED
    BY <2>2, <2>4, <2>5, <2>7, <2>8 DEF new
<1> QED
  BY <1>1, <1>2

(* Deleting a host takes its address from the list, and nothing else.      *)
LEMMA RemoveIs ==
  ASSUME NEW hosts \in Seq(Host), NEW i \in DOMAIN hosts
  PROVE  /\ RemoveAt(hosts, i) \in Seq(Host)
         /\ Names(RemoveAt(hosts, i)) \subseteq Names(hosts)
         /\ Distinct(hosts) => Distinct(RemoveAt(hosts, i))
         /\ Apart(hosts) => Apart(RemoveAt(hosts, i)) /\ Ips(RemoveAt(hosts, i)) = Ips(hosts) \ {hosts[i].ip}
<1> DEFINE new == RemoveAt(hosts, i)
           at(j) == IF j < i THEN j ELSE j + 1
<1>1. /\ SubSeq(hosts, 1, i - 1) \in Seq(Host) /\ Len(SubSeq(hosts, 1, i - 1)) = i - 1
      /\ \A j \in 1 .. i - 1 : SubSeq(hosts, 1, i - 1)[j] = hosts[j]
  OBVIOUS
<1>2. /\ SubSeq(hosts, i + 1, Len(hosts)) \in Seq(Host)
      /\ Len(SubSeq(hosts, i + 1, Len(hosts))) = Len(hosts) - i
      /\ \A j \in 1 .. Len(hosts) - i : SubSeq(hosts, i + 1, Len(hosts))[j] = hosts[i + j]
  OBVIOUS
<1>3. /\ new \in Seq(Host) /\ DOMAIN new = 1 .. Len(hosts) - 1
      /\ \A j \in 1 .. Len(hosts) - 1 : new[j] = hosts[at(j)]
  <2> DEFINE low == SubSeq(hosts, 1, i - 1)
             high == SubSeq(hosts, i + 1, Len(hosts))
  <2> HIDE DEF low, high
  <2>1. low \in Seq(Host) /\ Len(low) = i - 1 /\ \A j \in 1 .. i - 1 : low[j] = hosts[j]
    BY <1>1 DEF low
  <2>2. /\ high \in Seq(Host) /\ Len(high) = Len(hosts) - i
        /\ \A j \in 1 .. Len(hosts) - i : high[j] = hosts[i + j]
    BY <1>2 DEF high
  <2>3. new = low \o high
    BY DEF RemoveAt, low, high
  <2> HIDE DEF new
  <2>4. new \in Seq(Host) /\ Len(new) = Len(hosts) - 1
    BY <2>1, <2>2, <2>3
  <2>5. ASSUME NEW j \in 1 .. Len(hosts) - 1, j < i PROVE new[j] = hosts[at(j)]
    BY <2>1, <2>2, <2>3, <2>5
  <2>6. ASSUME NEW j \in 1 .. Len(hosts) - 1, ~(j < i) PROVE new[j] = hosts[at(j)]
    <3>1. new[j] = high[j - (i - 1)]
      BY <2>1, <2>2, <2>3, <2>6
    <3>2. j - (i - 1) \in 1 .. Len(hosts) - i /\ i + (j - (i - 1)) = j + 1
      BY <2>6
    <3> QED
      BY <2>2, <2>6, <3>1, <3>2
  <2> HIDE DEF at
  <2> QED
    BY <2>4, <2>5, <2>6
<1> HIDE DEF new
<1>4. \A j \in 1 .. Len(hosts) - 1 : at(j) \in DOMAIN hosts /\ at(j) # i
  OBVIOUS
<1>5. \A j, k \in 1 .. Len(hosts) - 1 : at(j) = at(k) => j = k
  OBVIOUS
<1>6. \A m \in DOMAIN hosts : m # i => \E j \in 1 .. Len(hosts) - 1 : at(j) = m
  <2> SUFFICES ASSUME NEW m \in DOMAIN hosts, m # i PROVE \E j \in 1 .. Len(hosts) - 1 : at(j) = m
    OBVIOUS
  <2>1. CASE m < i
    BY <2>1
  <2>2. CASE m > i
    <3>1. m - 1 \in 1 .. Len(hosts) - 1 /\ at(m - 1) = m
      BY <2>2
    <3> QED
      BY <3>1
  <2> QED
    BY <2>1, <2>2
<1> HIDE DEF at
<1>7. Names(new) \subseteq Names(hosts)
  BY <1>3, <1>4 DEF Names
<1>8. Distinct(hosts) => Distinct(new)
  BY <1>3, <1>4, <1>5 DEF Distinct
<1>9. Apart(hosts) => Apart(new)
  BY <1>3, <1>4, <1>5 DEF Apart
<1>10. Apart(hosts) => Ips(new) = Ips(hosts) \ {hosts[i].ip}
  <2> SUFFICES ASSUME Apart(hosts) PROVE Ips(new) = Ips(hosts) \ {hosts[i].ip}
    OBVIOUS
  <2>1. ASSUME NEW j \in 1 .. Len(hosts) - 1 PROVE new[j].ip \in Ips(hosts) \ {hosts[i].ip}
    BY <1>3, <1>4 DEF Apart, Ips
  <2>2. ASSUME NEW m \in DOMAIN hosts, m # i PROVE hosts[m].ip \in Ips(new)
    <3>1. PICK j \in 1 .. Len(hosts) - 1 : at(j) = m
      BY <1>6, <2>2
    <3>2. new[j].ip = hosts[m].ip /\ j \in DOMAIN new
      BY <1>3, <3>1
    <3> QED
      BY <3>2 DEF Ips
  <2>3. Ips(new) \subseteq Ips(hosts) \ {hosts[i].ip}
    BY <1>3, <2>1 DEF Ips
  <2>4. Ips(hosts) \ {hosts[i].ip} \subseteq Ips(new)
    BY <2>2 DEF Ips
  <2> QED
    BY <2>3, <2>4
<1> QED
  BY <1>3, <1>7, <1>8, <1>9, <1>10 DEF new

(* Every set of numbers that is not empty has its least: the library looks *)
(* for the first match by it.                                              *)
LEMMA LeastIn ==
  ASSUME NEW S \in SUBSET Nat, S # {}
  PROVE  Min(S) \in S
<1> SUFFICES ASSUME \A x \in S : \E y \in S : y < x PROVE FALSE
  <2>1. ASSUME NEW x \in S, \A y \in S : x =< y PROVE Min(S) \in S
    BY <2>1 DEF Min
  <2> QED
    BY <2>1
<1> DEFINE None == {m \in Nat : \A x \in 0 .. m : x \notin S}
<1>1. 0 \in None
  OBVIOUS
<1>2. ASSUME NEW m \in Nat, m \in None PROVE m + 1 \in None
  BY <1>2
<1> HIDE DEF None
<1>3. Nat \subseteq None
  BY <1>1, <1>2, Induction
<1>4. PICK x \in S : x \in Nat
  OBVIOUS
<1>5. x \in None
  BY <1>3, <1>4
<1> QED
  BY <1>4, <1>5 DEF None

(* A deletion changes nothing or removes one host; by an address it        *)
(* changes nothing only if the address is not listed.                      *)
LEMMA DeleteIs ==
  ASSUME NEW b \in Builder, NEW x \in Nat
  PROVE  /\ \/ DeleteHostByIp(b, x) = b /\ x \notin Ips(b.hosts)
            \/ \E i \in DOMAIN b.hosts :
                  b.hosts[i].ip = x /\ DeleteHostByIp(b, x) = [b EXCEPT !.hosts = RemoveAt(@, i)]
         /\ \/ DeleteHost(b, x) = b
            \/ \E i \in DOMAIN b.hosts : DeleteHost(b, x) = [b EXCEPT !.hosts = RemoveAt(@, i)]
<1> DEFINE hosts == b.hosts
           I == {i \in 1 .. Len(hosts) : hosts[i].ip = x}
           J == {i \in 1 .. Len(hosts) : hosts[i].name = x}
<1>1. hosts \in Seq(Host) /\ DOMAIN hosts = 1 .. Len(hosts) /\ [b EXCEPT !.hosts = @] = b
  BY DEF Builder
<1>2. I \in SUBSET Nat /\ J \in SUBSET Nat
  OBVIOUS
<1>3. DeleteHostByIp(b, x) = [b EXCEPT !.hosts = IF I # {} THEN RemoveAt(@, Min(I)) ELSE @]
  BY DEF DeleteHostByIp, RemoveFirstMatch, SelectInSeq
<1>4. DeleteHost(b, x) = [b EXCEPT !.hosts = IF J # {} THEN RemoveAt(@, Min(J)) ELSE @]
  BY DEF DeleteHost, RemoveFirstMatch, SelectInSeq
<1>5. I = {} => x \notin Ips(hosts)
  BY <1>1 DEF Ips
<1>6. I # {} => Min(I) \in DOMAIN hosts /\ hosts[Min(I)].ip = x
  <2> SUFFICES ASSUME I # {} PROVE Min(I) \in I
    BY <1>1
  <2> HIDE DEF I
  <2> QED
    BY <1>2, LeastIn
<1>7. J # {} => Min(J) \in DOMAIN hosts
  <2> SUFFICES ASSUME J # {} PROVE Min(J) \in J
    BY <1>1
  <2> HIDE DEF J
  <2> QED
    BY <1>2, LeastIn
<1> HIDE DEF I, J
<1>8. CASE I = {}
  <2>1. DeleteHostByIp(b, x) = b
    BY <1>1, <1>3, <1>8
  <2> QED
    BY <1>1, <1>4, <1>5, <1>7, <1>8, <2>1
<1>9. CASE I # {}
  BY <1>1, <1>3, <1>4, <1>6, <1>7, <1>9
<1> QED
  BY <1>8, <1>9

(* What every argument keeps.                                              *)
Fit(b) == b \in Builder /\ Distinct(b.hosts) /\ Apart(b.hosts)

(* An address is listed already, or comes with its name; it is lost only   *)
(* if the name was there.                                                  *)
Added(b, c, next, name, ip) ==
    \/ c = b /\ ip \in Ips(b.hosts)
    \/ /\ c.next = next
       /\ Names(c.hosts) = Names(b.hosts) \cup {name}
       /\ name \notin Names(b.hosts) => Ips(c.hosts) = Ips(b.hosts) \cup {ip}

(* An address without a name: the next generated one is taken.             *)
LEMMA AddAddressIs ==
  ASSUME NEW b \in Builder, NEW ip \in Nat
  PROVE  /\ AddAddress(b, ip) \in Builder
         /\ AddAddress(b, ip).next \in b.next .. b.next + 1
         /\ Fit(b) => Fit(AddAddress(b, ip))
         /\ Added(b, AddAddress(b, ip), b.next + 1, b.next, ip)
<1> DEFINE h == [name |-> b.next, ip |-> ip]
<1>1. h \in Host /\ b.hosts \in Seq(Host) /\ b.next \in Nat
  BY DEF Host, Builder
<1>2. CASE ip \in Ips(b.hosts)
  <2>1. AddAddress(b, ip) = b
    BY <1>2 DEF AddAddress, ExistsIp
  <2> QED
    BY <1>1, <1>2, <2>1 DEF Added
<1>3. CASE ip \notin Ips(b.hosts)
  <2>1. AddAddress(b, ip) = [hosts |-> Put(b.hosts, h), next |-> b.next + 1]
    BY <1>3 DEF AddAddress, ExistsIp
  <2>2. h.name = b.next /\ h.ip = ip
    OBVIOUS
  <2> DEFINE new == Put(b.hosts, h)
  <2> HIDE DEF h
  <2>3. /\ new \in Seq(Host) /\ Names(new) = Names(b.hosts) \cup {h.name}
        /\ Distinct(b.hosts) => Distinct(new)
        /\ Distinct(b.hosts) /\ Apart(b.hosts) /\ h.ip \notin Ips(b.hosts) => Apart(new)
        /\ h.name \notin Names(b.hosts) => Ips(new) = Ips(b.hosts) \cup {h.ip}
    BY ONLY <1>1, PutIs
  <2> HIDE DEF new
  <2>4. AddAddress(b, ip) \in Builder /\ AddAddress(b, ip).hosts = new
    BY <1>1, <2>1, <2>3 DEF Builder, new
  <2> QED
    BY <1>1, <1>3, <2>1, <2>2, <2>3, <2>4 DEF Fit, Added, Builder
<1> QED
  BY <1>2, <1>3

(* An address with a name: the name may be that of another host.           *)
LEMMA AddNamedIs ==
  ASSUME NEW b \in Builder, NEW name \in Nat, NEW ip \in Nat
  PROVE  /\ AddNamed(b, name, ip) \in Builder /\ AddNamed(b, name, ip).next = b.next
         /\ Fit(b) => Fit(AddNamed(b, name, ip))
         /\ Added(b, AddNamed(b, name, ip), b.next, name, ip)
<1> DEFINE h == [name |-> name, ip |-> ip]
<1>1. h \in Host /\ b.hosts \in Seq(Host) /\ b.next \in Nat
  BY DEF Host, Builder
<1>2. CASE ip \in Ips(b.hosts)
  <2>1. AddNamed(b, name, ip) = b
    BY <1>2 DEF AddNamed, ExistsIp
  <2> QED
    BY <1>1, <1>2, <2>1 DEF Added
<1>3. CASE ip \notin Ips(b.hosts)
  <2>1. AddNamed(b, name, ip) = [b EXCEPT !.hosts = Put(@, h)]
    BY <1>3 DEF AddNamed, ExistsIp
  <2>2. h.name = name /\ h.ip = ip
    OBVIOUS
  <2> DEFINE new == Put(b.hosts, h)
  <2> HIDE DEF h
  <2>3. /\ new \in Seq(Host) /\ Names(new) = Names(b.hosts) \cup {h.name}
        /\ Distinct(b.hosts) => Distinct(new)
        /\ Distinct(b.hosts) /\ Apart(b.hosts) /\ h.ip \notin Ips(b.hosts) => Apart(new)
        /\ h.name \notin Names(b.hosts) => Ips(new) = Ips(b.hosts) \cup {h.ip}
    BY ONLY <1>1, PutIs
  <2> HIDE DEF new
  <2>4. AddNamed(b, name, ip) \in Builder /\ AddNamed(b, name, ip).hosts = new
    BY <1>1, <2>1, <2>3 DEF Builder, new
  <2> QED
    BY <1>1, <1>3, <2>1, <2>2, <2>3, <2>4 DEF Fit, Added, Builder
<1> QED
  BY <1>2, <1>3

(* A host to delete, by name or by address.                                *)
LEMMA DeleteKeeps ==
  ASSUME NEW b \in Builder, NEW x \in Nat, NEW c \in {DeleteHost(b, x), DeleteHostByIp(b, x)}
  PROVE  /\ c \in Builder /\ c.next = b.next
         /\ Names(c.hosts) \subseteq Names(b.hosts)
         /\ Fit(b) => Fit(c)
         /\ c = DeleteHostByIp(b, x) /\ Fit(b) => Ips(b.hosts) \ {x} \subseteq Ips(c.hosts)
<1>1. b.hosts \in Seq(Host)
  BY DEF Builder
<1>2. CASE c = b
  BY <1>2
<1>3. ASSUME NEW i \in DOMAIN b.hosts, c = [b EXCEPT !.hosts = RemoveAt(@, i)]
      PROVE  /\ c \in Builder /\ c.next = b.next
             /\ Names(c.hosts) \subseteq Names(b.hosts)
             /\ Fit(b) => Fit(c) /\ Ips(c.hosts) = Ips(b.hosts) \ {b.hosts[i].ip}
  <2>1. c.hosts = RemoveAt(b.hosts, i) /\ c.next = b.next
    BY <1>3 DEF Builder
  <2>2. c \in Builder
    BY <1>1, <1>3, RemoveIs DEF Builder
  <2> QED
    BY <1>1, <2>1, <2>2, RemoveIs DEF Fit
<1> QED
  BY <1>2, <1>3, DeleteIs

(* Whatever an argument is, no name and no address comes to be there       *)
(* twice, and the number of the next generated name never falls.           *)
LEMMA TakeIs ==
  ASSUME NEW b \in Builder, NEW arg \in Single
  PROVE  /\ Take(b, arg) \in Builder /\ b.next <= Take(b, arg).next
         /\ Fit(b) => Fit(Take(b, arg))
<1>1. b.next \in Nat
  BY DEF Builder
<1>2. CASE arg \in [op : {"address", "deleteIp"}, ip : Nat] /\ arg.op = "address"
  <2>1. PICK ip \in Nat : Take(b, arg) = AddAddress(b, ip)
    BY <1>2 DEF Take
  <2>2. /\ AddAddress(b, ip) \in Builder /\ (Fit(b) => Fit(AddAddress(b, ip)))
        /\ AddAddress(b, ip).next \in b.next .. b.next + 1
    BY ONLY <1>1, b \in Builder, ip \in Nat, AddAddressIs
  <2> QED
    BY ONLY <1>1, <2>1, <2>2
<1>3. CASE arg \in [op : {"address", "deleteIp"}, ip : Nat] /\ arg.op = "deleteIp"
  <2>1. PICK ip \in Nat : Take(b, arg) = DeleteHostByIp(b, ip)
    BY <1>3 DEF Take
  <2>2. /\ DeleteHostByIp(b, ip) \in Builder /\ (Fit(b) => Fit(DeleteHostByIp(b, ip)))
        /\ DeleteHostByIp(b, ip).next = b.next
    BY ONLY <1>1, b \in Builder, ip \in Nat, DeleteKeeps
  <2> QED
    BY ONLY <1>1, <2>1, <2>2
<1>4. CASE arg \in [op : {"named"}, name : Nat, ip : Nat]
  <2>1. PICK name \in Nat, ip \in Nat : Take(b, arg) = AddNamed(b, name, ip)
    BY <1>4 DEF Take
  <2>2. /\ AddNamed(b, name, ip) \in Builder /\ (Fit(b) => Fit(AddNamed(b, name, ip)))
        /\ AddNamed(b, name, ip).next = b.next
    BY ONLY <1>1, b \in Builder, name \in Nat, ip \in Nat, AddNamedIs
  <2> QED
    BY ONLY <1>1, <2>1, <2>2
<1>5. CASE arg \in [op : {"deleteName"}, name : Nat]
  <2>1. PICK name \in Nat : Take(b, arg) = DeleteHost(b, name)
    BY <1>5 DEF Take
  <2>2. /\ DeleteHost(b, name) \in Builder /\ (Fit(b) => Fit(DeleteHost(b, name)))
        /\ DeleteHost(b, name).next = b.next
    BY ONLY <1>1, b \in Builder, name \in Nat, DeleteKeeps
  <2> QED
    BY ONLY <1>1, <2>1, <2>2
<1> QED
  BY <1>2, <1>3, <1>4, <1>5 DEF Single

(* The builders that the addresses of one argument lead through.  (This    *)
(* lemma and its two counterparts below differ in the operator that is     *)
(* folded.)                                                                *)
LEMMA TakeSteps ==
  ASSUME NEW b \in Builder, NEW s \in Seq(Single)
  PROVE  \E f \in [0 .. Len(s) -> Builder] :
            /\ f[0] = b /\ f[Len(s)] = FoldLeft(Take, b, s)
            /\ \A k \in 1 .. Len(s) : f[k] = Take(f[k - 1], s[k])
<1> DEFINE n == Len(s)
           step == [p \in Builder \X (1 .. n) |-> Take(p[1], s[p[2]])]
           Is(g) == g = [t \in SUBSET DOMAIN s |->
                            IF t = {} THEN b ELSE Take(g[t \ {Max(t)}], s[Max(t)])]
           iter == CHOOSE g : Is(g)
<1>1. n \in Nat /\ DOMAIN s = 1 .. n /\ \A k \in 1 .. n : s[k] \in Single
  OBVIOUS
<1>2. step \in [Builder \X (1 .. n) -> Builder]
  BY <1>1, TakeIs
<1>3. \A x \in Builder : \A k \in 1 .. n : step[x, k] = Take(x, s[k])
  OBVIOUS
<1> HIDE DEF n, step
<1>4. \E g : Is(g)
  <2>1. PICK g \in [SUBSET (1 .. n) -> Builder] : Recurs(g, n, b, step)
    BY <1>1, <1>2, FoldExists
  <2>2. ASSUME NEW t \in SUBSET (1 .. n), t # {}
        PROVE  step[g[t \ {Max(t)}], Max(t)] = Take(g[t \ {Max(t)}], s[Max(t)])
    <3>1. Max(t) \in 1 .. n /\ g[t \ {Max(t)}] \in Builder
      BY <1>1, <2>2, GreatestIn
    <3> QED
      BY <1>3, <3>1
  <2>3. Is(g)
    BY <1>1, <2>1, <2>2 DEF Recurs
  <2> HIDE DEF Is
  <2> QED
    BY <2>3
<1>5. Is(iter)
  <2> HIDE DEF Is
  <2> QED
    BY <1>4
<1>6. FoldLeft(Take, b, s) = iter[1 .. n]
  BY <1>1 DEF FoldLeft, MapThenFoldSet
<1> HIDE DEF iter
<1>7. Starts(iter, b)
  BY <1>5 DEF Starts
<1>8. Follows(iter, n, Builder, step)
  <2> SUFFICES ASSUME NEW t \in SUBSET (1 .. n), t # {}, iter[t \ {Max(t)}] \in Builder
               PROVE  iter[t] = step[iter[t \ {Max(t)}], Max(t)]
    BY DEF Follows
  <2>1. iter[t] = Take(iter[t \ {Max(t)}], s[Max(t)])
    BY <1>1, <1>5
  <2>2. Max(t) \in 1 .. n
    BY <1>1, GreatestIn
  <2> QED
    BY <1>3, <2>1, <2>2
<1> HIDE DEF Is
<1>9. PICK f \in [0 .. n -> Builder] : Steps(f, n, b, step) /\ f[n] = iter[1 .. n]
  <2>1. n \in Nat
    BY <1>1
  <2>2. Leads(n, Builder, b, step, iter[1 .. n])
    BY ONLY <2>1, b \in Builder, <1>2, <1>7, <1>8, FoldSteps
  <2> QED
    BY <2>2 DEF Leads
<1>10. \A k \in 1 .. n : f[k] = Take(f[k - 1], s[k])
  <2> SUFFICES ASSUME NEW k \in 1 .. n PROVE f[k] = Take(f[k - 1], s[k])
    OBVIOUS
  <2>1. f[k - 1] \in Builder
    BY <1>1
  <2> QED
    BY <1>3, <1>9, <2>1 DEF Steps
<1>11. f[0] = b /\ f[n] = FoldLeft(Take, b, s)
  BY <1>6, <1>9 DEF Steps
<1> QED
  BY <1>10, <1>11 DEF n

(* range2ips: only a range stands for something else than itself.          *)
LEMMA ExpandIs ==
  ASSUME NEW arg \in Arguments
  PROVE  /\ Expand(arg) \in Seq(Single)
         /\ arg.op # "range" => Expand(arg) = <<arg>> /\ arg \in Single
         /\ arg.op = "range" =>
               /\ arg.from \in Nat /\ arg.to \in Nat
               /\ arg.from > arg.to => Expand(arg) = <<>>
               /\ ~(arg.from > arg.to) =>
                     /\ Len(Expand(arg)) = arg.to - arg.from + 1
                     /\ \A i \in 1 .. Len(Expand(arg)) : Expand(arg)[i] = Address(arg.from + i - 1)
<1>1. arg \in Single \cup [op : {"range"}, from : Nat, to : Nat]
  BY InputAssumption DEF Single
<1>2. CASE arg \in Single
  <2>1. arg.op # "range"
    BY <1>2 DEF Single
  <2>2. Expand(arg) = <<arg>>
    BY <2>1 DEF Expand
  <2> QED
    BY <1>2, <2>1, <2>2
<1>3. CASE arg \in [op : {"range"}, from : Nat, to : Nat]
  <2>1. arg.op = "range" /\ arg.from \in Nat /\ arg.to \in Nat
    BY <1>3
  <2>2. CASE arg.from > arg.to
    BY <2>1, <2>2 DEF Expand
  <2>3. CASE ~(arg.from > arg.to)
    <3> DEFINE m == arg.to - arg.from + 1
    <3>1. Expand(arg) = [i \in 1 .. m |-> Address(arg.from + i - 1)]
      BY <2>1, <2>3 DEF Expand
    <3>2. m \in Nat
      BY <2>1, <2>3
    <3>3. \A i \in 1 .. m : Address(arg.from + i - 1) \in Single
      BY <2>1 DEF Address, Single
    <3> HIDE DEF m
    <3>4. Expand(arg) \in Seq(Single) /\ Len(Expand(arg)) = m
      BY <3>1, <3>2, <3>3
    <3> QED
      BY <2>1, <2>3, <3>1, <3>4 DEF m
  <2> QED
    BY <2>2, <2>3
<1> QED
  BY <1>1, <1>2, <1>3

(* TakeIs for an argument as it stands on the command line.                *)
LEMMA TakeAllIs ==
  ASSUME NEW b \in Builder, NEW arg \in Arguments
  PROVE  /\ TakeAll(b, arg) \in Builder /\ b.next <= TakeAll(b, arg).next
         /\ Fit(b) => Fit(TakeAll(b, arg))
<1> DEFINE s == Expand(arg)
<1>1. s \in Seq(Single) /\ Len(s) \in Nat /\ \A k \in 1 .. Len(s) : s[k] \in Single
  BY ExpandIs
<1> HIDE DEF s
<1>2. PICK f \in [0 .. Len(s) -> Builder] :
         /\ f[0] = b /\ f[Len(s)] = FoldLeft(Take, b, s)
         /\ \A k \in 1 .. Len(s) : f[k] = Take(f[k - 1], s[k])
  BY <1>1, TakeSteps
<1> DEFINE Holds(k) == f[k] \in Builder /\ b.next <= f[k].next /\ (Fit(b) => Fit(f[k]))
           S == {k \in Nat : k <= Len(s) => Holds(k)}
<1>3. Holds(0)
  BY <1>2 DEF Builder
<1>4. ASSUME NEW k \in Nat, k + 1 <= Len(s), Holds(k) PROVE Holds(k + 1)
  <2>1. k + 1 \in 1 .. Len(s) /\ (k + 1) - 1 = k
    BY <1>1, <1>4
  <2>2. f[k + 1] = Take(f[k], s[k + 1]) /\ s[k + 1] \in Single
    BY <1>1, <1>2, <2>1
  <2>3. /\ f[k + 1] \in Builder /\ f[k].next <= f[k + 1].next /\ (Fit(f[k]) => Fit(f[k + 1]))
    BY <1>4, <2>2, TakeIs
  <2> QED
    BY <1>4, <2>3 DEF Builder
<1> HIDE DEF Holds
<1>5. 0 \in S /\ \A k \in Nat : k \in S => k + 1 \in S
  BY <1>1, <1>3, <1>4
<1> HIDE DEF S
<1>6. Len(s) \in S
  BY <1>1, <1>5, Induction
<1>7. Holds(Len(s))
  BY <1>1, <1>6 DEF S
<1> QED
  BY <1>2, <1>7 DEF Holds, TakeAll, s

(* The builders that the arguments lead through.                           *)
LEMMA TakeAllSteps ==
  ASSUME NEW b \in Builder, NEW s \in Seq(Arguments)
  PROVE  \E f \in [0 .. Len(s) -> Builder] :
            /\ f[0] = b /\ f[Len(s)] = FoldLeft(TakeAll, b, s)
            /\ \A k \in 1 .. Len(s) : f[k] = TakeAll(f[k - 1], s[k])
<1> DEFINE n == Len(s)
           step == [p \in Builder \X (1 .. n) |-> TakeAll(p[1], s[p[2]])]
           Is(g) == g = [t \in SUBSET DOMAIN s |->
                            IF t = {} THEN b ELSE TakeAll(g[t \ {Max(t)}], s[Max(t)])]
           iter == CHOOSE g : Is(g)
<1>1. n \in Nat /\ DOMAIN s = 1 .. n /\ \A k \in 1 .. n : s[k] \in Arguments
  OBVIOUS
<1>2. step \in [Builder \X (1 .. n) -> Builder]
  BY <1>1, TakeAllIs
<1>3. \A x \in Builder : \A k \in 1 .. n : step[x, k] = TakeAll(x, s[k])
  OBVIOUS
<1> HIDE DEF n, step
<1>4. \E g : Is(g)
  <2>1. PICK g \in [SUBSET (1 .. n) -> Builder] : Recurs(g, n, b, step)
    BY <1>1, <1>2, FoldExists
  <2>2. ASSUME NEW t \in SUBSET (1 .. n), t # {}
        PROVE  step[g[t \ {Max(t)}], Max(t)] = TakeAll(g[t \ {Max(t)}], s[Max(t)])
    <3>1. Max(t) \in 1 .. n /\ g[t \ {Max(t)}] \in Builder
      BY <1>1, <2>2, GreatestIn
    <3> QED
      BY <1>3, <3>1
  <2>3. Is(g)
    BY <1>1, <2>1, <2>2 DEF Recurs
  <2> HIDE DEF Is
  <2> QED
    BY <2>3
<1>5. Is(iter)
  <2> HIDE DEF Is
  <2> QED
    BY <1>4
<1>6. FoldLeft(TakeAll, b, s) = iter[1 .. n]
  BY <1>1 DEF FoldLeft, MapThenFoldSet
<1> HIDE DEF iter
<1>7. Starts(iter, b)
  BY <1>5 DEF Starts
<1>8. Follows(iter, n, Builder, step)
  <2> SUFFICES ASSUME NEW t \in SUBSET (1 .. n), t # {}, iter[t \ {Max(t)}] \in Builder
               PROVE  iter[t] = step[iter[t \ {Max(t)}], Max(t)]
    BY DEF Follows
  <2>1. iter[t] = TakeAll(iter[t \ {Max(t)}], s[Max(t)])
    BY <1>1, <1>5
  <2>2. Max(t) \in 1 .. n
    BY <1>1, GreatestIn
  <2> QED
    BY <1>3, <2>1, <2>2
<1> HIDE DEF Is
<1>9. PICK f \in [0 .. n -> Builder] : Steps(f, n, b, step) /\ f[n] = iter[1 .. n]
  <2>1. n \in Nat
    BY <1>1
  <2>2. Leads(n, Builder, b, step, iter[1 .. n])
    BY ONLY <2>1, b \in Builder, <1>2, <1>7, <1>8, FoldSteps
  <2> QED
    BY <2>2 DEF Leads
<1>10. \A k \in 1 .. n : f[k] = TakeAll(f[k - 1], s[k])
  <2> SUFFICES ASSUME NEW k \in 1 .. n PROVE f[k] = TakeAll(f[k - 1], s[k])
    OBVIOUS
  <2>1. f[k - 1] \in Builder
    BY <1>1
  <2> QED
    BY <1>3, <1>9, <2>1 DEF Steps
<1>11. f[0] = b /\ f[n] = FoldLeft(TakeAll, b, s)
  BY <1>6, <1>9 DEF Steps
<1> QED
  BY <1>10, <1>11 DEF n

(* The lists that the hosts of a document lead through.                    *)
LEMMA PutSteps ==
  ASSUME NEW b \in Seq(Host), NEW s \in Seq(Host)
  PROVE  \E f \in [0 .. Len(s) -> Seq(Host)] :
            /\ f[0] = b /\ f[Len(s)] = FoldLeft(Put, b, s)
            /\ \A k \in 1 .. Len(s) : f[k] = Put(f[k - 1], s[k])
<1> DEFINE n == Len(s)
           step == [p \in Seq(Host) \X (1 .. n) |-> Put(p[1], s[p[2]])]
           Is(g) == g = [t \in SUBSET DOMAIN s |->
                            IF t = {} THEN b ELSE Put(g[t \ {Max(t)}], s[Max(t)])]
           iter == CHOOSE g : Is(g)
<1>1. n \in Nat /\ DOMAIN s = 1 .. n /\ \A k \in 1 .. n : s[k] \in Host
  OBVIOUS
<1>2. step \in [Seq(Host) \X (1 .. n) -> Seq(Host)]
  BY <1>1, PutIs
<1>3. \A x \in Seq(Host) : \A k \in 1 .. n : step[x, k] = Put(x, s[k])
  OBVIOUS
<1> HIDE DEF n, step
<1>4. \E g : Is(g)
  <2>1. PICK g \in [SUBSET (1 .. n) -> Seq(Host)] : Recurs(g, n, b, step)
    BY <1>1, <1>2, FoldExists
  <2>2. ASSUME NEW t \in SUBSET (1 .. n), t # {}
        PROVE  step[g[t \ {Max(t)}], Max(t)] = Put(g[t \ {Max(t)}], s[Max(t)])
    <3>1. Max(t) \in 1 .. n /\ g[t \ {Max(t)}] \in Seq(Host)
      BY <1>1, <2>2, GreatestIn
    <3> QED
      BY <1>3, <3>1
  <2>3. Is(g)
    BY <1>1, <2>1, <2>2 DEF Recurs
  <2> HIDE DEF Is
  <2> QED
    BY <2>3
<1>5. Is(iter)
  <2> HIDE DEF Is
  <2> QED
    BY <1>4
<1>6. FoldLeft(Put, b, s) = iter[1 .. n]
  BY <1>1 DEF FoldLeft, MapThenFoldSet
<1> HIDE DEF iter
<1>7. Starts(iter, b)
  BY <1>5 DEF Starts
<1>8. Follows(iter, n, Seq(Host), step)
  <2> SUFFICES ASSUME NEW t \in SUBSET (1 .. n), t # {}, iter[t \ {Max(t)}] \in Seq(Host)
               PROVE  iter[t] = step[iter[t \ {Max(t)}], Max(t)]
    BY DEF Follows
  <2>1. iter[t] = Put(iter[t \ {Max(t)}], s[Max(t)])
    BY <1>1, <1>5
  <2>2. Max(t) \in 1 .. n
    BY <1>1, GreatestIn
  <2> QED
    BY <1>3, <2>1, <2>2
<1> HIDE DEF Is
<1>9. PICK f \in [0 .. n -> Seq(Host)] : Steps(f, n, b, step) /\ f[n] = iter[1 .. n]
  <2>1. n \in Nat
    BY <1>1
  <2>2. Leads(n, Seq(Host), b, step, iter[1 .. n])
    BY ONLY <2>1, b \in Seq(Host), <1>2, <1>7, <1>8, FoldSteps
  <2> QED
    BY <2>2 DEF Leads
<1>10. \A k \in 1 .. n : f[k] = Put(f[k - 1], s[k])
  <2> SUFFICES ASSUME NEW k \in 1 .. n PROVE f[k] = Put(f[k - 1], s[k])
    OBVIOUS
  <2>1. f[k - 1] \in Seq(Host)
    BY <1>1
  <2> QED
    BY <1>3, <1>9, <2>1 DEF Steps
<1>11. f[0] = b /\ f[n] = FoldLeft(Put, b, s)
  BY <1>6, <1>9 DEF Steps
<1> QED
  BY <1>10, <1>11 DEF n

(* build_hostnames starts without hosts and with the number 1.             *)
LEMMA StartIs ==
  /\ Fit([hosts |-> <<>>, next |-> HighestId(<<>>) + 1])
  /\ Names(<<>>) = {} /\ Ips(<<>>) = {} /\ HighestId(<<>>) = 0
<1>1. Names(<<>>) = {} /\ Ips(<<>>) = {}
  BY DEF Names, Ips
<1>2. HighestId(<<>>) = 0
  BY <1>1 DEF HighestId
<1> QED
  BY <1>1, <1>2 DEF Fit, Builder, Distinct, Apart

(* What every argument keeps, the command line keeps.                      *)
LEMMA HostnamesIs ==
  ASSUME NEW args \in Seq(Arguments)
  PROVE  Fit(Hostnames(<<>>, args))
<1> DEFINE b == [hosts |-> <<>>, next |-> HighestId(<<>>) + 1]
<1>1. b \in Builder /\ Fit(b) /\ Len(args) \in Nat /\ \A k \in 1 .. Len(args) : args[k] \in Arguments
  BY StartIs DEF Fit
<1>2. Hostnames(<<>>, args) = FoldLeft(TakeAll, b, args)
  BY DEF Hostnames
<1> HIDE DEF b
<1>3. PICK f \in [0 .. Len(args) -> Builder] :
         /\ f[0] = b /\ f[Len(args)] = FoldLeft(TakeAll, b, args)
         /\ \A k \in 1 .. Len(args) : f[k] = TakeAll(f[k - 1], args[k])
  BY <1>1, TakeAllSteps
<1> DEFINE S == {k \in Nat : k <= Len(args) => Fit(f[k])}
<1>4. ASSUME NEW k \in Nat, k \in S PROVE k + 1 \in S
  <2> SUFFICES ASSUME k + 1 <= Len(args) PROVE Fit(f[k + 1])
    OBVIOUS
  <2>1. k + 1 \in 1 .. Len(args) /\ (k + 1) - 1 = k /\ k <= Len(args)
    BY <1>1
  <2>2. f[k + 1] = TakeAll(f[k], args[k + 1]) /\ args[k + 1] \in Arguments /\ Fit(f[k])
    BY <1>1, <1>3, <1>4, <2>1
  <2> QED
    BY <2>2, TakeAllIs DEF Fit
<1>5. 0 \in S
  BY <1>1, <1>3
<1> HIDE DEF S
<1>6. Len(args) \in S
  BY <1>1, <1>4, <1>5, Induction
<1> QED
  BY <1>1, <1>2, <1>3, <1>6 DEF S

(* `load` lists every host of the document, each name once.                *)
LEMMA LoadedIs ==
  ASSUME NEW hosts \in Seq(Host)
  PROVE  /\ FoldLeft(Put, <<>>, hosts) \in Seq(Host)
         /\ Distinct(FoldLeft(Put, <<>>, hosts))
         /\ Names(hosts) \subseteq Names(FoldLeft(Put, <<>>, hosts))
<1>1. <<>> \in Seq(Host) /\ Len(hosts) \in Nat /\ \A k \in 1 .. Len(hosts) : hosts[k] \in Host
  OBVIOUS
<1>2. PICK f \in [0 .. Len(hosts) -> Seq(Host)] :
         /\ f[0] = <<>> /\ f[Len(hosts)] = FoldLeft(Put, <<>>, hosts)
         /\ \A k \in 1 .. Len(hosts) : f[k] = Put(f[k - 1], hosts[k])
  BY <1>1, PutSteps
<1> DEFINE Listed(k) == Distinct(f[k]) /\ \A i \in 1 .. k : hosts[i].name \in Names(f[k])
           S == {k \in Nat : k <= Len(hosts) => Listed(k)}
<1>3. Listed(0)
  BY <1>2 DEF Distinct
<1>4. ASSUME NEW k \in Nat, k + 1 <= Len(hosts), Listed(k) PROVE Listed(k + 1)
  <2>1. k + 1 \in 1 .. Len(hosts) /\ (k + 1) - 1 = k /\ k \in 0 .. Len(hosts)
    BY <1>1, <1>4
  <2>2. f[k + 1] = Put(f[k], hosts[k + 1]) /\ hosts[k + 1] \in Host /\ f[k] \in Seq(Host)
    BY <1>1, <1>2, <2>1
  <2>3. Distinct(f[k + 1]) /\ Names(f[k + 1]) = Names(f[k]) \cup {hosts[k + 1].name}
    BY <1>4, <2>2, PutIs
  <2>4. \A i \in 1 .. k + 1 : i \in 1 .. k \/ i = k + 1
    OBVIOUS
  <2> QED
    BY <1>4, <2>3, <2>4
<1> HIDE DEF Listed
<1>5. 0 \in S /\ \A k \in Nat : k \in S => k + 1 \in S
  BY <1>1, <1>3, <1>4
<1> HIDE DEF S
<1>6. Len(hosts) \in S
  BY <1>1, <1>5, Induction
<1>7. Listed(Len(hosts))
  BY <1>1, <1>6 DEF S
<1>8. f[Len(hosts)] \in Seq(Host)
  BY <1>1
<1> QED
  BY <1>1, <1>2, <1>7, <1>8 DEF Listed, Names

-----------------------------------------------------------------------------
(* Names that are distinct count the hosts, the first k of them are k, and *)
(* addresses that are apart count the hosts too.                           *)
LEMMA Sizes ==
  ASSUME NEW hosts \in Seq(Host)
  PROVE  /\ Distinct(hosts) =>
               /\ Cardinality(Names(hosts)) = Len(hosts)
               /\ \A k \in 0 .. Len(hosts) : Cardinality(First(k, hosts)) = k
         /\ Apart(hosts) => Cardinality(Ips(hosts)) = Len(hosts)
<1>1. Len(hosts) \in Nat /\ DOMAIN hosts = 1 .. Len(hosts)
  OBVIOUS
<1>2. ASSUME NEW k \in 0 .. Len(hosts), Distinct(hosts) PROVE Cardinality(First(k, hosts)) = k
  <2> DEFINE f == [i \in 1 .. k |-> hosts[i].name]
  <2>1. First(k, hosts) = {hosts[i].name : i \in 1 .. k}
    BY <1>1 DEF First
  <2>2. \A i \in 1 .. k : f[i] \in First(k, hosts)
    BY <2>1
  <2>3. \A i, j \in 1 .. k : f[i] = f[j] => i = j
    BY <1>1, <1>2 DEF Distinct
  <2>4. \A x \in First(k, hosts) : \E i \in 1 .. k : f[i] = x
    BY <2>1
  <2>5. f \in Bijection(1 .. k, First(k, hosts))
    BY <2>2, <2>3, <2>4 DEF Bijection, Injection, IsInjective, Surjection
  <2>6. ExistsBijection(1 .. k, First(k, hosts))
    BY <2>5 DEF ExistsBijection
  <2>7. IsFiniteSet(1 .. k) /\ Cardinality(1 .. k) = k
    BY FS_Interval
  <2>8. Cardinality(First(k, hosts)) = Cardinality(1 .. k)
    BY ONLY <2>6, <2>7, FS_Bijection
  <2> QED
    BY ONLY <2>7, <2>8
<1>3. Names(hosts) = First(Len(hosts), hosts)
  BY <1>1 DEF First, Names
<1>4. ASSUME Apart(hosts) PROVE Cardinality(Ips(hosts)) = Len(hosts)
  <2> DEFINE f == [i \in 1 .. Len(hosts) |-> hosts[i].ip]
  <2>1. Ips(hosts) = {hosts[i].ip : i \in 1 .. Len(hosts)}
    BY <1>1 DEF Ips
  <2>2. \A i \in 1 .. Len(hosts) : f[i] \in Ips(hosts)
    BY <2>1
  <2>3. \A i, j \in 1 .. Len(hosts) : f[i] = f[j] => i = j
    BY <1>1, <1>4 DEF Apart
  <2>4. \A x \in Ips(hosts) : \E i \in 1 .. Len(hosts) : f[i] = x
    BY <2>1
  <2>5. f \in Bijection(1 .. Len(hosts), Ips(hosts))
    BY <2>2, <2>3, <2>4 DEF Bijection, Injection, IsInjective, Surjection
  <2>6. ExistsBijection(1 .. Len(hosts), Ips(hosts))
    BY <2>5 DEF ExistsBijection
  <2>7. IsFiniteSet(1 .. Len(hosts)) /\ Cardinality(1 .. Len(hosts)) = Len(hosts)
    BY <1>1, FS_Interval
  <2>8. Cardinality(Ips(hosts)) = Cardinality(1 .. Len(hosts))
    BY ONLY <2>6, <2>7, FS_Bijection
  <2> QED
    BY ONLY <2>7, <2>8
<1>5. Len(hosts) \in 0 .. Len(hosts)
  BY <1>1
<1> QED
  BY <1>2, <1>3, <1>4, <1>5

(* The configuration starts empty, so there is no host of a group to       *)
(* purge.                                                                  *)
LEMMA BuildIs ==
  ASSUME NEW args
  PROVE  LET hosts == BuildHostnames(<<>>, args)
             etcd == First(EtcdCount(Len(hosts)), hosts)
             control == KubeControlPlane(hosts)
         IN  Build(Loaded, args) =
               [hosts |-> hosts, etcd |-> etcd, control |-> control,
                node |-> KubeNode(hosts, etcd, control), rr |-> CalicoRr(hosts)]
BY DEF Build, Loaded, Nothing, AddToGroup, PurgeInvalidHosts

(* The roles among any hosts of distinct names, below the thresholds,      *)
(* between them and above.  If they leave hosts for all, the fourth host   *)
(* is at scale the first of the control plane, and on a massive scale the  *)
(* last host is in neither role.                                           *)
LEMMA RolesFit ==
  ASSUME NEW hosts \in Seq(Host), Distinct(hosts), NEW etcd, NEW control, NEW node, NEW rr,
         etcd = First(EtcdCount(Len(hosts)), hosts),
         control = KubeControlPlane(hosts),
         node = KubeNode(hosts, etcd, control),
         rr = CalicoRr(hosts)
  PROVE  /\ etcd \cup control \cup node \cup rr \subseteq Names(hosts)
         /\ hosts # <<>> =>
              /\ Cardinality(etcd) % 2 = 1
              /\ HostsForAll => control # {} /\ node # {}
              /\ Len(hosts) >= ScaleThreshold => (etcd \cup rr) \cap (control \cup node) = {}
              /\ Len(hosts) >= MassiveThreshold => control \cap node = {}
<1> DEFINE n == Len(hosts)
           big == n >= ScaleThreshold
           huge == n >= MassiveThreshold
<1>1. n \in Nat /\ DOMAIN hosts = 1 .. n /\ (hosts # <<>> => n > 0)
  OBVIOUS
<1>2. ControlHosts \in Nat /\ ScaleThreshold \in Nat /\ MassiveThreshold \in Nat
  BY BuilderAssumption
<1>3. EtcdCount(n) = (IF n >= 3 THEN 3 ELSE 1)
  BY DEF EtcdCount
<1>4. \A k \in Nat : First(k, hosts) = {hosts[i].name : i \in {j \in 1 .. n : j <= k}}
  BY <1>1 DEF First
<1>5. Names(hosts) = {hosts[i].name : i \in 1 .. n}
  BY <1>1 DEF Names
<1>6. \A i \in 1 .. n : \A k \in Nat : hosts[i].name \in First(k, hosts) <=> i <= k
  BY <1>1, <1>4 DEF Distinct
<1>7. \A k \in Nat : First(k, hosts) \subseteq Names(hosts)
  BY <1>4, <1>5
<1>8. EtcdCount(n) \in Nat /\ EtcdCount(n) + ControlHosts \in Nat
  BY <1>2, <1>3
<1>9. /\ ~big => control = First(ControlHosts, hosts)
      /\ big => control = First(EtcdCount(n) + ControlHosts, hosts) \ etcd
  BY <1>8 DEF KubeControlPlane
<1>10. /\ rr = IF big THEN etcd ELSE {}
       /\ node = Names(hosts) \ ((IF big THEN etcd ELSE {}) \cup (IF huge THEN control ELSE {}))
  BY DEF CalicoRr, KubeNode
<1> HIDE DEF n
<1>11. etcd \cup control \cup node \cup rr \subseteq Names(hosts)
  BY <1>2, <1>7, <1>8, <1>9, <1>10 DEF n
<1> SUFFICES ASSUME hosts # <<>>
             PROVE  /\ Cardinality(etcd) % 2 = 1
                    /\ HostsForAll => control # {} /\ node # {}
                    /\ big => (etcd \cup rr) \cap (control \cup node) = {}
                    /\ huge => control \cap node = {}
  BY <1>11 DEF n
<1>12. n > 0
  BY <1>1
<1>13. Cardinality(etcd) % 2 = 1
  <2>1. EtcdCount(n) \in 0 .. n
    BY <1>1, <1>3, <1>12
  <2>2. Cardinality(etcd) = EtcdCount(n)
    BY <2>1, Sizes DEF n
  <2> QED
    BY <1>3, <2>2
<1>14. ASSUME HostsForAll PROVE control # {}
  <2>0. ControlHosts > 0 /\ ScaleThreshold > 3
    BY <1>14 DEF HostsForAll
  <2>1. CASE ~big
    <3>1. hosts[1].name \in First(ControlHosts, hosts)
      BY <1>1, <1>2, <1>6, <1>12, <2>0
    <3> QED
      BY <1>9, <2>1, <3>1
  <2>2. CASE big
    <3>1. EtcdCount(n) = 3 /\ 4 \in 1 .. n
      BY <1>1, <1>2, <1>3, <2>0, <2>2
    <3>2. hosts[4].name \in First(3 + ControlHosts, hosts) /\ hosts[4].name \notin First(3, hosts)
      BY <1>2, <1>6, <2>0, <3>1
    <3> QED
      BY <1>9, <2>2, <3>1, <3>2 DEF n
  <2> QED
    BY <2>1, <2>2
<1>15. ASSUME HostsForAll PROVE node # {}
  <2>0. ScaleThreshold > 3 /\ MassiveThreshold > 3 + ControlHosts
    BY <1>15 DEF HostsForAll
  <2>1. CASE huge
    <3>1. n \in 1 .. n /\ n > 3 + ControlHosts
      BY <1>1, <1>2, <1>12, <2>0, <2>1
    <3>2. EtcdCount(n) = 3
      BY <1>2, <1>3, <3>1
    <3>3. hosts[n].name \in Names(hosts) /\ hosts[n].name \notin First(3, hosts)
          /\ hosts[n].name \notin First(ControlHosts, hosts)
          /\ hosts[n].name \notin First(3 + ControlHosts, hosts)
      BY <1>1, <1>2, <1>5, <1>6, <3>1
    <3>4. hosts[n].name \notin control /\ hosts[n].name \notin etcd
      BY <1>9, <3>2, <3>3 DEF n
    <3> QED
      BY <1>10, <3>3, <3>4
  <2>2. CASE ~huge /\ big
    <3>1. EtcdCount(n) = 3 /\ 4 \in 1 .. n
      BY <1>1, <1>2, <1>3, <2>0, <2>2
    <3>2. hosts[4].name \in Names(hosts) /\ hosts[4].name \notin First(3, hosts)
      BY <1>5, <1>6, <3>1
    <3> QED
      BY <1>10, <2>2, <3>1, <3>2 DEF n
  <2>3. CASE ~huge /\ ~big
    <3>1. hosts[1].name \in Names(hosts)
      BY <1>1, <1>5, <1>12
    <3> QED
      BY <1>10, <2>3, <3>1
  <2> QED
    BY <2>1, <2>2, <2>3
<1>16. /\ big => (etcd \cup rr) \cap (control \cup node) = {}
       /\ huge => control \cap node = {}
  BY <1>9, <1>10
<1> QED
  BY <1>13, <1>14, <1>15, <1>16

(* What an invocation writes.                                              *)
LEMMA InvocationIs ==
  ASSUME NEW args \in Seq(Arguments), NEW made, made = Build(Loaded, args)
  PROVE  /\ made.hosts \in Seq(Host) /\ Distinct(made.hosts) /\ Apart(made.hosts)
         /\ made.etcd \cup made.control \cup made.node \cup made.rr \subseteq Names(made.hosts)
         /\ made.hosts # <<>> =>
              /\ Cardinality(made.etcd) % 2 = 1
              /\ HostsForAll => made.control # {} /\ made.node # {}
              /\ Len(made.hosts) >= ScaleThreshold =>
                    (made.etcd \cup made.rr) \cap (made.control \cup made.node) = {}
              /\ Len(made.hosts) >= MassiveThreshold => made.control \cap made.node = {}
<1> DEFINE hosts == BuildHostnames(<<>>, args)
           etcd == First(EtcdCount(Len(hosts)), hosts)
           control == KubeControlPlane(hosts)
           node == KubeNode(hosts, etcd, control)
           rr == CalicoRr(hosts)
<1>1. hosts \in Seq(Host) /\ Distinct(hosts) /\ Apart(hosts)
  BY HostnamesIs DEF Fit, Builder, BuildHostnames
<1>2. made = [hosts |-> hosts, etcd |-> etcd, control |-> control, node |-> node, rr |-> rr]
  BY BuildIs
<1> HIDE DEF hosts
<1>3. /\ etcd \cup control \cup node \cup rr \subseteq Names(hosts)
      /\ hosts # <<>> =>
           /\ Cardinality(etcd) % 2 = 1
           /\ HostsForAll => control # {} /\ node # {}
           /\ Len(hosts) >= ScaleThreshold => (etcd \cup rr) \cap (control \cup node) = {}
           /\ Len(hosts) >= MassiveThreshold => control \cap node = {}
  BY <1>1, RolesFit
<1> HIDE DEF etcd, control, node, rr
<1> QED
  BY <1>1, <1>2, <1>3

-----------------------------------------------------------------------------
(* A number that never falls is highest at the end.                        *)
LEMMA Rising ==
  ASSUME NEW n \in Nat, NEW f \in [0 .. n -> Builder],
         \A k \in 1 .. n : f[k - 1].next <= f[k].next
  PROVE  \A k \in 0 .. n : f[k].next <= f[n].next
<1> DEFINE S == {m \in Nat : m <= n => \A k \in 0 .. m : f[k].next <= f[m].next}
<1>1. \A k \in 0 .. n : f[k].next \in Nat
  BY DEF Builder
<1>2. 0 \in S
  <2>1. f[0].next <= f[0].next
    BY <1>1
  <2> QED
    BY <2>1
<1>3. ASSUME NEW m \in Nat, m \in S PROVE m + 1 \in S
  <2> SUFFICES ASSUME m + 1 <= n, NEW k \in 0 .. m + 1 PROVE f[k].next <= f[m + 1].next
    OBVIOUS
  <2>1. m \in 0 .. n /\ m + 1 \in 1 .. n /\ (m + 1) - 1 = m /\ k \in 0 .. n /\ m + 1 \in 0 .. n
    OBVIOUS
  <2>2. f[m].next <= f[m + 1].next
    BY <2>1
  <2>3. f[m].next \in Nat /\ f[m + 1].next \in Nat /\ f[k].next \in Nat
    BY <1>1, <2>1
  <2>4. CASE k = m + 1
    BY <2>3, <2>4
  <2>5. CASE k \in 0 .. m
    <3>1. f[k].next <= f[m].next
      BY <1>3, <2>1, <2>5
    <3> QED
      BY <2>2, <2>3, <3>1
  <2> QED
    BY <2>4, <2>5
<1> HIDE DEF S
<1>4. n \in S
  BY <1>2, <1>3, Induction
<1> QED
  BY <1>4 DEF S

(* The names so far: generated ones, below the next number, and those that *)
(* the arguments gave.                                                     *)
Numbered(b, given) == Fit(b) /\ \A x \in Names(b.hosts) : x < b.next \/ x \in given

(* The assumption of Clear on the part of the command line that has been   *)
(* read: the names given, before and after an argument, are beyond all     *)
(* that are generated up to the end; an argument deletes addresses only,   *)
(* dead ones, and gives a name that is new.                                *)
NamesBeyond(c, before, after, end) ==
    /\ after \subseteq Nat /\ before \subseteq after
    /\ end \in Nat /\ c.next <= end /\ \A x \in after : x >= end
Permitted(arg, before, after, dead) ==
    /\ arg.op # "deleteName"
    /\ arg.op = "deleteIp" => arg.ip \in dead
    /\ arg.op = "named" => arg.name \in after \ before
(* No address is lost but a dead one.                                      *)
KeepsListed(b, c, after, dead) ==
    /\ Numbered(c, after)
    /\ Ips(b.hosts) \ dead \subseteq Ips(c.hosts)

(* Under that assumption a name that is taken, generated or given, is      *)
(* free: the address that comes with it is listed, and no host is          *)
(* replaced.                                                               *)
LEMMA TakeKeeps ==
  ASSUME NEW arg \in Single, NEW b, NEW before, NEW after, NEW end, NEW dead,
         Numbered(b, before), NamesBeyond(Take(b, arg), before, after, end),
         Permitted(arg, before, after, dead)
  PROVE  /\ KeepsListed(b, Take(b, arg), after, dead)
         /\ arg.op \in {"address", "named"} => arg.ip \in Ips(Take(b, arg).hosts)
<1> DEFINE c == Take(b, arg)
<1> HIDE DEF c
<1> SUFFICES /\ Numbered(c, after)
             /\ Ips(b.hosts) \ dead \subseteq Ips(c.hosts)
             /\ arg.op \in {"address", "named"} => arg.ip \in Ips(c.hosts)
  BY DEF KeepsListed, c
<1>0. /\ c = Take(b, arg) /\ before \subseteq after /\ after \in SUBSET Nat /\ end \in Nat
      /\ c.next <= end /\ \A x \in after : x >= end
      /\ arg.op # "deleteName"
      /\ arg.op = "deleteIp" => arg.ip \in dead
      /\ arg.op = "named" => arg.name \in after \ before
  BY DEF NamesBeyond, Permitted, c
<1>1. b \in Builder /\ Fit(b) /\ b.next \in Nat /\ \A x \in Names(b.hosts) : x < b.next \/ x \in before
  BY DEF Numbered, Fit, Builder
<1>2. Names(b.hosts) \subseteq Nat
  <2>1. \A i \in DOMAIN b.hosts : b.hosts[i] \in Host
    BY <1>1 DEF Builder
  <2> QED
    BY <2>1 DEF Host, Names
<1>3. c \in Builder /\ Fit(c) /\ b.next <= c.next /\ c.next \in Nat
  BY <1>1, TakeIs DEF Builder, c
<1>7. c = b => Numbered(c, after)
  BY <1>0 DEF Numbered
<1>4. CASE arg.op = "address"
  <2>1. PICK ip \in Nat : arg.ip = ip /\ c = AddAddress(b, ip)
    BY <1>0, <1>4 DEF Single, Take
  <2>2. Added(b, c, b.next + 1, b.next, ip)
    BY ONLY <1>1, <2>1, ip \in Nat, AddAddressIs
  <2>3. CASE c = b /\ ip \in Ips(b.hosts)
    BY <1>7, <2>1, <2>3
  <2>4. CASE ~(c = b /\ ip \in Ips(b.hosts))
    <3>1. /\ c.next = b.next + 1 /\ Names(c.hosts) = Names(b.hosts) \cup {b.next}
          /\ b.next \notin Names(b.hosts) => Ips(c.hosts) = Ips(b.hosts) \cup {ip}
      BY <2>2, <2>4 DEF Added
    <3>2. b.next \notin Names(b.hosts)
      BY <1>0, <1>1, <1>3, <3>1
    <3>3. \A x \in Names(c.hosts) : x < c.next \/ x \in after
      BY <1>0, <1>1, <1>2, <3>1
    <3> QED
      BY <1>3, <2>1, <3>1, <3>2, <3>3 DEF Numbered
  <2> QED
    BY <2>3, <2>4
<1>5. CASE arg.op = "named"
  <2>1. PICK name \in Nat, ip \in Nat :
           arg.name = name /\ arg.ip = ip /\ c = AddNamed(b, name, ip)
    BY <1>0, <1>5 DEF Single, Take
  <2>2. Added(b, c, b.next, name, ip)
    BY ONLY <1>1, <2>1, name \in Nat, ip \in Nat, AddNamedIs
  <2>3. CASE c = b /\ ip \in Ips(b.hosts)
    BY <1>7, <2>1, <2>3
  <2>4. CASE ~(c = b /\ ip \in Ips(b.hosts))
    <3>1. /\ c.next = b.next /\ Names(c.hosts) = Names(b.hosts) \cup {name}
          /\ name \notin Names(b.hosts) => Ips(c.hosts) = Ips(b.hosts) \cup {ip}
      BY <2>2, <2>4 DEF Added
    <3>2. name \in after /\ name \notin before /\ name >= end
      BY <1>0, <1>5, <2>1
    <3>3. name \notin Names(b.hosts)
      BY <1>0, <1>1, <1>3, <3>1, <3>2
    <3>4. \A x \in Names(c.hosts) : x < c.next \/ x \in after
      BY <1>0, <1>1, <3>1, <3>2
    <3> QED
      BY <1>3, <2>1, <3>1, <3>3, <3>4 DEF Numbered
  <2> QED
    BY <2>3, <2>4
<1>6. CASE arg.op = "deleteIp"
  <2>1. arg.ip \in Nat /\ c = DeleteHostByIp(b, arg.ip) /\ arg.ip \in dead
    BY <1>0, <1>6 DEF Single, Take
  <2>2. /\ c.next = b.next /\ Names(c.hosts) \subseteq Names(b.hosts)
        /\ Ips(b.hosts) \ {arg.ip} \subseteq Ips(c.hosts)
    BY <1>0, <1>1, <2>1, DeleteKeeps
  <2> QED
    BY <1>0, <1>1, <1>3, <1>6, <2>1, <2>2 DEF Numbered
<1> QED
  BY <1>0, <1>4, <1>5, <1>6 DEF Single

(* The addresses that an argument adds, and that it deletes.               *)
Adds(arg) == {x.ip : x \in {y \in Range(Expand(arg)) : y.op \in {"address", "named"}}}
Deletes(arg) == {x.ip : x \in {y \in Range(Expand(arg)) : y.op \in {"deleteIp"}}}

(* The same for an argument as it stands on the command line: of a range,  *)
(* address by address; only the first and only part of an argument can     *)
(* have a name.                                                            *)
LEMMA TakeAllKeeps ==
  ASSUME NEW arg \in Arguments, NEW b, NEW before, NEW after, NEW end, NEW dead,
         Numbered(b, before), NamesBeyond(TakeAll(b, arg), before, after, end),
         Permitted(arg, before, after, dead), Deletes(arg) \subseteq dead
  PROVE  /\ KeepsListed(b, TakeAll(b, arg), after, dead)
         /\ Adds(arg) \ dead \subseteq Ips(TakeAll(b, arg).hosts)
<1> DEFINE s == Expand(arg)
           n == Len(s)
<1>1. s \in Seq(Single) /\ n \in Nat /\ DOMAIN s = 1 .. n /\ \A k \in 1 .. n : s[k] \in Single
  BY ExpandIs
<1>2. \A k \in 1 .. n :
         /\ s[k].op # "deleteName"
         /\ s[k].op = "named" => k = 1 /\ s[k].name \in after \ before
  <2>1. CASE arg.op = "range"
    <3> SUFFICES ASSUME NEW k \in 1 .. n PROVE s[k].op = "address"
      OBVIOUS
    <3>1. ~(arg.from > arg.to)
      BY <2>1, ExpandIs
    <3>2. s[k] = Address(arg.from + k - 1)
      BY <2>1, <3>1, ExpandIs
    <3> QED
      BY <3>2 DEF Address
  <2>2. CASE arg.op # "range"
    <3>1. s = <<arg>> /\ n = 1 /\ s[1] = arg
      BY <2>2, ExpandIs
    <3> HIDE DEF s, n
    <3> QED
      BY <3>1 DEF Permitted
  <2> QED
    BY <2>1, <2>2
<1>3. \A k \in 1 .. n : s[k].op = "deleteIp" => s[k].ip \in dead
  <2> SUFFICES ASSUME NEW k \in 1 .. n, s[k].op = "deleteIp" PROVE s[k].ip \in Deletes(arg)
    OBVIOUS
  <2>1. s[k] \in Range(s)
    BY <1>1 DEF Range
  <2> QED
    BY <2>1 DEF Deletes
<1>4. Adds(arg) = {s[k].ip : k \in {i \in 1 .. n : s[i].op \in {"address", "named"}}}
  BY <1>1 DEF Adds, Range
<1>5. b \in Builder
  BY DEF Numbered, Fit
<1>0. after \subseteq Nat /\ before \subseteq after /\ end \in Nat /\ \A x \in after : x >= end
  BY DEF NamesBeyond
<1> HIDE DEF s, n
<1>6. PICK f \in [0 .. n -> Builder] :
         /\ f[0] = b /\ f[n] = FoldLeft(Take, b, s)
         /\ \A k \in 1 .. n : f[k] = Take(f[k - 1], s[k])
  BY <1>1, <1>5, TakeSteps DEF n
<1>7. f[n] = TakeAll(b, arg) /\ f[n].next <= end
  BY <1>6 DEF TakeAll, s, NamesBeyond
<1>8. \A k \in 0 .. n : f[k].next <= end
  <2>1. \A k \in 1 .. n : f[k - 1].next <= f[k].next
    <3> SUFFICES ASSUME NEW k \in 1 .. n PROVE f[k - 1].next <= f[k].next
      OBVIOUS
    <3>1. f[k - 1] \in Builder /\ s[k] \in Single /\ f[k] = Take(f[k - 1], s[k])
      BY <1>1, <1>6
    <3> QED
      BY <3>1, TakeIs
  <2>2. \A k \in 0 .. n : f[k].next <= f[n].next
    BY <1>1, <2>1, Rising
  <2>3. \A k \in 0 .. n : f[k].next \in Nat
    BY DEF Builder
  <2>4. n \in 0 .. n
    BY <1>1
  <2> QED
    BY <1>0, <1>7, <2>2, <2>3, <2>4
<1> DEFINE names(k) == IF k = 0 THEN before ELSE after
           Good(k) == /\ KeepsListed(b, f[k], names(k), dead)
                      /\ \A i \in 1 .. k : s[i].op \in {"address", "named"} =>
                            s[i].ip \in dead \/ s[i].ip \in Ips(f[k].hosts)
           S == {k \in Nat : k <= n => Good(k)}
<1>9. Good(0)
  BY <1>6 DEF KeepsListed
<1>10. ASSUME NEW k \in Nat, k + 1 <= n, Good(k) PROVE Good(k + 1)
  <2>1. k + 1 \in 1 .. n /\ (k + 1) - 1 = k /\ k \in 0 .. n /\ k + 1 \in 0 .. n /\ k + 1 # 0
    BY <1>1, <1>10
  <2> DEFINE x == f[k]
             y == f[k + 1]
             a == s[k + 1]
             given == names(k)
  <2>2. y = Take(x, a) /\ a \in Single /\ y.next <= end
    BY <1>1, <1>6, <1>8, <2>1
  <2>3. given \subseteq after /\ names(k + 1) = after
    BY <1>0, <2>1
  <2>4. /\ a.op # "deleteName"
        /\ a.op = "deleteIp" => a.ip \in dead
        /\ a.op = "named" => a.name \in after \ given
    BY <1>2, <1>3, <2>1
  <2>5. Numbered(x, given)
    BY <1>10 DEF KeepsListed
  <2> HIDE DEF x, y, a, given
  <2>6. NamesBeyond(Take(x, a), given, after, end) /\ Permitted(a, given, after, dead)
    BY <1>0, <2>2, <2>3, <2>4 DEF NamesBeyond, Permitted
  <2>7. /\ KeepsListed(x, y, after, dead)
        /\ a.op \in {"address", "named"} => a.ip \in Ips(y.hosts)
    BY ONLY <2>2, <2>5, <2>6, TakeKeeps
  <2>8. \A i \in 1 .. k + 1 : i \in 1 .. k \/ i = k + 1
    OBVIOUS
  <2>9. KeepsListed(b, y, after, dead)
    BY <1>10, <2>7 DEF KeepsListed, x
  <2>10. \A i \in 1 .. k : s[i].op \in {"address", "named"} =>
            s[i].ip \in dead \/ s[i].ip \in Ips(y.hosts)
    BY <1>10, <2>7 DEF KeepsListed, x
  <2> QED
    BY <2>3, <2>7, <2>8, <2>9, <2>10 DEF y, a
<1> HIDE DEF Good
<1>11. 0 \in S /\ \A k \in Nat : k \in S => k + 1 \in S
  BY <1>1, <1>9, <1>10
<1> HIDE DEF S
<1>12. n \in S
  BY <1>1, <1>11, Induction
<1>13. Good(n)
  BY <1>1, <1>12 DEF S
<1>14. KeepsListed(b, f[n], before, dead) => KeepsListed(b, f[n], after, dead)
  BY <1>0 DEF KeepsListed, Numbered
<1> QED
  BY <1>4, <1>7, <1>13, <1>14 DEF Good

(* What the command line mentions, argument by argument.                   *)
LEMMA MentionedIs ==
  ASSUME NEW args \in Seq(Arguments)
  PROVE  /\ Mentioned(args, {"address", "named"}) = UNION {Adds(args[i]) : i \in DOMAIN args}
         /\ Mentioned(args, {"deleteIp"}) = UNION {Deletes(args[i]) : i \in DOMAIN args}
BY DEF Mentioned, Adds, Deletes

(* Once listed, an address stays unless it is dead: after k arguments, all *)
(* that the first k add and none deletes are there.                        *)
LEMMA AddressesListed ==
  ASSUME NEW args \in Seq(Arguments), Clear(args)
  PROVE  Mentioned(args, {"address", "named"}) \ Mentioned(args, {"deleteIp"})
            \subseteq Ips(BuildHostnames(<<>>, args))
<1> DEFINE b == [hosts |-> <<>>, next |-> HighestId(<<>>) + 1]
           n == Len(args)
           end == Hostnames(<<>>, args).next
           dead == Mentioned(args, {"deleteIp"})
           given(k) == {args[i].name : i \in {j \in 1 .. k : args[j].op = "named"}}
<1>1. n \in Nat /\ DOMAIN args = 1 .. n /\ \A k \in 1 .. n : args[k] \in Arguments
  OBVIOUS
<1>2. b \in Builder /\ Numbered(b, {})
  BY StartIs DEF Fit, Numbered
<1>3. Hostnames(<<>>, args) = FoldLeft(TakeAll, b, args) /\ end \in Nat
  BY HostnamesIs DEF Hostnames, Fit, Builder
<1>4. \A k \in 1 .. n :
         /\ args[k].op # "deleteName"
         /\ args[k].op = "named" => args[k].name \in Nat /\ args[k].name >= end
         /\ Deletes(args[k]) \subseteq dead
  <2>1. \A k \in 1 .. n : args[k].op = "named" => args[k].name \in Nat
    BY <1>1, InputAssumption
  <2>2. \A k \in 1 .. n : Deletes(args[k]) \subseteq dead
    BY <1>1, MentionedIs
  <2> QED
    BY <1>1, <2>1, <2>2 DEF Clear, Loaded, Nothing
<1>5. \A i, j \in 1 .. n : args[i].op = "named" /\ args[j].op = "named" /\ i # j => args[i].name # args[j].name
  BY <1>1 DEF Clear
<1> HIDE DEF b, n, end, dead
<1>6. PICK f \in [0 .. n -> Builder] :
         /\ f[0] = b /\ f[n] = FoldLeft(TakeAll, b, args)
         /\ \A k \in 1 .. n : f[k] = TakeAll(f[k - 1], args[k])
  BY <1>2, TakeAllSteps DEF n
<1>7. f[n] = Hostnames(<<>>, args)
  BY <1>3, <1>6
<1>8. \A k \in 0 .. n : f[k].next <= end
  <2>1. \A k \in 1 .. n : f[k - 1].next <= f[k].next
    <3> SUFFICES ASSUME NEW k \in 1 .. n PROVE f[k - 1].next <= f[k].next
      OBVIOUS
    <3>1. f[k - 1] \in Builder /\ args[k] \in Arguments /\ f[k] = TakeAll(f[k - 1], args[k])
      BY <1>1, <1>6
    <3> QED
      BY <3>1, TakeAllIs
  <2>2. \A k \in 0 .. n : f[k].next <= f[n].next
    BY <1>1, <2>1, Rising
  <2> QED
    BY <1>7, <2>2 DEF end
<1> DEFINE Good(k) == /\ Numbered(f[k], given(k))
                      /\ \A i \in 1 .. k : Adds(args[i]) \ dead \subseteq Ips(f[k].hosts)
           S == {k \in Nat : k <= n => Good(k)}
<1>9. Good(0)
  <2>1. given(0) = {}
    OBVIOUS
  <2>2. 1 .. 0 = {}
    OBVIOUS
  <2> HIDE DEF given
  <2> QED
    BY ONLY <1>2, <1>6, <2>1, <2>2
<1>10. ASSUME NEW k \in Nat, k + 1 <= n, Good(k) PROVE Good(k + 1)
  <2>1. k + 1 \in 1 .. n /\ (k + 1) - 1 = k /\ k + 1 \in 0 .. n
    BY <1>1, <1>10
  <2> DEFINE x == f[k]
             y == f[k + 1]
             a == args[k + 1]
             before == given(k)
             after == given(k + 1)
  <2>2. y = TakeAll(x, a) /\ a \in Arguments /\ y.next <= end
    BY <1>1, <1>6, <1>8, <2>1
  <2>3. before \subseteq after /\ after \subseteq Nat /\ \A z \in after : z >= end
    BY <1>1, <1>4, <2>1
  <2>4. /\ a.op # "deleteName" /\ Deletes(a) \subseteq dead
        /\ a.op = "named" => a.name \in after \ before
    BY <1>1, <1>4, <1>5, <2>1
  <2>5. a.op = "deleteIp" => a.ip \in dead
    <3> SUFFICES ASSUME a.op = "deleteIp" PROVE a.ip \in Deletes(a)
      BY <2>4
    <3>1. Expand(a) = <<a>>
      BY <2>2, ExpandIs
    <3> QED
      BY <3>1 DEF Deletes, Range
  <2>6. Numbered(x, before)
    BY <1>10
  <2> HIDE DEF x, y, a, before, after
  <2>7. NamesBeyond(TakeAll(x, a), before, after, end) /\ Permitted(a, before, after, dead)
    BY <1>3, <2>2, <2>3, <2>4, <2>5 DEF NamesBeyond, Permitted
  <2>8. KeepsListed(x, y, after, dead) /\ Adds(a) \ dead \subseteq Ips(y.hosts)
    BY ONLY <2>2, <2>4, <2>6, <2>7, TakeAllKeeps
  <2>9. \A i \in 1 .. k + 1 : i \in 1 .. k \/ i = k + 1
    OBVIOUS
  <2>10. \A i \in 1 .. k : Adds(args[i]) \ dead \subseteq Ips(y.hosts)
    BY <1>10, <2>8 DEF KeepsListed, x
  <2> QED
    BY <2>8, <2>9, <2>10 DEF KeepsListed, y, a, after
<1> HIDE DEF Good
<1>11. 0 \in S /\ \A k \in Nat : k \in S => k + 1 \in S
  BY <1>1, <1>9, <1>10
<1> HIDE DEF S
<1>12. n \in S
  BY <1>1, <1>11, Induction
<1>13. Good(n)
  BY <1>1, <1>12 DEF S
<1>14. \A i \in 1 .. n : Adds(args[i]) \ dead \subseteq Ips(f[n].hosts)
  BY <1>13 DEF Good
<1>15. Mentioned(args, {"address", "named"}) = UNION {Adds(args[i]) : i \in 1 .. n}
  BY <1>1, MentionedIs
<1> QED
  BY <1>7, <1>14, <1>15 DEF BuildHostnames, dead

-----------------------------------------------------------------------------
(* The inventory that is on disk is one that the last command line makes,  *)
(* or a document, in which no name occurs twice.                           *)
BuilderInv ==
    /\ argv \in Seq(Arguments) /\ Len(argv) <= MaxArguments
    /\ runs \in 0 .. MaxRuns
    /\ argv # <<>> => file = Build(Loaded, argv)
    /\ file.hosts \in Seq(Host) /\ Distinct(file.hosts)
    /\ file.etcd \cup file.control \cup file.node \cup file.rr \subseteq Names(file.hosts)

LEMMA BuilderInvInit == BuilderInit => BuilderInv
<1> SUFFICES ASSUME BuilderInit PROVE BuilderInv
  OBVIOUS
<1>1. file = Nothing /\ argv = <<>> /\ runs = 0 /\ MaxRuns \in Nat /\ MaxArguments \in Nat
  BY BuilderAssumption DEF BuilderInit
<1> QED
  BY <1>1 DEF BuilderInv, Nothing, Distinct, Names

LEMMA BuilderInvStep == BuilderInv /\ [BuilderNext]_builderVars => BuilderInv'
<1> SUFFICES ASSUME BuilderInv, [BuilderNext]_builderVars PROVE BuilderInv'
  OBVIOUS
<1>1. MaxRuns \in Nat /\ MaxArguments \in Nat
  BY BuilderAssumption
<1>2. ASSUME NEW args \in SeqOf(Arguments, MaxArguments), args # <<>>, Run(args)
      PROVE  BuilderInv'
  <2>1. args \in Seq(Arguments) /\ Len(args) <= MaxArguments
    BY <1>1 DEF SeqOf
  <2>2. argv' = args /\ file' = Build(Loaded, args) /\ runs' \in 0 .. MaxRuns
    BY <1>1, <1>2 DEF Run, BuilderInv
  <2>3. /\ file'.hosts \in Seq(Host) /\ Distinct(file'.hosts)
        /\ file'.etcd \cup file'.control \cup file'.node \cup file'.rr \subseteq Names(file'.hosts)
    BY <2>1, <2>2, InvocationIs
  <2>4. Build(Loaded, argv)' = Build(Loaded, argv')
    OBVIOUS
  <2> QED
    BY <2>1, <2>2, <2>3, <2>4 DEF BuilderInv, Distinct, Names
<1>3. ASSUME NEW doc \in Documents, Load(doc) PROVE BuilderInv'
  <2>1. argv' = <<>> /\ runs' \in 0 .. MaxRuns
    BY <1>1, <1>3 DEF Load, BuilderInv
  <2>2. /\ doc.hosts \in Seq(Host)
        /\ doc = [hosts |-> doc.hosts, etcd |-> doc.etcd, control |-> doc.control,
                  node |-> doc.node, rr |-> doc.rr]
        /\ doc.etcd \cup doc.control \cup doc.node \cup doc.rr \subseteq Names(doc.hosts)
    BY InputAssumption DEF Names
  <2> DEFINE hosts == FoldLeft(Put, <<>>, doc.hosts)
  <2>3. file' = [doc EXCEPT !.hosts = hosts]
    BY <1>3 DEF Load, Loaded, Nothing
  <2>4. hosts \in Seq(Host) /\ Distinct(hosts) /\ Names(doc.hosts) \subseteq Names(hosts)
    BY <2>2, LoadedIs
  <2> HIDE DEF hosts
  <2>5. file' = [hosts |-> hosts, etcd |-> doc.etcd, control |-> doc.control,
                 node |-> doc.node, rr |-> doc.rr]
    BY <2>2, <2>3
  <2>6. /\ file'.hosts \in Seq(Host) /\ Distinct(file'.hosts)
        /\ file'.etcd \cup file'.control \cup file'.node \cup file'.rr \subseteq Names(file'.hosts)
    BY <2>2, <2>4, <2>5
  <2> QED
    BY <1>1, <2>1, <2>6 DEF BuilderInv, Distinct, Names
<1>4. CASE UNCHANGED builderVars
  BY <1>4 DEF BuilderInv, builderVars, Distinct, Names
<1> QED
  BY <1>2, <1>3, <1>4 DEF BuilderNext

(* The inventory is well formed after any number of invocations, with any  *)
(* arguments and documents: no name occurs twice, and every group consists *)
(* of listed hosts.                                                        *)
THEOREM BuilderTypeCorrect == BuilderSpec => []BuilderTypeOK
<1>1. BuilderInv => BuilderTypeOK
  BY Sizes DEF BuilderInv, BuilderTypeOK
<1> QED
  BY <1>1, BuilderInvInit, BuilderInvStep, PTL DEF BuilderSpec

(* Every inventory made from a command line has an odd number of etcd      *)
(* hosts; at scale etcd and the route reflectors are apart from the other  *)
(* roles, and on a massive scale the control plane is apart from the       *)
(* nodes, as inventory.py:411 says, whatever the thresholds are; and if    *)
(* they leave hosts for all (HostsForAll), so does the inventory.          *)
THEOREM RolesAreSound == BuilderSpec => []RolesSound
<1>1. BuilderInv => RolesSound
  <2> SUFFICES ASSUME BuilderInv, Built PROVE RolesSound
    BY DEF RolesSound
  <2>1. argv \in Seq(Arguments) /\ file = Build(Loaded, argv) /\ file.hosts # <<>>
    BY DEF BuilderInv, Built
  <2> QED
    BY <2>1, InvocationIs DEF RolesSound
<1> QED
  BY <1>1, BuilderInvInit, BuilderInvStep, PTL DEF BuilderSpec

(* No address is listed twice; and a command line whose names are apart    *)
(* from each other and from the generated ones, and that deletes by        *)
(* address, leaves every address listed that it adds and does not delete   *)
(* (build_hostnames).                                                      *)
THEOREM AddressesAreListed == BuilderSpec => []EveryAddressListed
<1>1. BuilderInv => EveryAddressListed
  <2> SUFFICES ASSUME BuilderInv, argv # <<>> PROVE EveryAddressListed
    BY DEF EveryAddressListed
  <2>1. argv \in Seq(Arguments) /\ file = Build(Loaded, argv)
    BY DEF BuilderInv
  <2>2. file.hosts = BuildHostnames(<<>>, argv)
    BY <2>1, BuildIs
  <2>3. file.hosts \in Seq(Host) /\ Apart(file.hosts)
    BY <2>1, InvocationIs
  <2> QED
    BY <2>1, <2>2, <2>3, AddressesListed, Sizes DEF EveryAddressListed
<1> QED
  BY <1>1, BuilderInvInit, BuilderInvStep, PTL DEF BuilderSpec

-----------------------------------------------------------------------------
(* The inventory of a cluster that Terraform has made.                     *)

(* The paths that an attribute leads to: their lengths and beginnings.     *)
ScalarPath(a, p) == \E k \in DOMAIN a.scalar : p = <<<<k>>, a.scalar[k]>>
MapPath(a, p) ==
    \E k \in DOMAIN a.map : \/ p = <<<<k, "%">>, "count">>
                            \/ \E j \in DOMAIN a.map[k] : p = <<<<k, j>>, a.map[k][j]>>
ListPath(a, p) ==
    \E k \in DOMAIN a.list : \E i \in DOMAIN a.list[k] :
        p = <<<<k, "#">>, "count">> \/ \E x \in a.list[k][i] : p = <<<<k, i, x[1]>>, x[2]>>

LEMMA FlattenPaths ==
  ASSUME NEW a, NEW p
  PROVE  p \in Flatten(a) <=> ScalarPath(a, p) \/ MapPath(a, p) \/ ListPath(a, p)
<1>1. p \in {<<<<k>>, a.scalar[k]>> : k \in DOMAIN a.scalar} <=> ScalarPath(a, p)
  BY DEF ScalarPath
<1>2. p \in UNION {{<<<<k, "%">>, "count">>} \cup {<<<<k, j>>, a.map[k][j]>> : j \in DOMAIN a.map[k]}
                   : k \in DOMAIN a.map} <=> MapPath(a, p)
  BY DEF MapPath
<1>3. p \in UNION {Items(k, a.list[k]) : k \in DOMAIN a.list} <=> ListPath(a, p)
  BY DEF ListPath, Items
<1> QED
  BY ONLY <1>1, <1>2, <1>3 DEF Flatten

(* A path that leads to one value only leads to it.                        *)
LEMMA AttrIs ==
  ASSUME NEW src, NEW path, NEW v, <<path, v>> \in src, \A p \in src : p[1] = path => p[2] = v
  PROVE  Has(src, path) /\ Attr(src, path) = v
<1>1. <<path, v>>[1] = path
  OBVIOUS
<1>2. \E p \in src : p[1] = path
  BY <1>1
<1> QED
  BY <1>2 DEF Has, Attr

(* A scalar attribute is found under its name, as all other paths are      *)
(* longer.                                                                 *)
LEMMA ScalarAttr ==
  ASSUME NEW a, NEW k \in DOMAIN a.scalar
  PROVE  Attr(Flatten(a), <<k>>) = a.scalar[k]
<1>1. <<<<k>>, a.scalar[k]>> \in Flatten(a)
  BY FlattenPaths DEF ScalarPath
<1>2. ASSUME NEW p \in Flatten(a), p[1] = <<k>> PROVE p[2] = a.scalar[k]
  <2>1. CASE ScalarPath(a, p)
    BY <1>2, <2>1 DEF ScalarPath
  <2>2. CASE MapPath(a, p)
    <3>1. Len(p[1]) = 2
      BY <2>2 DEF MapPath
    <3> QED
      BY <1>2, <3>1
  <2>3. CASE ListPath(a, p)
    <3>1. Len(p[1]) \in {2, 3}
      BY <2>3 DEF ListPath
    <3> QED
      BY <1>2, <3>1
  <2> QED
    BY <2>1, <2>2, <2>3, FlattenPaths
<1> QED
  BY <1>1, <1>2, AttrIs

(* An item of a map, which is not its length.                              *)
LEMMA MapItem ==
  ASSUME NEW a, NEW k, NEW j, j # "%", j # "#", NEW v
  PROVE  <<<<k, j>>, v>> \in Flatten(a) <=> k \in DOMAIN a.map /\ j \in DOMAIN a.map[k] /\ v = a.map[k][j]
<1> DEFINE p == <<<<k, j>>, v>>
<1>1. ~ScalarPath(a, p)
  <2> SUFFICES ASSUME NEW x \in DOMAIN a.scalar, p = <<<<x>>, a.scalar[x]>> PROVE FALSE
    BY DEF ScalarPath
  <2>1. p[1] = <<x>> /\ p[1] = <<k, j>>
    OBVIOUS
  <2>2. Len(<<x>>) = 1 /\ Len(<<k, j>>) = 2
    OBVIOUS
  <2> HIDE DEF p
  <2> QED
    BY ONLY <2>1, <2>2
<1>2. ~ListPath(a, p)
  <2> SUFFICES ASSUME NEW x \in DOMAIN a.list, NEW i \in DOMAIN a.list[x],
                      p = <<<<x, "#">>, "count">> \/ \E y \in a.list[x][i] : p = <<<<x, i, y[1]>>, y[2]>>
               PROVE  FALSE
    BY DEF ListPath
  <2>1. p # <<<<x, "#">>, "count">>
    OBVIOUS
  <2>2. ASSUME NEW y, p = <<<<x, i, y[1]>>, y[2]>> PROVE FALSE
    <3>1. p[1] = <<x, i, y[1]>> /\ p[1] = <<k, j>>
      BY <2>2
    <3>2. Len(<<x, i, y[1]>>) = 3 /\ Len(<<k, j>>) = 2
      OBVIOUS
    <3> HIDE DEF p
    <3> QED
      BY ONLY <3>1, <3>2
  <2> QED
    BY <2>1, <2>2
<1>3. MapPath(a, p) <=> k \in DOMAIN a.map /\ j \in DOMAIN a.map[k] /\ v = a.map[k][j]
  BY DEF MapPath
<1> QED
  BY <1>1, <1>2, <1>3, FlattenPaths

(* An item of a map is found under its name; of a path of two parts only   *)
(* the lengths of maps and lists end otherwise.                            *)
LEMMA MapAttr ==
  ASSUME NEW a, NEW k, NEW j, j # "%", j # "#"
  PROVE  /\ Has(Flatten(a), <<k, j>>) <=> k \in DOMAIN a.map /\ j \in DOMAIN a.map[k]
         /\ Has(Flatten(a), <<k, j>>) => Attr(Flatten(a), <<k, j>>) = a.map[k][j]
<1>1. ASSUME NEW p \in Flatten(a), p[1] = <<k, j>>
      PROVE  k \in DOMAIN a.map /\ j \in DOMAIN a.map[k] /\ p[2] = a.map[k][j]
  <2>1. p = <<p[1], p[2]>>
    BY FlattenPaths DEF ScalarPath, MapPath, ListPath
  <2>2. <<<<k, j>>, p[2]>> \in Flatten(a)
    BY <1>1, <2>1
  <2> QED
    BY <2>2, MapItem
<1>2. ASSUME k \in DOMAIN a.map, j \in DOMAIN a.map[k]
      PROVE  Has(Flatten(a), <<k, j>>) /\ Attr(Flatten(a), <<k, j>>) = a.map[k][j]
  <2>1. <<<<k, j>>, a.map[k][j]>> \in Flatten(a)
    BY <1>2, MapItem
  <2>2. \A p \in Flatten(a) : p[1] = <<k, j>> => p[2] = a.map[k][j]
    BY <1>1
  <2> QED
    BY ONLY <2>1, <2>2, AttrIs
<1> QED
  BY <1>1, <1>2 DEF Has

(* openstack_host finds the ID, the address and the groups of an instance. *)
LEMMA InstanceIs ==
  ASSUME NEW r, r.type = InstanceType, InstanceAttrs(r)
  PROVE  /\ Parsed(r).id = Id(r) /\ Parsed(r).ssh = OwnAddress(r) /\ Members(Parsed(r)) = MemberOf(r)
<1> DEFINE a == r.attrs
           src == Flatten(a)
           map == a.map
<1>1. /\ Attr(src, <<"id">>) = a.scalar.id
      /\ Attr(src, <<"access_ip_v4">>) = a.scalar.access_ip_v4
      /\ Attr(src, <<"access_ip_v6">>) = a.scalar.access_ip_v6
  BY ScalarAttr DEF InstanceAttrs
<1>2. <<<<"metadata", "prefer_ipv6">>, "1">> \in src <=>
         "prefer_ipv6" \in DOMAIN Metadata(r) /\ Metadata(r).prefer_ipv6 = "1"
  <2>1. <<<<"metadata", "prefer_ipv6">>, "1">> \in src <=>
           "metadata" \in DOMAIN map /\ "prefer_ipv6" \in DOMAIN map["metadata"] /\ "1" = map["metadata"]["prefer_ipv6"]
    BY MapItem
  <2> QED
    BY <2>1 DEF Metadata
<1> DEFINE groups == IF "kubespray_groups" \in DOMAIN Metadata(r) THEN Metadata(r).kubespray_groups ELSE {""}
<1>3. KubesprayGroups(src) = groups
  <2> DEFINE path == <<"metadata", "kubespray_groups">>
  <2>1. /\ Has(src, path) <=> "metadata" \in DOMAIN map /\ "kubespray_groups" \in DOMAIN map["metadata"]
        /\ Has(src, path) => Attr(src, path) = map["metadata"]["kubespray_groups"]
    BY MapAttr
  <2>2. Has(src, path) <=> "kubespray_groups" \in DOMAIN Metadata(r)
    BY <2>1 DEF Metadata
  <2>3. Has(src, path) => Attr(src, path) = Metadata(r).kubespray_groups
    BY <2>1 DEF Metadata
  <2> QED
    BY <2>2, <2>3 DEF KubesprayGroups
<1>4. InstanceType # PacketType
  BY DEF InstanceType, PacketType
<1>5. Members(Parsed(r)) = MemberOf(r)
  <2>1. Parsed(r).groups = groups \cup {"publicly_routable"}
    BY <1>3, <1>4 DEF Parsed, OpenstackHost
  <2>2. MemberOf(r) = {"publicly_routable"} \cup {GroupName(g) : g \in groups}
    BY <1>4 DEF MemberOf
  <2>3. GroupName("publicly_routable") = "publicly_routable"
    BY DEF GroupName
  <2> HIDE DEF groups
  <2> QED
    BY ONLY <2>1, <2>2, <2>3 DEF Members
<1> QED
  BY <1>1, <1>2, <1>4, <1>5 DEF Parsed, OpenstackHost, Id, OwnAddress

(* packet_device finds those of a host of Packet, and under its tags       *)
(* nothing but them: not their number.                                     *)
LEMMA PacketIs ==
  ASSUME NEW r, r.type = PacketType, PacketAttrs(r)
  PROVE  /\ Parsed(r).id = Id(r) /\ Parsed(r).ssh = OwnAddress(r) /\ Members(Parsed(r)) = MemberOf(r)
<1> DEFINE a == r.attrs
           src == Flatten(a)
           network == a.list["network"]
           tags == a.list["tags"]
<1>1. Attr(src, <<"id">>) = a.scalar.id
  BY ScalarAttr DEF PacketAttrs
<1>2. /\ "network" \in DOMAIN a.list /\ "tags" \in DOMAIN a.list /\ "tags" \notin DOMAIN a.map
      /\ 1 \in DOMAIN network
      /\ \A p, q \in network[1] : p[1] = "address" /\ q[1] = "address" => p = q
  BY DEF PacketAttrs
<1>3. PICK p \in network[1] : p[1] = "address"
  BY DEF PacketAttrs
<1>4. OwnAddress(r) = p[2]
  <2>1. (CHOOSE q \in network[1] : q[1] = "address") = p
    BY <1>2, <1>3
  <2> QED
    BY <2>1 DEF OwnAddress
<1> DEFINE path == <<"network", 1, "address">>
<1>5. Attr(src, path) = p[2]
  <2>1. ListPath(a, <<path, p[2]>>)
    BY <1>2, <1>3 DEF ListPath
  <2>2. <<path, p[2]>> \in src
    BY <2>1, FlattenPaths
  <2>3. ASSUME NEW q \in src, q[1] = path PROVE q[2] = p[2]
    <3>1. Len(q[1]) = 3
      BY <2>3
    <3>2. ~ScalarPath(a, q) /\ ~MapPath(a, q)
      BY <3>1 DEF ScalarPath, MapPath
    <3>3. ListPath(a, q)
      BY <3>2, FlattenPaths
    <3>4. PICK k \in DOMAIN a.list : \E n \in DOMAIN a.list[k] :
             q = <<<<k, "#">>, "count">> \/ \E x \in a.list[k][n] : q = <<<<k, n, x[1]>>, x[2]>>
      BY <3>3 DEF ListPath
    <3>9. PICK n \in DOMAIN a.list[k] :
             q = <<<<k, "#">>, "count">> \/ \E x \in a.list[k][n] : q = <<<<k, n, x[1]>>, x[2]>>
      BY <3>4
    <3>5. q # <<<<k, "#">>, "count">>
      BY <3>1
    <3>6. PICK x \in a.list[k][n] : q = <<<<k, n, x[1]>>, x[2]>>
      BY <3>5, <3>9
    <3>7. q[1] = <<k, n, x[1]>> /\ q[2] = x[2]
      BY <3>6
    <3>8. k = "network" /\ n = 1 /\ x[1] = "address"
      BY <2>3, <3>7
    <3> QED
      BY <1>2, <1>3, <3>7, <3>8
  <2> HIDE DEF path, src
  <2> QED
    BY ONLY <2>2, <2>3, AttrIs
<1>6. ParseList(src, "tags") = {x[2] : x \in UNION Range(tags)}
  <2>1. ASSUME NEW q \in src, Len(q[1]) > 1, q[1][1] = "tags", q[1] # <<"tags", "#">>
        PROVE  \E x \in UNION Range(tags) : q[2] = x[2]
    <3>1. ~ScalarPath(a, q)
      <4> SUFFICES ASSUME NEW k \in DOMAIN a.scalar, q = <<<<k>>, a.scalar[k]>> PROVE FALSE
        BY DEF ScalarPath
      <4>1. q[1] = <<k>> /\ Len(<<k>>) = 1
        OBVIOUS
      <4> QED
        BY ONLY <2>1, <4>1
    <3>2. ~MapPath(a, q)
      BY <1>2, <2>1 DEF MapPath
    <3>7. PICK k \in DOMAIN a.list : \E n \in DOMAIN a.list[k] :
             q = <<<<k, "#">>, "count">> \/ \E x \in a.list[k][n] : q = <<<<k, n, x[1]>>, x[2]>>
      BY <3>1, <3>2, FlattenPaths DEF ListPath
    <3>3. PICK n \in DOMAIN a.list[k] :
             q = <<<<k, "#">>, "count">> \/ \E x \in a.list[k][n] : q = <<<<k, n, x[1]>>, x[2]>>
      BY <3>7
    <3>4. k = "tags"
      BY <2>1, <3>3
    <3>5. PICK x \in tags[n] : q = <<<<k, n, x[1]>>, x[2]>>
      BY <2>1, <3>3, <3>4
    <3>6. x \in UNION Range(tags)
      BY <3>3, <3>4, <3>5 DEF Range
    <3> QED
      BY <3>5, <3>6
  <2>2. ASSUME NEW x \in UNION Range(tags)
        PROVE  \E q \in src : Len(q[1]) > 1 /\ q[1][1] = "tags" /\ q[1] # <<"tags", "#">> /\ q[2] = x[2]
    <3>1. PICK n \in DOMAIN tags : x \in tags[n]
      BY DEF Range
    <3> DEFINE q == <<<<"tags", n, x[1]>>, x[2]>>
    <3>2. ListPath(a, q)
      BY <1>2, <3>1 DEF ListPath
    <3>3. q \in src
      BY <3>2, FlattenPaths
    <3>4. Len(q[1]) = 3 /\ q[1][1] = "tags" /\ q[2] = x[2]
      OBVIOUS
    <3>5. q[1] # <<"tags", "#">>
      BY <3>4
    <3> HIDE DEF q
    <3> QED
      BY <3>3, <3>4, <3>5
  <2> HIDE DEF src, tags
  <2> QED
    BY <2>1, <2>2 DEF ParseList, ParsePrefix
<1>7. InstanceType # PacketType
  BY DEF InstanceType, PacketType
<1>8. Members(Parsed(r)) = MemberOf(r)
  <2>1. Parsed(r).groups = {x[2] : x \in UNION Range(tags)}
    BY <1>6, <1>7 DEF Parsed, PacketDevice
  <2>2. MemberOf(r) = {GroupName(x[2]) : x \in UNION Range(tags)}
    BY DEF MemberOf
  <2> HIDE DEF tags
  <2> QED
    BY ONLY <2>1, <2>2 DEF Members
<1> QED
  BY <1>1, <1>4, <1>5, <1>7, <1>8 DEF Parsed, PacketDevice, Id

(* Whatever host the files hold: the parsers find in the flat attributes   *)
(* what the nested ones say.                                               *)
LEMMA ParsedIs ==
  ASSUME NEW r \in TfResources, r.type \in HostTypes
  PROVE  Parsed(r).id = Id(r) /\ Parsed(r).ssh = OwnAddress(r) /\ Members(Parsed(r)) = MemberOf(r)
BY ContentsAssumption, InstanceIs, PacketIs DEF HostTypes

-----------------------------------------------------------------------------
(* Floating IPs.                                                           *)
LEMMA PutIpIs ==
  ASSUME NEW found \in SUBSET FipPairs, NEW r \in TfResources
  PROVE  PutIp(found, r) \in SUBSET FipPairs
BY DEF PutIp, FipPairs

(* The floating IPs that the resources of a file lead through.             *)
LEMMA IpSteps ==
  ASSUME NEW s \in Seq(TfResources), NEW b \in SUBSET FipPairs
  PROVE  \E f \in [0 .. Len(s) -> SUBSET FipPairs] :
            /\ f[0] = b /\ f[Len(s)] = FoldLeft(PutIp, b, s)
            /\ \A k \in 1 .. Len(s) : f[k] = PutIp(f[k - 1], s[k])
<1> DEFINE B == SUBSET FipPairs
           n == Len(s)
           step == [p \in B \X (1 .. n) |-> PutIp(p[1], s[p[2]])]
           Is(g) == g = [t \in SUBSET DOMAIN s |->
                            IF t = {} THEN b ELSE PutIp(g[t \ {Max(t)}], s[Max(t)])]
           iter == CHOOSE g : Is(g)
<1>1. n \in Nat /\ DOMAIN s = 1 .. n /\ \A k \in 1 .. n : s[k] \in TfResources
  OBVIOUS
<1>2. step \in [B \X (1 .. n) -> B]
  BY <1>1, PutIpIs
<1>3. \A x \in B : \A k \in 1 .. n : step[x, k] = PutIp(x, s[k])
  OBVIOUS
<1> HIDE DEF n, step, B
<1>0. b \in B
  BY DEF B
<1>4. \E g : Is(g)
  <2>1. PICK g \in [SUBSET (1 .. n) -> B] : Recurs(g, n, b, step)
    BY <1>0, <1>1, <1>2, FoldExists
  <2>2. ASSUME NEW t \in SUBSET (1 .. n), t # {}
        PROVE  step[g[t \ {Max(t)}], Max(t)] = PutIp(g[t \ {Max(t)}], s[Max(t)])
    <3>1. Max(t) \in 1 .. n /\ g[t \ {Max(t)}] \in B
      BY <1>1, <2>2, GreatestIn
    <3> QED
      BY <1>3, <3>1
  <2>3. Is(g)
    BY <1>1, <2>1, <2>2 DEF Recurs
  <2> HIDE DEF Is
  <2> QED
    BY <2>3
<1>5. Is(iter)
  <2> HIDE DEF Is
  <2> QED
    BY <1>4
<1>6. FoldLeft(PutIp, b, s) = iter[1 .. n]
  BY <1>1 DEF FoldLeft, MapThenFoldSet
<1> HIDE DEF iter
<1>7. Starts(iter, b)
  BY <1>5 DEF Starts
<1>8. Follows(iter, n, B, step)
  <2> SUFFICES ASSUME NEW t \in SUBSET (1 .. n), t # {}, iter[t \ {Max(t)}] \in B
               PROVE  iter[t] = step[iter[t \ {Max(t)}], Max(t)]
    BY DEF Follows
  <2>1. iter[t] = PutIp(iter[t \ {Max(t)}], s[Max(t)])
    BY <1>1, <1>5
  <2>2. Max(t) \in 1 .. n
    BY <1>1, GreatestIn
  <2> QED
    BY <1>3, <2>1, <2>2
<1> HIDE DEF Is
<1>9. PICK f \in [0 .. n -> B] : Steps(f, n, b, step) /\ f[n] = iter[1 .. n]
  <2>1. Leads(n, B, b, step, iter[1 .. n])
    BY ONLY <1>0, <1>1, <1>2, <1>7, <1>8, FoldSteps
  <2> QED
    BY <2>1 DEF Leads
<1>10. \A k \in 1 .. n : f[k] = PutIp(f[k - 1], s[k])
  <2> SUFFICES ASSUME NEW k \in 1 .. n PROVE f[k] = PutIp(f[k - 1], s[k])
    OBVIOUS
  <2>1. f[k - 1] \in B
    BY <1>1
  <2> QED
    BY <1>3, <1>9, <2>1 DEF Steps
<1>11. f[0] = b /\ f[n] = iter[1 .. n]
  BY <1>9 DEF Steps
<1>12. \E g \in [0 .. n -> B] : /\ g[0] = b /\ g[n] = FoldLeft(PutIp, b, s)
                                /\ \A k \in 1 .. n : g[k] = PutIp(g[k - 1], s[k])
  BY ONLY <1>6, <1>10, <1>11
<1> QED
  BY <1>12 DEF n, B

(* What putting the floating IPs of a file, z, over others makes of them.  *)
Over(b, z) == {p \in b : \A q \in z : q[1] # p[1]} \cup z
Functional(z) == \A p, q \in z : p[1] = q[1] => p = q

LEMMA OverPut ==
  ASSUME NEW b, NEW z, Functional(z), NEW r
  PROVE  /\ PutIp(Over(b, z), r) = Over(b, PutIp(z, r))
         /\ Functional(PutIp(z, r))
         /\ \A p \in PutIp(z, r) : p \in z \/ (r.type = FipType /\ p = FipPair(r))
<1> DEFINE i == FipPair(r)[1]
           e == FipPair(r)
<1>1. CASE r.type # FipType
  BY <1>1 DEF PutIp
<1>2. CASE r.type = FipType
  <2>1. \A y : PutIp(y, r) = {p \in y : p[1] # i} \cup {e}
    BY <1>2 DEF PutIp
  <2>2. e[1] = i
    OBVIOUS
  <2> HIDE DEF i, e
  <2>3. PutIp(Over(b, z), r) = Over(b, PutIp(z, r))
    <3> SUFFICES ASSUME NEW p PROVE p \in PutIp(Over(b, z), r) <=> p \in Over(b, PutIp(z, r))
      OBVIOUS
    <3> QED
      BY ONLY <2>1, <2>2 DEF Over
  <2> QED
    BY <1>2, <2>1, <2>2, <2>3 DEF Functional, e
<1> QED
  BY <1>1, <1>2

(* Each floating IP of a file is of one of its resources, and the last one *)
(* of an instance counts.                                                  *)
FipsFit(b, state) ==
    /\ Fips(state) \subseteq FipPairs /\ Functional(Fips(state))
    /\ \A p \in Fips(state) : \E r \in Range(state.resources) : r.type = FipType /\ p = FipPair(r)
    /\ FoldLeft(PutIp, b, state.resources) = Over(b, Fips(state))

LEMMA FipsIs ==
  ASSUME NEW b \in SUBSET FipPairs, NEW state, state.resources \in Seq(TfResources)
  PROVE  FipsFit(b, state)
<1> DEFINE s == state.resources
           n == Len(s)
           B == SUBSET FipPairs
<1>0. {} \in SUBSET FipPairs
  OBVIOUS
<1>1. PICK g \in [0 .. n -> B] : /\ g[0] = {} /\ g[n] = FoldLeft(PutIp, {}, s)
                                 /\ \A k \in 1 .. n : g[k] = PutIp(g[k - 1], s[k])
  BY <1>0, IpSteps
<1>2. PICK f \in [0 .. n -> B] : /\ f[0] = b /\ f[n] = FoldLeft(PutIp, b, s)
                                 /\ \A k \in 1 .. n : f[k] = PutIp(f[k - 1], s[k])
  BY IpSteps
<1> DEFINE From(p) == \E r \in Range(s) : r.type = FipType /\ p = FipPair(r)
           Good(k) == Functional(g[k]) /\ f[k] = Over(b, g[k]) /\ \A p \in g[k] : From(p)
           S == {k \in Nat : k <= n => Good(k)}
<1>3. n \in Nat /\ \A k \in 1 .. n : s[k] \in Range(s)
  BY DEF Range
<1>4. Good(0)
  BY <1>1, <1>2 DEF Functional, Over
<1>5. ASSUME NEW k \in Nat, k + 1 <= n, Good(k) PROVE Good(k + 1)
  <2> DEFINE r == s[k + 1]
  <2>1. k + 1 \in 1 .. n /\ (k + 1) - 1 = k
    BY <1>3, <1>5
  <2>2. g[k + 1] = PutIp(g[k], r) /\ f[k + 1] = PutIp(f[k], r) /\ r \in Range(s)
    BY <1>1, <1>2, <1>3, <2>1
  <2> HIDE DEF r
  <2>3. /\ PutIp(Over(b, g[k]), r) = Over(b, PutIp(g[k], r))
        /\ Functional(PutIp(g[k], r))
        /\ \A p \in PutIp(g[k], r) : p \in g[k] \/ (r.type = FipType /\ p = FipPair(r))
    BY <1>5, OverPut
  <2>4. \A p \in PutIp(g[k], r) : From(p)
    BY <1>5, <2>2, <2>3
  <2> HIDE DEF From
  <2> QED
    BY ONLY <1>5, <2>2, <2>3, <2>4
<1> HIDE DEF Good
<1>6. 0 \in S
  BY <1>4
<1>7. \A k \in Nat : k \in S => k + 1 \in S
  BY <1>3, <1>5
<1>8. Good(n)
  <2>1. n \in S
    <3> HIDE DEF S
    <3> QED
      BY <1>3, <1>6, <1>7, Induction
  <2> QED
    BY <1>3, <2>1
<1>9. g[n] \in B
  BY <1>1, <1>3
<1> QED
  BY <1>1, <1>2, <1>8, <1>9 DEF FipsFit, Fips, Good

-----------------------------------------------------------------------------
(* Hosts.                                                                  *)
AllHosts == UNION {Hosts(s) : s \in FileStates}
Shown(r) == IF ips # {} THEN Updated(Parsed(r)) ELSE Parsed(r)
Flagged(h) == <<<<"metadata", "use_access_ip">>, "0">> \in h.metadata

(* A host is shown at its floating IP, if it has one, with its groups.     *)
ShownFits(h, r) ==
    /\ h.id = Id(r) /\ Members(h) = MemberOf(r)
    /\ (\A p \in ips : p[1] # Id(r)) => h.ssh = OwnAddress(r)
    /\ (\E p \in ips : p[1] = Id(r)) => \E p \in ips : p[1] = Id(r) /\ h.ssh = p[2]
    /\ Flagged(h) /\ ips # {} => h.access = ""

LEMMA ShownIs ==
  ASSUME NEW r \in TfResources, r.type \in HostTypes
  PROVE  ShownFits(Shown(r), r)
<1> DEFINE h == Parsed(r)
           w == WithFip(h)
           u == Updated(h)
<1>1. h.id = Id(r) /\ h.ssh = OwnAddress(r) /\ Members(h) = MemberOf(r)
  BY ParsedIs
<1>2. h = [name |-> h.name, id |-> h.id, ssh |-> h.ssh, access |-> h.access,
           metadata |-> h.metadata, groups |-> h.groups]
  BY DEF Parsed, OpenstackHost, PacketDevice
<1> HIDE DEF h
<1>3. /\ w.id = h.id /\ w.groups = h.groups /\ w.metadata = h.metadata
      /\ w = [name |-> w.name, id |-> w.id, ssh |-> w.ssh, access |-> w.access,
              metadata |-> w.metadata, groups |-> w.groups]
      /\ (\A p \in ips : p[1] # h.id) => w.ssh = h.ssh
      /\ (\E p \in ips : p[1] = h.id) => \E p \in ips : p[1] = h.id /\ w.ssh = p[2]
  <2>1. CASE \A p \in ips : p[1] # h.id
    BY <1>2, <2>1 DEF WithFip
  <2>2. CASE \E p \in ips : p[1] = h.id
    <3> DEFINE q == CHOOSE p \in ips : p[1] = h.id
    <3>1. q \in ips /\ q[1] = h.id
      BY <2>2
    <3> HIDE DEF q
    <3>2. w = [h EXCEPT !.ssh = q[2], !.access = q[2]]
      BY <2>2 DEF WithFip, q
    <3> HIDE DEF w
    <3> QED
      BY <1>2, <3>1, <3>2
  <2> QED
    BY <2>1, <2>2
<1>4. u = IF Flagged(h) THEN [w EXCEPT !.access = ""] ELSE w
  BY DEF Updated, Flagged
<1> HIDE DEF w, u
<1>5. /\ u.id = h.id /\ u.groups = h.groups /\ u.metadata = h.metadata /\ u.ssh = w.ssh
      /\ Flagged(h) => u.access = ""
  BY <1>3, <1>4
<1>6. Shown(r) = IF ips # {} THEN u ELSE h
  BY DEF Shown, u, h
<1>7. Members(Shown(r)) = Members(h)
  BY ONLY <1>3, <1>5, <1>6 DEF Members
<1> QED
  BY ONLY <1>1, <1>3, <1>5, <1>6, <1>7 DEF ShownFits, Flagged

(* One turn of the loop, with Shown.                                       *)
Turn(b, c, r) ==
    \/ c = b /\ (b.end # "hosts" \/ r.type \notin HostTypes)
    \/ c = [b EXCEPT !.end = "failed"]
    \/ /\ b.end = "hosts" /\ r.type \in HostTypes
       /\ \E end \in {"hosts", "done"} :
             /\ c = [nodes |-> Append(b.nodes, Shown(r)), end |-> end]
             /\ end = "done" => query[1] = "host"

LEMMA YieldIs ==
  ASSUME NEW b, NEW r
  PROVE  Turn(b, Yield(b, r), r)
<1> DEFINE end == IF query = <<"host", Parsed(r).name>> THEN "done" ELSE "hosts"
           c == Yield(b, r)
<1>1. /\ b.end # "hosts" \/ r.type \notin HostTypes => c = b
      /\ b.end = "hosts" /\ r.type \in HostTypes /\ ips # {} /\ r.type = PacketType
            => c = [b EXCEPT !.end = "failed"]
      /\ b.end = "hosts" /\ r.type \in HostTypes /\ ~(ips # {} /\ r.type = PacketType)
            => c = [nodes |-> Append(b.nodes, Shown(r)), end |-> end]
  <2>1. ASSUME b.end # "hosts" \/ r.type \notin HostTypes PROVE c = b
    BY ONLY <2>1 DEF Yield, HostTypes
  <2>2. ASSUME b.end = "hosts", r.type \in HostTypes, ips # {} /\ r.type = PacketType
        PROVE  c = [b EXCEPT !.end = "failed"]
    BY ONLY <2>2 DEF Yield
  <2>3. ASSUME b.end = "hosts", r.type \in HostTypes, ~(ips # {} /\ r.type = PacketType)
        PROVE  c = [nodes |-> Append(b.nodes, Shown(r)), end |-> end]
    BY ONLY <2>3 DEF Yield, Shown
  <2> HIDE DEF c, end
  <2> QED
    BY ONLY <2>1, <2>2, <2>3
<1>2. end \in {"hosts", "done"} /\ (end = "done" => query[1] = "host")
  OBVIOUS
<1> HIDE DEF c, end
<1>3. Turn(b, c, r)
  BY ONLY <1>1, <1>2 DEF Turn
<1> QED
  BY <1>3 DEF c

(* The state of the loop: the hosts so far and how it ended, if it has.    *)
LoopStates(S) == [nodes : Seq(S), end : {"hosts", "done", "failed"}]

(* A turn of the loop adds a host or nothing.                              *)
LEMMA YieldType ==
  ASSUME NEW S, NEW b \in LoopStates(S), NEW r, r.type \in HostTypes => Shown(r) \in S
  PROVE  Yield(b, r) \in LoopStates(S)
<1>1. r.type \in HostTypes => Append(b.nodes, Shown(r)) \in Seq(S)
  BY DEF LoopStates
<1> QED
  BY <1>1, YieldIs DEF Turn, LoopStates

(* The values the loop goes through, over any set that holds the hosts.    *)
ShownIn(S) == \A r \in TfResources : r.type \in HostTypes => Shown(r) \in S
Turns(f, S, b, s) ==
    /\ f \in [0 .. Len(s) -> LoopStates(S)] /\ f[0] = b /\ f[Len(s)] = FoldLeft(Yield, b, s)
    /\ \A k \in 1 .. Len(s) : f[k] = Yield(f[k - 1], s[k])

LEMMA YieldSteps ==
  ASSUME NEW S, NEW b \in LoopStates(S), NEW s \in Seq(TfResources), ShownIn(S)
  PROVE  \E f : Turns(f, S, b, s)
<1> DEFINE B == LoopStates(S)
           n == Len(s)
           step == [p \in B \X (1 .. n) |-> Yield(p[1], s[p[2]])]
           Is(g) == g = [t \in SUBSET DOMAIN s |->
                            IF t = {} THEN b ELSE Yield(g[t \ {Max(t)}], s[Max(t)])]
           iter == CHOOSE g : Is(g)
<1>1. n \in Nat /\ DOMAIN s = 1 .. n /\ \A k \in 1 .. n : s[k] \in TfResources
  OBVIOUS
<1>2. step \in [B \X (1 .. n) -> B]
  BY <1>1, YieldType DEF ShownIn
<1>3. \A x \in B : \A k \in 1 .. n : step[x, k] = Yield(x, s[k])
  OBVIOUS
<1> HIDE DEF n, step, B
<1>0. b \in B
  BY DEF B
<1>4. \E g : Is(g)
  <2>1. PICK g \in [SUBSET (1 .. n) -> B] : Recurs(g, n, b, step)
    BY <1>0, <1>1, <1>2, FoldExists
  <2>2. ASSUME NEW t \in SUBSET (1 .. n), t # {}
        PROVE  step[g[t \ {Max(t)}], Max(t)] = Yield(g[t \ {Max(t)}], s[Max(t)])
    <3>1. Max(t) \in 1 .. n /\ g[t \ {Max(t)}] \in B
      BY <1>1, <2>2, GreatestIn
    <3> QED
      BY <1>3, <3>1
  <2>3. Is(g)
    BY <1>1, <2>1, <2>2 DEF Recurs
  <2> HIDE DEF Is
  <2> QED
    BY <2>3
<1>5. Is(iter)
  <2> HIDE DEF Is
  <2> QED
    BY <1>4
<1>6. FoldLeft(Yield, b, s) = iter[1 .. n]
  BY <1>1 DEF FoldLeft, MapThenFoldSet
<1> HIDE DEF iter
<1>7. Starts(iter, b)
  BY <1>5 DEF Starts
<1>8. Follows(iter, n, B, step)
  <2> SUFFICES ASSUME NEW t \in SUBSET (1 .. n), t # {}, iter[t \ {Max(t)}] \in B
               PROVE  iter[t] = step[iter[t \ {Max(t)}], Max(t)]
    BY DEF Follows
  <2>1. iter[t] = Yield(iter[t \ {Max(t)}], s[Max(t)])
    BY <1>1, <1>5
  <2>2. Max(t) \in 1 .. n
    BY <1>1, GreatestIn
  <2> QED
    BY <1>3, <2>1, <2>2
<1> HIDE DEF Is
<1>9. PICK f \in [0 .. n -> B] : Steps(f, n, b, step) /\ f[n] = iter[1 .. n]
  <2>1. Leads(n, B, b, step, iter[1 .. n])
    BY ONLY <1>0, <1>1, <1>2, <1>7, <1>8, FoldSteps
  <2> QED
    BY <2>1 DEF Leads
<1>10. \A k \in 1 .. n : f[k] = Yield(f[k - 1], s[k])
  <2> SUFFICES ASSUME NEW k \in 1 .. n PROVE f[k] = Yield(f[k - 1], s[k])
    OBVIOUS
  <2>1. f[k - 1] \in B
    BY <1>1
  <2> QED
    BY <1>3, <1>9, <2>1 DEF Steps
<1>11. f[0] = b /\ f[n] = iter[1 .. n]
  BY <1>9 DEF Steps
<1>12. \E g \in [0 .. n -> B] : /\ g[0] = b /\ g[n] = FoldLeft(Yield, b, s)
                                /\ \A k \in 1 .. n : g[k] = Yield(g[k - 1], s[k])
  BY ONLY <1>6, <1>10, <1>11
<1> QED
  BY <1>12 DEF n, B, Turns


(* Appending an element adds it to the range.                              *)
LEMMA RangeAppend ==
  ASSUME NEW S, NEW s \in Seq(S), NEW x \in S
  PROVE  Range(Append(s, x)) = Range(s) \cup {x}
<1>1. /\ DOMAIN Append(s, x) = 1 .. Len(s) + 1 /\ DOMAIN s = 1 .. Len(s) /\ Len(s) \in Nat
      /\ Append(s, x)[Len(s) + 1] = x /\ \A i \in 1 .. Len(s) : Append(s, x)[i] = s[i]
  OBVIOUS
<1>2. 1 .. Len(s) + 1 = 1 .. Len(s) \cup {Len(s) + 1}
  BY <1>1
<1> DEFINE a == Append(s, x)
<1> HIDE DEF a
<1>3. DOMAIN a = DOMAIN s \cup {Len(s) + 1} /\ a[Len(s) + 1] = x /\ \A i \in DOMAIN s : a[i] = s[i]
  BY <1>1, <1>2 DEF a
<1>4. Range(a) = Range(s) \cup {x}
  BY ONLY <1>3 DEF Range
<1> QED
  BY <1>4 DEF a

(* A sequence is one over the elements it has.                             *)
LEMMA ListOfItsOwn ==
  ASSUME NEW S, NEW s \in Seq(S)
  PROVE  s \in Seq(Range(s))
<1>1. s = [i \in 1 .. Len(s) |-> s[i]] /\ Len(s) \in Nat /\ DOMAIN s = 1 .. Len(s)
  OBVIOUS
<1>2. \A i \in 1 .. Len(s) : s[i] \in Range(s)
  BY <1>1 DEF Range
<1> QED
  BY <1>1, <1>2

(* What the loop makes of the hosts of a file.                             *)
Yielded(before, b, resources) ==
    /\ b.nodes \in Seq(Range(b.nodes)) /\ b.end \in {"hosts", "done", "failed"}
    /\ \A h \in Range(before) : h \in Range(b.nodes)
    /\ \A h \in Range(b.nodes) :
          h \in Range(before) \/ \E r \in resources : r.type \in HostTypes /\ h = Shown(r)
    /\ b.end = "hosts" => \A r \in resources : r.type \in HostTypes => Shown(r) \in Range(b.nodes)
    /\ b.end = "done" => query[1] = "host"

(* What the loop makes of one resource more.                               *)
LEMMA YieldedNext ==
  ASSUME NEW S, NEW before, NEW b \in LoopStates(S), NEW seen, Yielded(before, b, seen), NEW r,
         r.type \in HostTypes => Shown(r) \in S
  PROVE  Yielded(before, Yield(b, r), seen \cup {r})
<1> DEFINE c == Yield(b, r)
<1>1. Turn(b, c, r)
  BY YieldIs
<1>0. c \in LoopStates(S)
  BY YieldType
<1> HIDE DEF c
<1>5. c.nodes \in Seq(Range(c.nodes)) /\ c.end \in {"hosts", "done", "failed"}
  BY <1>0, ListOfItsOwn DEF LoopStates
<1>2. ASSUME c = b, b.end # "hosts" \/ r.type \notin HostTypes PROVE Yielded(before, c, seen \cup {r})
  BY ONLY Yielded(before, b, seen), <1>2 DEF Yielded
<1>3. ASSUME c = [b EXCEPT !.end = "failed"] PROVE Yielded(before, c, seen \cup {r})
  <2>1. c.nodes = b.nodes /\ c.end = "failed"
    BY <1>3 DEF LoopStates
  <2> QED
    BY ONLY Yielded(before, b, seen), <1>5, <2>1 DEF Yielded
<1>4. ASSUME b.end = "hosts", r.type \in HostTypes, NEW end \in {"hosts", "done"},
             c = [nodes |-> Append(b.nodes, Shown(r)), end |-> end], end = "done" => query[1] = "host"
      PROVE  Yielded(before, c, seen \cup {r})
  <2>1. Range(c.nodes) = Range(b.nodes) \cup {Shown(r)}
    BY <1>4, RangeAppend DEF LoopStates
  <2>2. c.end = end
    BY <1>4
  <2> QED
    BY ONLY Yielded(before, b, seen), <1>4, <1>5, <2>1, <2>2 DEF Yielded
<1>6. Yielded(before, c, seen \cup {r})
  BY ONLY <1>1, <1>2, <1>3, <1>4 DEF Turn
<1> QED
  BY <1>6 DEF c

(* What ReadHosts makes of a file.                                         *)
LEMMA YieldedIs ==
  ASSUME NEW before, before \in Seq(Range(before)), NEW state, state.resources \in Seq(TfResources)
  PROVE  Yielded(before, FoldLeft(Yield, [nodes |-> before, end |-> "hosts"], state.resources),
                 Range(state.resources))
<1> DEFINE s == state.resources
           n == Len(s)
           S == Range(before) \cup {Shown(r) : r \in {x \in TfResources : x.type \in HostTypes}}
           b == [nodes |-> before, end |-> "hosts"]
           Passed(k) == {s[i] : i \in 1 .. k}
<1>1. s \in Seq(TfResources) /\ n \in Nat /\ DOMAIN s = 1 .. n /\ \A k \in 1 .. n : s[k] \in TfResources
  OBVIOUS
<1>2. ShownIn(S) /\ \A r \in TfResources : r.type \in HostTypes => Shown(r) \in S
  BY DEF ShownIn
<1>3. b \in LoopStates(S)
  <2>1. before \in Seq(S)
    OBVIOUS
  <2> HIDE DEF S
  <2> QED
    BY <2>1 DEF LoopStates
<1> HIDE DEF S
<1>12. PICK f : Turns(f, S, b, s)
  <2> HIDE DEF b, s
  <2> QED
    BY ONLY <1>1, <1>2, <1>3, YieldSteps
<1>4. /\ f \in [0 .. n -> LoopStates(S)] /\ f[0] = b /\ f[n] = FoldLeft(Yield, b, s)
      /\ \A k \in 1 .. n : f[k] = Yield(f[k - 1], s[k])
  BY ONLY <1>12 DEF Turns
<1> DEFINE Good(k) == Yielded(before, f[k], Passed(k))
           T == {k \in Nat : k <= n => Good(k)}
<1>5. Good(0)
  <2>1. Passed(0) = {}
    OBVIOUS
  <2>2. f[0].nodes = before /\ f[0].end = "hosts"
    BY <1>4
  <2> HIDE DEF Passed
  <2> QED
    BY ONLY <2>1, <2>2, before \in Seq(Range(before)) DEF Yielded
<1>6. ASSUME NEW k \in Nat, k + 1 <= n, Good(k) PROVE Good(k + 1)
  <2>1. k + 1 \in 1 .. n /\ (k + 1) - 1 = k /\ k \in 0 .. n
    BY <1>1, <1>6
  <2>2. f[k + 1] = Yield(f[k], s[k + 1]) /\ f[k] \in LoopStates(S) /\ s[k + 1] \in TfResources
    BY <1>1, <1>4, <2>1
  <2>3. Passed(k + 1) = Passed(k) \cup {s[k + 1]}
    <3>1. 1 .. k + 1 = 1 .. k \cup {k + 1}
      OBVIOUS
    <3> HIDE DEF s
    <3> QED
      BY <3>1
  <2> HIDE DEF s, Passed
  <2>4. Yielded(before, Yield(f[k], s[k + 1]), Passed(k) \cup {s[k + 1]})
    BY ONLY <1>2, <1>6, <2>2, YieldedNext
  <2> QED
    BY <2>2, <2>3, <2>4
<1> HIDE DEF Good
<1>7. 0 \in T
  BY <1>5
<1>8. \A k \in Nat : k \in T => k + 1 \in T
  BY <1>1, <1>6
<1>9. n \in T
  <2> HIDE DEF T
  <2> QED
    BY <1>1, <1>7, <1>8, Induction
<1>10. Good(n)
  BY <1>1, <1>9
<1>11. Passed(n) = Range(s)
  BY <1>1 DEF Range
<1> QED
  BY <1>4, <1>10, <1>11 DEF Good

-----------------------------------------------------------------------------
(* The inductive invariant.                                                *)
ReadSoFar == {walk[i] : i \in 1 .. place}
IpsRead(f) == pass = "hosts" \/ (pass = "ips" /\ f \in ReadSoFar)
HostsRead(f) == (pass = "done" /\ query[1] # "host") \/ (pass = "hosts" /\ f \in ReadSoFar)

TfTyped ==
    /\ TfTypeOK
    /\ tfstate \in [DOMAIN Contents -> FileStates]
    /\ ips \in SUBSET FipPairs /\ Functional(ips)
    /\ nodes \in Seq(Range(nodes)) /\ (pass = "ips" => nodes = <<>>)

(* The history is that of the query: tfEver holds what the files say, and  *)
(* tfAlways nothing else, about hosts that some file has.                  *)
Known(x) ==
    /\ \E f \in DOMAIN Contents : x[1] \in HostIds(f)
    /\ x = <<x[1], x[2], x[3]>> /\ x[2] \in {"address", "group"}
WatchInv ==
    /\ pass \in {"ips", "hosts"} => Possible \subseteq tfEver /\ tfAlways \subseteq Right
    /\ \A x \in tfAlways : Known(x)

(* The floating IPs that were read were there; an address that was there   *)
(* all the time is none but theirs, and without them the own one.          *)
IpsInv ==
    /\ \A p \in ips : <<p[1], "address", p[2]>> \in tfEver
    /\ \A p \in ips, x \in tfAlways : x[1] = p[1] /\ x[2] = "address" => x[3] = p[2]
    /\ \A f \in DOMAIN Contents : IpsRead(f) =>
          \A x \in tfAlways : x[1] \in FipIds(f) /\ x[2] = "address" /\ (\A p \in ips : p[1] # x[1])
                             => x \in OwnFacts(AllHosts)

(* So it is with the hosts yielded, for which nothing is missing that was  *)
(* there all the time.                                                     *)
HostInv(h) ==
    /\ <<h.id, "address", h.ssh>> \in tfEver /\ \A g \in Members(h) : <<h.id, "group", g>> \in tfEver
    /\ \A x \in tfAlways : x[1] = h.id /\ x[2] = "address" => x[3] = h.ssh
    /\ Flagged(h) => \A p \in ips : p[2] # h.access
Listed(x) == \E h \in Range(nodes) : h.id = x[1] /\ (x[2] = "group" => x[3] \in Members(h))
NodesInv ==
    /\ \A h \in Range(nodes) : HostInv(h)
    /\ \A f \in DOMAIN Contents : HostsRead(f) => \A x \in tfAlways : x[1] \in HostIds(f) => Listed(x)

TfInv == TfTyped /\ WatchInv /\ IpsInv /\ NodesInv

-----------------------------------------------------------------------------
(* A file, whatever it holds.                                              *)
LEMMA FileIs ==
  ASSUME NEW f \in DOMAIN Contents, NEW s \in Contents[f]
  PROVE  /\ s \in FileStates /\ s.resources \in Seq(TfResources)
         /\ \A r \in Range(s.resources) : r \in TfResources
         /\ \A r \in Hosts(s) : r \in AllHosts /\ r \in TfResources /\ r.type \in HostTypes /\ Id(r) \in HostIds(f)
         /\ \A p \in Fips(s) : p \in FipPairs /\ p[1] \in FipIds(f)
         /\ Functional(Fips(s))
<1>1. s \in FileStates
  BY DEF FileStates
<1>2. s.resources \in Seq(TfResources)
  BY <1>1, ContentsAssumption
<1>3. \A r \in Range(s.resources) : r \in TfResources
  BY <1>1 DEF TfResources
<1>4. \A r \in Hosts(s) : r \in AllHosts /\ r \in TfResources /\ r.type \in HostTypes /\ Id(r) \in HostIds(f)
  BY <1>1, <1>3 DEF AllHosts, Hosts, HostIds
<1>5. FipsFit({}, s)
  BY <1>2, FipsIs
<1>6. \A p \in Fips(s) : p[1] \in FipIds(f)
  BY <1>5 DEF FipsFit, FipIds
<1> QED
  BY <1>1, <1>2, <1>3, <1>4, <1>5, <1>6 DEF FipsFit

(* A fact that should be reported is about a host of some file, and an     *)
(* address is the floating one or, without one, the own one.               *)
RightFits(x) ==
    /\ x = <<x[1], x[2], x[3]>> /\ x[2] \in {"address", "group"}
    /\ \E r \in HostsNow : Id(r) = x[1] /\ (x[2] = "group" => x[3] \in MemberOf(r))
    /\ x[2] = "address" =>
          \/ <<x[1], x[3]>> \in FipsNow
          \/ /\ \A p \in FipsNow : p[1] # x[1]
             /\ \E r \in HostsNow : Id(r) = x[1] /\ OwnAddress(r) = x[3]

LEMMA RightIs ==
  ASSUME NEW x \in Right, \A p \in FipsNow : p = <<p[1], p[2]>>
  PROVE  RightFits(x)
<1>1. CASE x \in GroupFacts
  <2>1. PICK r \in HostsNow : x \in {<<Id(r), "group", g>> : g \in MemberOf(r)}
    BY <1>1 DEF GroupFacts
  <2>2. PICK g \in MemberOf(r) : x = <<Id(r), "group", g>>
    BY <2>1
  <2>3. x[1] = Id(r) /\ x[2] = "group" /\ x[3] = g
    BY <2>2
  <2> QED
    BY <2>2, <2>3 DEF RightFits
<1>2. CASE x \in FloatingFacts /\ \E r \in HostsNow : Id(r) = x[1]
  <2>1. PICK p \in FipsNow : x = <<p[1], "address", p[2]>>
    BY <1>2 DEF FloatingFacts
  <2>2. x[1] = p[1] /\ x[2] = "address" /\ x[3] = p[2]
    BY <2>1
  <2>3. <<x[1], x[3]>> \in FipsNow
    BY <2>2
  <2>4. x = <<x[1], "address", x[3]>>
    BY <2>1, <2>2
  <2> QED
    BY <1>2, <2>2, <2>3, <2>4 DEF RightFits
<1>3. CASE x \in OwnFacts({r \in HostsNow : \A p \in FipsNow : p[1] # Id(r)})
  <2>1. PICK r \in HostsNow : (\A p \in FipsNow : p[1] # Id(r)) /\ x = <<Id(r), "address", OwnAddress(r)>>
    BY <1>3 DEF OwnFacts
  <2>2. x[1] = Id(r) /\ x[2] = "address" /\ x[3] = OwnAddress(r)
    BY <2>1
  <2> QED
    BY <2>1, <2>2 DEF RightFits
<1> QED
  BY <1>1, <1>2, <1>3 DEF Right

(* What the files say now.                                                 *)
LEMMA NowIs ==
  ASSUME TfTyped
  PROVE  /\ \A f \in DOMAIN Contents : tfstate[f] \in Contents[f]
         /\ \A r \in HostsNow : \E f \in DOMAIN Contents : r \in Hosts(tfstate[f]) /\ Id(r) \in HostIds(f)
         /\ \A p \in FipsNow : p = <<p[1], p[2]>>
         /\ \A p \in FipsNow : p \in FipPairs /\ \E f \in DOMAIN Contents : p \in Fips(tfstate[f]) /\ p[1] \in FipIds(f)
         /\ \A x \in Right : RightFits(x) /\ Known(x)
<1>1. \A f \in DOMAIN Contents : tfstate[f] \in Contents[f]
  BY DEF TfTyped, TfTypeOK
<1>2. \A r \in HostsNow : \E f \in DOMAIN Contents : r \in Hosts(tfstate[f]) /\ Id(r) \in HostIds(f)
  BY <1>1, FileIs DEF HostsNow
<1>3. \A p \in FipsNow : p \in FipPairs /\ \E f \in DOMAIN Contents : p \in Fips(tfstate[f]) /\ p[1] \in FipIds(f)
  BY <1>1, FileIs DEF FipsNow
<1>4. \A p \in FipsNow : p = <<p[1], p[2]>>
  BY <1>3 DEF FipPairs, FipPair
<1>5. \A x \in Right : RightFits(x)
  BY <1>4, RightIs
<1>6. \A x \in Right : Known(x)
  BY <1>2, <1>5 DEF RightFits, Known
<1> QED
  BY <1>1, <1>2, <1>3, <1>4, <1>5, <1>6

-----------------------------------------------------------------------------
(* Every file has its place in a walk.                                     *)
LEMMA WalkIs ==
  ASSUME NEW w \in Walks
  PROVE  /\ Len(w) \in Nat /\ Len(w) >= 1 /\ \A i \in 1 .. Len(w) : w[i] \in DOMAIN Contents
         /\ \A f \in DOMAIN Contents : \E i \in 1 .. Len(w) : w[i] = f
<1>1. w \in Seq(DOMAIN Contents) /\ Range(w) = DOMAIN Contents /\ DOMAIN Contents # {}
  BY TfAssumption
<1>2. Len(w) \in Nat /\ DOMAIN w = 1 .. Len(w) /\ \A i \in 1 .. Len(w) : w[i] \in DOMAIN Contents
  BY <1>1
<1>3. \A f \in DOMAIN Contents : \E i \in 1 .. Len(w) : w[i] = f
  BY <1>1, <1>2 DEF Range
<1> QED
  BY <1>1, <1>2, <1>3

(* The file that is read next.                                             *)
LEMMA ReadingIs ==
  ASSUME TfTyped
  PROVE  /\ walk[place + 1] \in DOMAIN Contents /\ Reading \in Contents[walk[place + 1]]
         /\ place \in Nat /\ Len(walk) \in Nat /\ place + 1 <= Len(walk)
<1>1. walk \in Walks /\ place \in 0 .. Len(walk) - 1 /\ \A f \in DOMAIN Contents : tfstate[f] \in Contents[f]
  BY DEF TfTyped, TfTypeOK
<1>2. Len(walk) \in Nat /\ place + 1 \in 1 .. Len(walk)
  BY <1>1, WalkIs
<1>3. walk[place + 1] \in DOMAIN Contents
  BY <1>1, <1>2, WalkIs
<1> QED
  BY <1>1, <1>2, <1>3 DEF Reading

LEMMA TfInvInit == TfInit => TfInv
<1> SUFFICES ASSUME TfInit PROVE TfInv
  OBVIOUS
<1> USE DEF TfInit, TfIdle
<1>1. tfstate \in [DOMAIN Contents -> FileStates] /\ \A f \in DOMAIN Contents : tfstate[f] \in Contents[f]
  BY DEF FileStates
<1>2. place \in 0 .. Len(walk) - 1 /\ applies \in 0 .. MaxApplies
  BY WalkIs, TfAssumption
<1>3. Range(nodes) = {} /\ nodes \in Seq(Range(nodes))
  BY DEF Range
<1>4. TfTyped
  BY <1>1, <1>2, <1>3 DEF TfTyped, TfTypeOK, Functional
<1>5. WatchInv /\ IpsInv
  BY DEF WatchInv, IpsInv
<1>6. NodesInv
  BY <1>3 DEF NodesInv
<1> QED
  BY <1>4, <1>5, <1>6 DEF TfInv

(* The IPs and the hosts after a file has been read.                       *)
LEMMA IpsAfter ==
  ASSUME TfTyped, ReadIps
  PROVE  ips' = Over(ips, Fips(Reading)) /\ ips' \in SUBSET FipPairs /\ Functional(ips')
<1>1. FipsFit(ips, Reading)
  BY ReadingIs, FileIs, FipsIs DEF TfTyped
<1>2. ips' = Over(ips, Fips(Reading))
  BY <1>1 DEF FipsFit, ReadIps
<1>3. ips \in SUBSET FipPairs /\ Functional(ips)
  BY DEF TfTyped
<1> QED
  BY <1>1, <1>2, <1>3 DEF FipsFit, Over, Functional

LEMMA NodesAfter ==
  ASSUME TfTyped, ReadHosts
  PROVE  \E b : /\ Yielded(nodes, b, Range(Reading.resources)) /\ nodes' = b.nodes
                /\ pass' = IF LastFile /\ b.end = "hosts" THEN "done" ELSE b.end
<1> DEFINE b == FoldLeft(Yield, [nodes |-> nodes, end |-> "hosts"], Reading.resources)
<1>1. Reading.resources \in Seq(TfResources) /\ nodes \in Seq(Range(nodes))
  BY ReadingIs, FileIs DEF TfTyped
<1>2. Yielded(nodes, b, Range(Reading.resources))
  BY <1>1, YieldedIs
<1>3. nodes' = b.nodes /\ pass' = IF LastFile /\ b.end = "hosts" THEN "done" ELSE b.end
  BY DEF ReadHosts
<1> HIDE DEF b
<1> QED
  BY <1>2, <1>3

LEMMA TypedStep == TfTyped /\ [TfNext]_tfVars => TfTyped'
<1> SUFFICES ASSUME TfTyped, [TfNext]_tfVars PROVE TfTyped'
  OBVIOUS
<1> USE DEF TfTyped, TfTypeOK
<1>0. /\ walk \in Walks /\ Len(walk) \in Nat /\ Len(walk) >= 1 /\ place \in 0 .. Len(walk) - 1
      /\ applies \in 0 .. MaxApplies /\ MaxApplies \in Nat
  BY WalkIs, TfAssumption
<1>1. CASE BeginQuery
  <2>1. place' \in 0 .. Len(walk') - 1
    BY <1>0, <1>1 DEF BeginQuery
  <2>2. Range(nodes') = {} /\ nodes' \in Seq(Range(nodes')) /\ Functional(ips')
    BY <1>1 DEF BeginQuery, Range, Functional
  <2> QED
    BY <1>1, <2>1, <2>2 DEF BeginQuery
<1>2. CASE ReadUnsupported
  BY <1>2 DEF ReadUnsupported
<1>3. CASE ReadIps
  <2>1. place' \in 0 .. Len(walk') - 1
    BY <1>0, <1>3 DEF ReadIps, LastFile
  <2>2. ips' \in SUBSET FipPairs /\ Functional(ips')
    BY <1>3, IpsAfter
  <2> QED
    BY <1>3, <2>1, <2>2 DEF ReadIps
<1>4. CASE ReadHosts
  <2>1. place' \in 0 .. Len(walk') - 1
    BY <1>0, <1>4 DEF ReadHosts, LastFile
  <2>2. nodes' \in Seq(Range(nodes')) /\ pass' \in {"hosts", "done", "failed"}
    BY <1>4, NodesAfter DEF Yielded
  <2> QED
    BY <1>4, <2>1, <2>2 DEF ReadHosts
<1>5. ASSUME NEW f \in DOMAIN Contents, NEW state \in Contents[f], Apply(f, state) PROVE TfTyped'
  <2>1. tfstate' = [tfstate EXCEPT ![f] = state] /\ UNCHANGED queryVars /\ applies' = applies + 1 /\ applies < MaxApplies
    BY <1>5 DEF Apply
  <2>2. state \in FileStates
    BY FileIs
  <2>3. tfstate' \in [DOMAIN Contents -> FileStates] /\ \A g \in DOMAIN Contents : tfstate'[g] \in Contents[g]
    BY <2>1, <2>2
  <2>4. applies' \in 0 .. MaxApplies
    BY <1>0, <2>1
  <2> QED
    BY <2>1, <2>3, <2>4 DEF queryVars
<1>6. CASE UNCHANGED tfVars
  BY <1>6 DEF tfVars, queryVars
<1> QED
  BY <1>1, <1>2, <1>3, <1>4, <1>5, <1>6 DEF TfNext

(* What the files say depends on them only.                                *)
LEMMA NothingWritten ==
  ASSUME UNCHANGED tfstate
  PROVE  Possible' = Possible /\ Right' = Right
<1>1. HostsNow' = HostsNow /\ FipsNow' = FipsNow
  BY DEF HostsNow, FipsNow
<1>2. GroupFacts' = GroupFacts /\ FloatingFacts' = FloatingFacts
  BY <1>1 DEF GroupFacts, FloatingFacts
<1> QED
  BY <1>1, <1>2 DEF Possible, Right

LEMMA WatchStep == TfTyped /\ WatchInv /\ [TfNext]_tfVars => WatchInv'
<1> SUFFICES ASSUME TfTyped, WatchInv, [TfNext]_tfVars PROVE WatchInv'
  OBVIOUS
<1>1. CASE BeginQuery
  <2>1. Possible' = Possible /\ Right' = Right
    BY <1>1, NothingWritten DEF BeginQuery
  <2>2. \A x \in Right : Known(x)
    BY NowIs
  <2>3. tfEver' = Possible /\ tfAlways' = Right
    BY <1>1 DEF BeginQuery
  <2> QED
    BY <2>1, <2>2, <2>3 DEF WatchInv
<1>2. ASSUME UNCHANGED <<tfstate, tfEver, tfAlways>>, pass' \in {"ips", "hosts"} => pass \in {"ips", "hosts"}
      PROVE  WatchInv'
  <2>1. Possible' = Possible /\ Right' = Right
    BY <1>2, NothingWritten
  <2> QED
    BY <1>2, <2>1 DEF WatchInv
<1>3. CASE ReadUnsupported \/ ReadIps \/ ReadHosts \/ UNCHANGED tfVars
  BY <1>2, <1>3 DEF ReadUnsupported, ReadIps, ReadHosts, tfVars, queryVars
<1>4. ASSUME NEW f \in DOMAIN Contents, NEW state \in Contents[f], Apply(f, state) PROVE WatchInv'
  <2>1. pass' = pass /\ tfEver' = tfEver \cup Possible' /\ tfAlways' = tfAlways \cap Right'
    BY <1>4 DEF Apply, queryVars
  <2> QED
    BY <2>1 DEF WatchInv
<1> QED
  BY <1>1, <1>3, <1>4 DEF TfNext

(* While a query reads, its histories agree with the files as they are.    *)
LEMMA Watching ==
  ASSUME TfTyped, WatchInv, pass \in {"ips", "hosts"}
  PROVE  /\ Possible \subseteq tfEver
         /\ \A x \in tfAlways : x \in Right /\ RightFits(x)
BY NowIs DEF WatchInv

(* Two files are one if they have the same host or floating IP.            *)
LEMMA OneHome ==
  ASSUME NEW f \in DOMAIN Contents, NEW g \in DOMAIN Contents, NEW i,
         (i \in HostIds(f) /\ i \in HostIds(g)) \/ (i \in FipIds(f) /\ i \in FipIds(g))
  PROVE  f = g
<1>1. HostIds(f) \cap HostIds(g) # {} \/ FipIds(f) \cap FipIds(g) # {}
  OBVIOUS
<1> QED
  BY <1>1, IdsAssumption

LEMMA FloatingIs ==
  ASSUME TfTyped, NEW f \in DOMAIN Contents, NEW p \in FipsNow, p[1] \in FipIds(f)
  PROVE  p \in Fips(tfstate[f])
<1>1. PICK g \in DOMAIN Contents : p \in Fips(tfstate[g]) /\ p[1] \in FipIds(g)
  BY NowIs
<1> QED
  BY <1>1, OneHome

(* A host has one floating IP at a time.                                   *)
LEMMA OneFloating ==
  ASSUME TfTyped, NEW p \in FipsNow, NEW q \in FipsNow, p[1] = q[1]
  PROVE  p = q
<1>1. PICK g \in DOMAIN Contents : p \in Fips(tfstate[g]) /\ p[1] \in FipIds(g)
  BY NowIs
<1>2. q \in Fips(tfstate[g])
  BY <1>1, FloatingIs
<1>3. Functional(Fips(tfstate[g]))
  BY NowIs, FileIs
<1> QED
  BY <1>1, <1>2, <1>3 DEF Functional

(* Reading on does not change what an IP is, nor what the histories say.   *)
LEMMA IpsKept ==
  ASSUME IpsInv, tfEver \subseteq tfEver', tfAlways' \subseteq tfAlways, ips' = ips,
         \A f \in DOMAIN Contents : IpsRead(f)' => IpsRead(f)
  PROVE  IpsInv'
BY DEF IpsInv

(* What is read now is what the file says now: its floating IPs are true,  *)
(* and an instance that has none is reached at its own address.            *)
LEMMA IpsOfFile ==
  ASSUME TfTyped, WatchInv, IpsInv, ReadIps
  PROVE  IpsInv'
<1> DEFINE f == walk[place + 1]
           z == Fips(Reading)
<1>1. /\ f \in DOMAIN Contents /\ Reading = tfstate[f] /\ Reading \in Contents[f]
      /\ place \in Nat /\ Len(walk) \in Nat /\ place + 1 <= Len(walk)
  BY ReadingIs DEF Reading
<1>2. /\ \A p \in z : p \in FipPairs /\ p[1] \in FipIds(f) /\ p \in FipsNow
      /\ Functional(z)
  BY <1>1, FileIs DEF FipsNow
<1>3. ips' = Over(ips, z) /\ UNCHANGED <<tfEver, tfAlways, walk>>
  BY IpsAfter DEF ReadIps
<1>4. Possible \subseteq tfEver /\ \A x \in tfAlways : x \in Right /\ RightFits(x)
  BY Watching DEF ReadIps
<1> HIDE DEF z, f
<1>5. \A p \in ips' : <<p[1], "address", p[2]>> \in tfEver
  <2>1. \A p \in z : <<p[1], "address", p[2]>> \in Possible
    BY <1>2 DEF Possible, FloatingFacts
  <2> QED
    BY <1>3, <1>4, <2>1 DEF IpsInv, Over
<1>6. ASSUME NEW p \in z, NEW x \in tfAlways, x[1] = p[1], x[2] = "address" PROVE x[3] = p[2]
  <2>1. <<x[1], x[3]>> \in FipsNow
    BY <1>2, <1>4, <1>6 DEF RightFits
  <2>2. <<x[1], x[3]>> = p
    BY <1>2, <1>6, <2>1, OneFloating
  <2> QED
    BY <2>2
<1>7. \A p \in ips', x \in tfAlways : x[1] = p[1] /\ x[2] = "address" => x[3] = p[2]
  BY <1>3, <1>6 DEF IpsInv, Over
<1>8. ASSUME NEW x \in tfAlways, x[1] \in FipIds(f), x[2] = "address", \A p \in ips' : p[1] # x[1]
      PROVE  x \in OwnFacts(AllHosts)
  <2>1. \A p \in z : p[1] # x[1]
    BY <1>3, <1>8 DEF Over
  <2>2. <<x[1], x[3]>> \notin FipsNow
    <3> SUFFICES ASSUME <<x[1], x[3]>> \in FipsNow PROVE FALSE
      OBVIOUS
    <3>1. <<x[1], x[3]>> \in z
      BY <1>1, <1>8, FloatingIs DEF z
    <3> QED
      BY <2>1, <3>1
  <2>3. PICK r \in HostsNow : Id(r) = x[1] /\ OwnAddress(r) = x[3]
    BY <1>4, <1>8, <2>2 DEF RightFits
  <2>4. r \in AllHosts
    BY NowIs, FileIs
  <2>5. x = <<x[1], "address", x[3]>>
    BY <1>4, <1>8 DEF RightFits
  <2> QED
    BY <2>3, <2>4, <2>5 DEF OwnFacts
<1>9. ASSUME NEW g \in DOMAIN Contents, IpsRead(g)' PROVE g = f \/ IpsRead(g)
  <2>1. pass = "ips" /\ walk' = walk
    BY DEF ReadIps
  <2>2. \E i \in 1 .. place + 1 : walk[i] = g
    <3>1. CASE LastFile
      <4>1. walk \in Walks /\ place + 1 = Len(walk)
        BY <3>1 DEF LastFile, TfTyped, TfTypeOK
      <4> QED
        BY <4>1, WalkIs
    <3>2. CASE ~LastFile
      <4>1. pass' = "ips" /\ place' = place + 1
        BY <3>2 DEF ReadIps
      <4>2. g \in ReadSoFar'
        BY <1>9, <4>1 DEF IpsRead
      <4> QED
        BY <2>1, <4>1, <4>2 DEF ReadSoFar
    <3> QED
      BY <3>1, <3>2
  <2>3. PICK i \in 1 .. place + 1 : walk[i] = g
    BY <2>2
  <2>4. i = place + 1 \/ i \in 1 .. place
    BY <1>1
  <2> QED
    BY <2>1, <2>3, <2>4 DEF f, IpsRead, ReadSoFar
<1>10. ASSUME NEW g \in DOMAIN Contents, IpsRead(g)',
              NEW x \in tfAlways, x[1] \in FipIds(g), x[2] = "address", \A p \in ips' : p[1] # x[1]
       PROVE  x \in OwnFacts(AllHosts)
  <2>1. CASE g = f
    BY <1>8, <1>10, <2>1
  <2>2. CASE IpsRead(g)
    <3>1. \A p \in ips : p[1] # x[1]
      BY <1>3, <1>10 DEF Over
    <3> QED
      BY <1>10, <2>2, <3>1 DEF IpsInv
  <2> QED
    BY <1>9, <1>10, <2>1, <2>2
<1>11. /\ \A p \in ips' : <<p[1], "address", p[2]>> \in tfEver'
       /\ \A p \in ips', x \in tfAlways' : x[1] = p[1] /\ x[2] = "address" => x[3] = p[2]
       /\ \A g \in DOMAIN Contents : IpsRead(g)' =>
             \A x \in tfAlways' : x[1] \in FipIds(g) /\ x[2] = "address" /\ (\A p \in ips' : p[1] # x[1])
                                 => x \in OwnFacts(AllHosts)
  BY <1>3, <1>5, <1>7, <1>10
<1> QED
  BY <1>11 DEF IpsInv

LEMMA IpsStep == TfTyped /\ WatchInv /\ IpsInv /\ [TfNext]_tfVars => IpsInv'
<1> SUFFICES ASSUME TfTyped, WatchInv, IpsInv, [TfNext]_tfVars PROVE IpsInv'
  OBVIOUS
<1>1. CASE BeginQuery
  <2>1. ips' = {} /\ pass' = "ips" /\ place' = 0
    BY <1>1 DEF BeginQuery
  <2>2. \A f : ~IpsRead(f)'
    BY <2>1 DEF IpsRead, ReadSoFar
  <2> QED
    BY <2>1, <2>2 DEF IpsInv
<1>2. CASE ReadUnsupported
  <2>1. /\ UNCHANGED <<ips, tfEver, tfAlways>> /\ pass' = "failed"
    BY <1>2 DEF ReadUnsupported
  <2> QED
    BY <2>1, IpsKept DEF IpsRead
<1>3. CASE ReadIps
  BY <1>3, IpsOfFile
<1>4. CASE ReadHosts
  <2>1. UNCHANGED <<ips, tfEver, tfAlways>> /\ pass = "hosts"
    BY <1>4 DEF ReadHosts
  <2> QED
    BY <2>1, IpsKept DEF IpsRead
<1>5. ASSUME NEW f \in DOMAIN Contents, NEW state \in Contents[f], Apply(f, state) PROVE IpsInv'
  <2>1. /\ UNCHANGED <<ips, pass, place, walk>> /\ tfEver \subseteq tfEver' /\ tfAlways' \subseteq tfAlways
    BY <1>5 DEF Apply, queryVars
  <2> QED
    BY <2>1, IpsKept DEF IpsRead, ReadSoFar
<1>6. CASE UNCHANGED tfVars
  BY <1>6, IpsKept DEF IpsRead, ReadSoFar, tfVars, queryVars
<1> QED
  BY <1>1, <1>2, <1>3, <1>4, <1>5, <1>6 DEF TfNext

(* The address at which a host is shown was never wrong.                   *)
LEMMA ShownInv ==
  ASSUME TfTyped, WatchInv, IpsInv, pass = "hosts", NEW r \in Hosts(Reading)
  PROVE  HostInv(Shown(r))
<1> DEFINE h == Shown(r)
           f == walk[place + 1]
<1>1. f \in DOMAIN Contents /\ Reading = tfstate[f] /\ Reading \in Contents[f]
  BY ReadingIs DEF Reading
<1>2. r \in AllHosts /\ r \in TfResources /\ r.type \in HostTypes /\ Id(r) \in HostIds(f) /\ r \in HostsNow
  BY <1>1, FileIs DEF HostsNow
<1>3. ShownFits(h, r)
  BY <1>2, ShownIs
<1>4. Possible \subseteq tfEver /\ \A x \in tfAlways : x \in Right /\ RightFits(x)
  BY Watching
<1> HIDE DEF h, f
<1>5. h.id = Id(r) /\ Members(h) = MemberOf(r)
  BY <1>3 DEF ShownFits
<1>6. \A g \in Members(h) : <<h.id, "group", g>> \in tfEver
  <2>1. \A g \in MemberOf(r) : <<Id(r), "group", g>> \in GroupFacts
    BY <1>2 DEF GroupFacts
  <2> QED
    BY <1>4, <1>5, <2>1 DEF Possible
<1>7. ASSUME NEW p \in ips, p[1] = Id(r), h.ssh = p[2]
      PROVE  /\ <<h.id, "address", h.ssh>> \in tfEver
             /\ \A x \in tfAlways : x[1] = h.id /\ x[2] = "address" => x[3] = h.ssh
  BY <1>5, <1>7 DEF IpsInv
<1>8. ASSUME \A p \in ips : p[1] # Id(r)
      PROVE  /\ <<h.id, "address", h.ssh>> \in tfEver
             /\ \A x \in tfAlways : x[1] = h.id /\ x[2] = "address" => x[3] = h.ssh
  <2>1. h.ssh = OwnAddress(r)
    BY <1>3, <1>8 DEF ShownFits
  <2>2. <<h.id, "address", h.ssh>> \in tfEver
    <3>1. <<Id(r), "address", OwnAddress(r)>> \in OwnFacts(HostsNow)
      BY <1>2 DEF OwnFacts
    <3> QED
      BY <1>4, <1>5, <2>1, <3>1 DEF Possible
  <2>3. ASSUME NEW x \in tfAlways, x[1] = Id(r), x[2] = "address" PROVE x[3] = OwnAddress(r)
    <3>1. CASE <<x[1], x[3]>> \in FipsNow
      <4>1. PICK g \in DOMAIN Contents : <<x[1], x[3]>>[1] \in FipIds(g)
        BY <3>1, NowIs
      <4>2. x \in OwnFacts(AllHosts)
        BY <1>8, <2>3, <4>1 DEF IpsInv, IpsRead
      <4>3. PICK q \in AllHosts : x = <<Id(q), "address", OwnAddress(q)>>
        BY <4>2 DEF OwnFacts
      <4>4. Id(q) = x[1] /\ OwnAddress(q) = x[3]
        BY <4>3
      <4>5. <<x[1], x[3]>> \in FipPairs
        BY <3>1, NowIs
      <4>6. Id(q) = Id(r) => OwnAddress(q) = OwnAddress(r) \/ <<Id(q), OwnAddress(q)>> \notin FipPairs
        BY <1>2, IdsAssumption DEF AllHosts
      <4> QED
        BY ONLY <2>3, <4>4, <4>5, <4>6
    <3>2. CASE <<x[1], x[3]>> \notin FipsNow
      <4>1. PICK q \in HostsNow : Id(q) = x[1] /\ OwnAddress(q) = x[3]
        BY <1>4, <2>3, <3>2 DEF RightFits
      <4>2. PICK g \in DOMAIN Contents : q \in Hosts(tfstate[g]) /\ Id(q) \in HostIds(g)
        BY NowIs
      <4>3. g = f
        BY <1>1, <1>2, <2>3, <4>1, <4>2, OneHome
      <4>4. Reading \in FileStates /\ q \in Hosts(Reading)
        BY <1>1, <4>2, <4>3, FileIs
      <4>5. q = r
        BY <2>3, <4>1, <4>4, IdsAssumption
      <4> QED
        BY <4>1, <4>5
    <3> QED
      BY <3>1, <3>2
  <2> QED
    BY <1>5, <2>1, <2>2, <2>3
<1>9. Flagged(h) => \A p \in ips : p[2] # h.access
  <2>1. ASSUME NEW p \in FipPairs PROVE p[2] # ""
    <3>1. PICK q \in TfResources : q.type = FipType /\ p = FipPair(q)
      BY DEF FipPairs
    <3>2. q.attrs.scalar.floating_ip # ""
      BY <3>1, ContentsAssumption DEF FipAttrs
    <3> QED
      BY <3>1, <3>2 DEF FipPair
  <2> QED
    BY <1>3, <2>1 DEF ShownFits, TfTyped
<1>10. (\E p \in ips : p[1] = Id(r)) => \E p \in ips : p[1] = Id(r) /\ h.ssh = p[2]
  BY <1>3 DEF ShownFits
<1>11. HostInv(h)
  BY <1>6, <1>7, <1>8, <1>9, <1>10 DEF HostInv
<1> QED
  BY <1>11 DEF h

LEMMA NodesKept ==
  ASSUME NodesInv, tfEver \subseteq tfEver', tfAlways' \subseteq tfAlways, UNCHANGED <<nodes, ips>>,
         \A f \in DOMAIN Contents : HostsRead(f)' => HostsRead(f)
  PROVE  NodesInv'
<1>1. \A h : HostInv(h) => HostInv(h)'
  BY DEF HostInv, Flagged
<1>2. \A x : Listed(x) => Listed(x)'
  BY DEF Listed
<1> QED
  BY <1>1, <1>2 DEF NodesInv

(* The hosts that are yielded are as the file says now, and none of its    *)
(* hosts that were there all the time is missing.                          *)
LEMMA NodesOfFile ==
  ASSUME TfTyped, WatchInv, IpsInv, NodesInv, ReadHosts
  PROVE  NodesInv'
<1> DEFINE f == walk[place + 1]
<1>1. /\ f \in DOMAIN Contents /\ Reading = tfstate[f] /\ Reading \in Contents[f]
      /\ place \in Nat /\ Len(walk) \in Nat /\ place + 1 <= Len(walk)
  BY ReadingIs DEF Reading
<1>2. PICK b : /\ Yielded(nodes, b, Range(Reading.resources)) /\ nodes' = b.nodes
               /\ pass' = IF LastFile /\ b.end = "hosts" THEN "done" ELSE b.end
  BY NodesAfter
<1>3. /\ UNCHANGED <<tfstate, query, walk, ips, tfEver, tfAlways>> /\ pass = "hosts"
      /\ ~LastFile => place' = place + 1
  BY DEF ReadHosts
<1>4. \A x \in tfAlways : x \in Right /\ RightFits(x)
  BY <1>3, Watching
<1> HIDE DEF f
<1>5. ASSUME NEW h \in Range(nodes') PROVE HostInv(h)'
  <2>1. HostInv(h)
    <3>1. CASE h \in Range(nodes)
      BY <3>1 DEF NodesInv
    <3>2. ASSUME NEW r \in Range(Reading.resources), r.type \in HostTypes, h = Shown(r) PROVE HostInv(h)
      BY <1>3, <3>2, ShownInv DEF Hosts
    <3> QED
      BY <1>2, <1>5, <3>1, <3>2 DEF Yielded
  <2> QED
    BY <1>3, <2>1 DEF HostInv, Flagged
<1>6. ASSUME NEW x, Listed(x) PROVE Listed(x)'
  BY <1>2, <1>6 DEF Listed, Yielded
<1>7. ASSUME b.end = "hosts", NEW x \in tfAlways, x[1] \in HostIds(f) PROVE Listed(x)'
  <2>1. PICK r \in HostsNow : Id(r) = x[1] /\ (x[2] = "group" => x[3] \in MemberOf(r))
    BY <1>4 DEF RightFits
  <2>2. PICK g \in DOMAIN Contents : r \in Hosts(tfstate[g]) /\ Id(r) \in HostIds(g)
    BY NowIs
  <2>3. g = f
    BY <1>1, <1>7, <2>1, <2>2, OneHome
  <2>4. r \in Hosts(Reading) /\ r \in TfResources /\ r.type \in HostTypes /\ r \in Range(Reading.resources)
    BY <1>1, <2>2, <2>3, FileIs DEF Hosts
  <2>5. Shown(r) \in Range(nodes') /\ Shown(r).id = Id(r) /\ Members(Shown(r)) = MemberOf(r)
    BY <1>2, <1>7, <2>4, ShownIs DEF Yielded, ShownFits
  <2> QED
    BY <2>1, <2>5 DEF Listed
<1>8. ASSUME NEW g \in DOMAIN Contents, HostsRead(g)' PROVE b.end = "hosts" /\ (g = f \/ HostsRead(g))
  <2>1. b.end = "hosts"
    BY <1>2, <1>3, <1>8 DEF HostsRead, Yielded
  <2>2. \E i \in 1 .. place + 1 : walk[i] = g
    <3>1. CASE LastFile
      <4>1. walk \in Walks /\ place + 1 = Len(walk)
        BY <3>1 DEF LastFile, TfTyped, TfTypeOK
      <4> QED
        BY <4>1, WalkIs
    <3>2. CASE ~LastFile
      <4>1. pass' = "hosts" /\ place' = place + 1 /\ walk' = walk
        BY <1>2, <1>3, <2>1, <3>2
      <4>2. g \in ReadSoFar'
        BY <1>8, <4>1 DEF HostsRead
      <4> QED
        BY <4>1, <4>2 DEF ReadSoFar
    <3> QED
      BY <3>1, <3>2
  <2>3. PICK i \in 1 .. place + 1 : walk[i] = g
    BY <2>2
  <2>4. i = place + 1 \/ i \in 1 .. place
    BY <1>1
  <2> QED
    BY <1>3, <2>1, <2>3, <2>4 DEF f, HostsRead, ReadSoFar
<1>9. ASSUME NEW g \in DOMAIN Contents, HostsRead(g)', NEW x \in tfAlways, x[1] \in HostIds(g) PROVE Listed(x)'
  <2>1. CASE g = f
    BY <1>7, <1>8, <1>9, <2>1
  <2>2. CASE HostsRead(g)
    BY <1>6, <1>9, <2>2 DEF NodesInv
  <2> QED
    BY <1>8, <1>9, <2>1, <2>2
<1>10. tfAlways' = tfAlways
  BY <1>3
<1> QED
  BY <1>5, <1>9, <1>10 DEF NodesInv

LEMMA NodesStep == TfTyped /\ WatchInv /\ IpsInv /\ NodesInv /\ [TfNext]_tfVars => NodesInv'
<1> SUFFICES ASSUME TfTyped, WatchInv, IpsInv, NodesInv, [TfNext]_tfVars PROVE NodesInv'
  OBVIOUS
<1>1. CASE BeginQuery
  <2>1. nodes' = <<>> /\ pass' = "ips"
    BY <1>1 DEF BeginQuery
  <2>2. Range(nodes') = {} /\ \A f : ~HostsRead(f)'
    BY <2>1 DEF HostsRead, Range
  <2> QED
    BY <2>2 DEF NodesInv
<1>2. CASE ReadUnsupported
  <2>1. /\ UNCHANGED <<nodes, ips, tfEver, tfAlways>> /\ pass' = "failed"
    BY <1>2 DEF ReadUnsupported
  <2> QED
    BY <2>1, NodesKept DEF HostsRead
<1>3. CASE ReadIps
  <2>1. /\ UNCHANGED <<nodes, tfEver, tfAlways>> /\ nodes = <<>> /\ pass' \in {"ips", "hosts"}
        /\ pass' = "hosts" => place' = 0
    BY <1>3 DEF ReadIps, TfTyped
  <2>2. Range(nodes') = {}
    BY <2>1 DEF Range
  <2>3. \A f : ~HostsRead(f)'
    BY <2>1 DEF HostsRead, ReadSoFar
  <2> QED
    BY <2>2, <2>3 DEF NodesInv
<1>4. CASE ReadHosts
  BY <1>4, NodesOfFile
<1>5. ASSUME NEW f \in DOMAIN Contents, NEW state \in Contents[f], Apply(f, state) PROVE NodesInv'
  <2>1. /\ UNCHANGED <<nodes, ips, query, pass, place, walk>>
        /\ tfEver \subseteq tfEver' /\ tfAlways' \subseteq tfAlways
    BY <1>5 DEF Apply, queryVars
  <2> QED
    BY <2>1, NodesKept DEF HostsRead, ReadSoFar
<1>6. CASE UNCHANGED tfVars
  BY <1>6, NodesKept DEF HostsRead, ReadSoFar, tfVars, queryVars
<1> QED
  BY <1>1, <1>2, <1>3, <1>4, <1>5, <1>6 DEF TfNext

LEMMA TfInvStep == TfInv /\ [TfNext]_tfVars => TfInv'
BY TypedStep, WatchStep, IpsStep, NodesStep DEF TfInv

(* When the last file has been read, nothing is left to read, so that what *)
(* was there all the time is among the hosts.                              *)
LEMMA TfInvReport == TfInv => TfReport
<1> SUFFICES ASSUME TfInv, pass = "done", \A i, j \in DOMAIN nodes : nodes[i].name = nodes[j].name => i = j
             PROVE  /\ Said \subseteq tfEver
                    /\ {x \in tfAlways : Asked(x)} \subseteq Said
                    /\ \A h \in Output : Flagged(h) => \A p \in ips : p[2] # h.access
  BY DEF TfReport, Flagged
<1>1. query \in {<<"list">>, <<"hostfile">>} \/ query = <<"host", query[2]>>
  BY TfAssumption DEF TfInv, TfTyped, TfTypeOK
<1>2. query[1] \in {"list", "hostfile", "host"}
  BY <1>1
<1>3. DOMAIN nodes = 1 .. Len(nodes) /\ Len(nodes) \in Nat
  BY DEF TfInv, TfTyped
<1>4. Output \subseteq Range(nodes)
  BY <1>2 DEF Output, Range
<1>5. query[1] # "host" => Output = Range(nodes)
  BY <1>2, <1>3 DEF Output, Range
<1>6. \A h \in Range(nodes) : HostInv(h)
  BY DEF TfInv, NodesInv
<1>7. Said \subseteq tfEver
  <2>1. \A h \in Output : <<h.id, "address", h.ssh>> \in tfEver
    BY <1>4, <1>6 DEF HostInv
  <2>2. \A h \in Range(nodes) : \A g \in Members(h) : <<h.id, "group", g>> \in tfEver
    BY <1>6 DEF HostInv
  <2> QED
    BY <2>1, <2>2 DEF Said
<1>8. ASSUME NEW x \in tfAlways, Asked(x) PROVE x \in Said
  <2>1. x = <<x[1], x[2], x[3]>> /\ x[2] \in {"address", "group"} /\ \E f \in DOMAIN Contents : x[1] \in HostIds(f)
    BY DEF TfInv, WatchInv, Known
  <2>2. query[1] # "host" => Listed(x)
    BY <2>1 DEF TfInv, NodesInv, HostsRead
  <2>3. CASE x[2] = "address"
    <3>1. PICK h \in Output : h.id = x[1]
      BY <1>2, <1>5, <1>8, <2>2 DEF Asked, Listed
    <3>2. x[3] = h.ssh
      BY <1>4, <1>6, <2>3, <3>1 DEF HostInv
    <3>3. x = <<h.id, "address", h.ssh>>
      BY <2>1, <2>3, <3>1, <3>2
    <3> QED
      BY <3>3 DEF Said
  <2>4. CASE x[2] = "group"
    <3>1. query[1] = "list"
      BY <1>8, <2>4 DEF Asked
    <3>2. PICK h \in Range(nodes) : h.id = x[1] /\ x[3] \in Members(h)
      BY <2>2, <2>4, <3>1 DEF Listed
    <3>3. x = <<h.id, "group", x[3]>>
      BY <2>1, <2>4, <3>2
    <3> QED
      BY <3>1, <3>2, <3>3 DEF Said
  <2> QED
    BY <2>1, <2>3, <2>4
<1>9. \A h \in Output : Flagged(h) => \A p \in ips : p[2] # h.access
  BY <1>4, <1>6 DEF HostInv
<1> QED
  BY <1>7, <1>8, <1>9

LEMMA TfInvHolds == TfSpec => []TfInv
BY TfInvInit, TfInvStep, PTL DEF TfSpec

(* A query is at one of the files of its walk, with the contents of files. *)
THEOREM TfTypeCorrect == TfSpec => []TfTypeOK
<1>1. TfInv => TfTypeOK
  BY DEF TfInv, TfTyped
<1> QED
  BY <1>1, TfInvHolds, PTL

(* Whatever Terraform writes between the two passes (terraform.py:435), a  *)
(* query says of no host what it never was, and of the hosts that were     *)
(* there all the time all that they were all the time; where hosts do not  *)
(* share names.  The files are as ContentsAssumption and IdsAssumption say.*)
THEOREM TfReportIsTrue == TfSpec => []TfReport
BY TfInvReport, TfInvHolds, PTL
=============================================================================
