--------------------------- MODULE EtcdCertsProofs ---------------------------
(***************************************************************************)
(* Proofs about the certificates of etcd (EtcdCerts), for any hosts, any   *)
(* limits, and any number of runs that are cut off and of hosts that are   *)
(* lost; GoesThrough alone is about limits that take all etcd hosts or     *)
(* none.                                                                   *)
(***************************************************************************)
EXTENDS EtcdCerts, TLAPS

LEMMA DirectoryType ==
  /\ Absent \in Pair /\ NoDirectory \in Directory
  /\ Stopped \in [ca : Nat, pair : Pair]
BY DEF Absent, Pair, NoDirectory, Directory, Stopped

LEMMA FirstType ==
  ASSUME TypeOK
  PROVE  /\ Len(group) \in Nat \ {0} /\ DOMAIN group = 1 .. Len(group)
         /\ First \in EtcdHosts /\ EtcdHosts \subseteq Hosts /\ First \in Hosts
         /\ Master \in Directory
BY DEF TypeOK, First, EtcdHosts, Range, Master

LEMMA FunctionIsSeq ==
  ASSUME NEW S, NEW n \in Nat, NEW f \in [1 .. n -> S]
  PROVE  f \in Seq(S) /\ Len(f) = n
OBVIOUS

LEMMA AppendIsSeq ==
  ASSUME NEW S, NEW s \in Seq(S), NEW e \in S
  PROVE  /\ Append(s, e) \in Seq(S) /\ Len(Append(s, e)) = Len(s) + 1
         /\ Append(s, e)[Len(s) + 1] = e
         /\ \A j \in 1 .. Len(s) : Append(s, e)[j] = s[j]
OBVIOUS

LEMMA InitType == Init => TypeOK
BY CertsAssumption, DirectoryType DEF Init, TypeOK, Stopped

-----------------------------------------------------------------------------
(* Changes of the group.                                                   *)

LEMMA WithoutType ==
  ASSUME TypeOK, NEW i \in DOMAIN group, Len(group) > 1
  PROVE  /\ Without(i) \in Seq(Hosts) /\ Len(Without(i)) = Len(group) - 1
         /\ \A j \in 1 .. Len(group) - 1 : Without(i)[j] # group[i] /\ Without(i)[j] \in EtcdHosts
         /\ \A j, k \in 1 .. Len(group) - 1 : Without(i)[j] = Without(i)[k] => j = k
<1> USE FirstType
<1>1. \A j \in 1 .. Len(group) - 1 :
          Without(i)[j] = IF j < i THEN group[j] ELSE group[j + 1]
  BY DEF Without
<1>2. \A j, k \in 1 .. Len(group) : group[j] = group[k] => j = k
  BY DEF TypeOK
<1>3. \A j \in 1 .. Len(group) : group[j] \in Hosts /\ group[j] \in EtcdHosts
  BY DEF TypeOK, EtcdHosts, Range
<1>4. Without(i) \in [1 .. Len(group) - 1 -> Hosts]
  BY <1>3 DEF Without
<1>5. Without(i) \in Seq(Hosts) /\ Len(Without(i)) = Len(group) - 1
  <2>1. Len(group) - 1 \in Nat
    OBVIOUS
  <2> QED
    BY <1>4, <2>1, FunctionIsSeq
<1>6. ASSUME NEW j \in 1 .. Len(group) - 1
      PROVE  \E m \in 1 .. Len(group) : m # i /\ m = (IF j < i THEN j ELSE j + 1) /\ Without(i)[j] = group[m]
  BY <1>1
<1>7. ASSUME NEW j \in 1 .. Len(group) - 1
      PROVE  Without(i)[j] # group[i] /\ Without(i)[j] \in EtcdHosts
  BY <1>2, <1>3, <1>6
<1>8. ASSUME NEW j \in 1 .. Len(group) - 1, NEW k \in 1 .. Len(group) - 1, Without(i)[j] = Without(i)[k]
      PROVE  j = k
  BY <1>2, <1>6, <1>8
<1> QED
  BY <1>5, <1>7, <1>8

LEMMA AddHostType == ASSUME TypeOK, NEW h \in Hosts, AddHost(h) PROVE TypeOK' /\ First' = First
<1> USE FirstType
<1>1. group' = Append(group, h) /\ group' \in Seq(Hosts) /\ Len(group') = Len(group) + 1
  BY DEF AddHost, TypeOK
<1>2. \A j \in 1 .. Len(group) : group'[j] = group[j] /\ group[j] # h
  BY <1>1 DEF AddHost, TypeOK, EtcdHosts, Range
<1>3. group'[Len(group) + 1] = h
  BY <1>1 DEF TypeOK
<1>4. \A i, j \in DOMAIN group' : group'[i] = group'[j] => i = j
  BY <1>1, <1>2, <1>3 DEF TypeOK
<1>5. First' = First /\ group' # <<>>
  BY <1>1, <1>2 DEF First
<1> QED
  BY <1>1, <1>4, <1>5 DEF AddHost, TypeOK, factVars, certVars

LEMMA MoveFirstType == ASSUME TypeOK, NEW i \in DOMAIN group, MoveFirst(i) PROVE TypeOK' /\ First' = group[i]
<1> USE FirstType
<1>1. Len(group) > 1
  BY DEF MoveFirst
<1>2. /\ \A j \in 1 .. Len(group) - 1 : Without(i)[j] # group[i] /\ Without(i)[j] \in Hosts
      /\ \A j, k \in 1 .. Len(group) - 1 : Without(i)[j] = Without(i)[k] => j = k
  BY <1>1, WithoutType
<1>3. /\ \A j \in 1 .. Len(group) : group'[j] = IF j = 1 THEN group[i] ELSE Without(i)[j - 1]
      /\ group' \in [1 .. Len(group) -> Hosts]
  <2>1. group' = [j \in 1 .. Len(group) |-> IF j = 1 THEN group[i] ELSE Without(i)[j - 1]]
    BY DEF MoveFirst
  <2>2. group[i] \in Hosts
    BY DEF TypeOK
  <2>3. \A j \in 1 .. Len(group) : (IF j = 1 THEN group[i] ELSE Without(i)[j - 1]) \in Hosts
    BY <1>2, <2>2
  <2> QED
    BY <2>1, <2>3
<1>4. group' \in Seq(Hosts) /\ Len(group') = Len(group) /\ group' # <<>> /\ DOMAIN group' = 1 .. Len(group)
  BY <1>3, FunctionIsSeq
<1>5. \A j, k \in DOMAIN group' : group'[j] = group'[k] => j = k
  <2> SUFFICES ASSUME NEW j \in 1 .. Len(group), NEW k \in 1 .. Len(group), group'[j] = group'[k]
               PROVE  j = k
    BY <1>4
  <2>1. CASE j = 1 \/ k = 1
    BY <2>1, <1>2, <1>3
  <2>2. CASE j # 1 /\ k # 1
    <3>1. j - 1 \in 1 .. Len(group) - 1 /\ k - 1 \in 1 .. Len(group) - 1
      BY <2>2
    <3>2. Without(i)[j - 1] = Without(i)[k - 1]
      BY <2>2, <1>3
    <3> QED
      BY <3>1, <3>2, <1>2
  <2> QED
    BY <2>1, <2>2
<1>6. First' = group[i]
  BY <1>3, <1>4 DEF First
<1> QED
  BY <1>4, <1>5, <1>6 DEF MoveFirst, TypeOK, factVars, certVars

LEMMA LoseType ==
  ASSUME TypeOK, NEW i \in DOMAIN group, Lose(i),
         dir' \in [Hosts -> Directory], group' \in Seq(Hosts), group' # <<>>,
         \A j, k \in DOMAIN group' : group'[j] = group'[k] => j = k
  PROVE  TypeOK'
<1>1. group[i] \in Hosts
  BY DEF TypeOK
<1>2. launched' \in [Hosts -> [ca : Nat, pair : Pair]]
  BY <1>1, DirectoryType DEF Lose, TypeOK
<1>3. ready' \subseteq Hosts /\ scripts' \subseteq Hosts /\ pc' = "idle"
  BY DEF Lose, TypeOK
<1>4. lost' \in 0 .. MaxLost
  <2>1. MaxLost \in Nat /\ lost \in 0 .. MaxLost /\ lost < MaxLost /\ lost' = lost + 1
    BY CertsAssumption DEF Lose, TypeOK
  <2> QED
    BY <2>1
<1> QED
  BY <1>2, <1>3, <1>4 DEF Lose, TypeOK, factVars

(* RemoveHost and RecoverHost leave the group led by a host that is ready, *)
(* whose authority and key they do not touch.                              *)
LEMMA RemoveHostType ==
  ASSUME TypeOK, NEW i \in DOMAIN group, RemoveHost(i)
  PROVE  /\ TypeOK'
         /\ First' = Without(i)[1] /\ First' # group[i] /\ group[i] \in Hosts
<1> USE FirstType
<1>1. Lose(i) /\ Len(group) > 1 /\ group' = Without(i) /\ dir' = Wiped(group[i])
  BY DEF RemoveHost, Lose
<1>2. group[i] \in Hosts
  BY DEF TypeOK
<1>3. 1 \in 1 .. Len(group) - 1
  BY <1>1
<1>4. /\ group' \in Seq(Hosts) /\ Len(group') = Len(group) - 1
      /\ group'[1] # group[i]
      /\ \A j, k \in 1 .. Len(group) - 1 : group'[j] = group'[k] => j = k
  BY <1>1, <1>3, WithoutType
<1>5. dir' \in [Hosts -> Directory]
  BY <1>1, <1>2, DirectoryType DEF Wiped, TypeOK
<1>6. group' # <<>> /\ \A j, k \in DOMAIN group' : group'[j] = group'[k] => j = k
  BY <1>3, <1>4
<1>7. TypeOK'
  BY <1>1, <1>4, <1>5, <1>6, LoseType
<1> QED
  BY <1>1, <1>2, <1>4, <1>7 DEF First

LEMMA RecoverHostType ==
  ASSUME TypeOK, NEW i \in DOMAIN group, RecoverHost(i)
  PROVE  /\ TypeOK'
         /\ First' = Without(i)[1] /\ First' # group[i] /\ group[i] \in Hosts /\ First' \in Hosts
         /\ dir'[group[i]] = NoDirectory
         /\ \A h \in Hosts \ {group[i]} :
               /\ dir'[h].ca = dir[h].ca /\ dir'[h].key = dir[h].key
               /\ \A g \in Hosts : dir'[h].member[g] \in {Absent, dir[h].member[g]}
               /\ \A n \in Nodes : dir'[h].node[n] \in {Absent, dir[h].node[n]}
<1> USE FirstType
<1> DEFINE first == Without(i)[1]
           new == [Wiped(group[i])[first] EXCEPT
                      !.member = [@ EXCEPT ![group[i]] = Absent],
                      !.node = [n \in Nodes |-> IF n = group[i] THEN Absent ELSE @[n]]]
<1>1. Lose(i) /\ Len(group) > 1 /\ group' = Append(Without(i), group[i])
  BY DEF RecoverHost, Lose
<1>2. group[i] \in Hosts
  BY DEF TypeOK
<1>3. 1 \in 1 .. Len(group) - 1
  BY <1>1
<1>4. /\ Without(i) \in Seq(Hosts) /\ Len(Without(i)) = Len(group) - 1
      /\ first # group[i] /\ first \in Hosts
      /\ \A j \in 1 .. Len(group) - 1 : Without(i)[j] # group[i]
      /\ \A j, k \in 1 .. Len(group) - 1 : Without(i)[j] = Without(i)[k] => j = k
  BY <1>1, <1>3, WithoutType
<1>5. /\ group' \in Seq(Hosts) /\ Len(group') = Len(group) /\ group'[Len(group)] = group[i]
      /\ \A j \in 1 .. Len(group) - 1 : group'[j] = Without(i)[j]
  <2> DEFINE rest == Without(i)
  <2>1. rest \in Seq(Hosts) /\ Len(rest) = Len(group) - 1 /\ group' = Append(rest, group[i])
    BY <1>1, <1>4
  <2> HIDE DEF rest
  <2>2. /\ group' \in Seq(Hosts) /\ Len(group') = Len(rest) + 1
        /\ group'[Len(rest) + 1] = group[i]
        /\ \A j \in 1 .. Len(rest) : group'[j] = rest[j]
    <3> DEFINE last == group[i]
    <3>1. last \in Hosts
      BY <1>2
    <3> HIDE DEF last
    <3>2. /\ Append(rest, last) \in Seq(Hosts) /\ Len(Append(rest, last)) = Len(rest) + 1
          /\ Append(rest, last)[Len(rest) + 1] = last
          /\ \A j \in 1 .. Len(rest) : Append(rest, last)[j] = rest[j]
      BY ONLY <2>1, <3>1, AppendIsSeq
    <3>3. group' = Append(rest, last)
      BY <2>1 DEF last
    <3>4. /\ group' \in Seq(Hosts) /\ Len(group') = Len(rest) + 1
          /\ group'[Len(rest) + 1] = last
          /\ \A j \in 1 .. Len(rest) : group'[j] = rest[j]
      BY <3>2, <3>3
    <3> QED
      BY <3>4 DEF last
  <2>3. Len(rest) + 1 = Len(group)
    BY <2>1
  <2>4. /\ group' \in Seq(Hosts) /\ Len(group') = Len(group) /\ group'[Len(group)] = group[i]
        /\ \A j \in 1 .. Len(group) - 1 : group'[j] = rest[j]
    BY <2>1, <2>2, <2>3
  <2> QED
    BY <2>4 DEF rest
<1>6. \A j, k \in DOMAIN group' : group'[j] = group'[k] => j = k
  <2>1. DOMAIN group' = 1 .. Len(group)
    BY <1>5
  <2>2. ASSUME NEW j \in 1 .. Len(group) - 1 PROVE group'[j] # group[i]
    BY <1>4, <1>5
  <2>3. ASSUME NEW j \in 1 .. Len(group) - 1, NEW k \in 1 .. Len(group) - 1, group'[j] = group'[k]
        PROVE  j = k
    BY <1>4, <1>5, <2>3
  <2> QED
    BY <1>5, <2>1, <2>2, <2>3
<1>7. group' # <<>> /\ First' = first
  BY <1>3, <1>5 DEF First
<1> HIDE DEF first
<1>8. Wiped(group[i]) \in [Hosts -> Directory] /\ Wiped(group[i])[first] = dir[first]
  BY <1>2, <1>4, DirectoryType DEF Wiped, TypeOK
<1>9. dir' = [Wiped(group[i]) EXCEPT ![first] = new]
  BY <1>8, <1>4 DEF RecoverHost, first
<1>10. dir[first] \in Directory
  BY <1>4 DEF TypeOK
<1>11. new = [dir[first] EXCEPT !.member = [@ EXCEPT ![group[i]] = Absent],
                                !.node = [n \in Nodes |-> IF n = group[i] THEN Absent ELSE @[n]]]
  BY <1>8
<1> HIDE DEF new
<1>12. /\ new \in Directory /\ new.ca = dir[first].ca /\ new.key = dir[first].key
       /\ \A g \in Hosts : new.member[g] \in {Absent, dir[first].member[g]}
       /\ \A n \in Nodes : new.node[n] \in {Absent, dir[first].node[n]}
  BY <1>10, <1>11, DirectoryType DEF Directory
<1>13. dir' \in [Hosts -> Directory] /\ dir'[first] = new
       /\ \A h \in Hosts \ {first} : dir'[h] = Wiped(group[i])[h]
  BY <1>4, <1>8, <1>9, <1>12
<1>14. TypeOK'
  BY <1>1, <1>5, <1>6, <1>7, <1>13, LoseType
<1>15. Wiped(group[i])[group[i]] = NoDirectory
       /\ \A h \in Hosts \ {group[i]} : Wiped(group[i])[h] = dir[h]
  BY <1>2 DEF Wiped, TypeOK
<1>16. First' = Without(i)[1]
  BY <1>7 DEF first
<1>17. dir'[group[i]] = NoDirectory
  BY <1>2, <1>4, <1>13, <1>15
<1>18. ASSUME NEW h \in Hosts \ {group[i]}
       PROVE  /\ dir'[h].ca = dir[h].ca /\ dir'[h].key = dir[h].key
              /\ \A g \in Hosts : dir'[h].member[g] \in {Absent, dir[h].member[g]}
              /\ \A n \in Nodes : dir'[h].node[n] \in {Absent, dir[h].node[n]}
  BY <1>12, <1>13, <1>15
<1> QED
  BY <1>2, <1>4, <1>7, <1>14, <1>16, <1>17, <1>18

-----------------------------------------------------------------------------
(* Steps of a run.                                                         *)

LEMMA NewType == ASSUME TypeOK, NEW auth \in Nat PROVE New(auth) \in Pair
BY DEF New, Pair, TypeOK

LEMMA HalfType ==
  ASSUME NEW old \in Pair, NEW new \in Pair
  PROVE  Half(old, new) \in Pair /\ Half(Absent, new) = Absent
BY DEF Half, Pair, Torn

LEMMA AuthorityType == ASSUME TypeOK PROVE Authority \in Nat \ {0}
<1>1. Master.key \in Nat
  BY FirstType DEF Directory
<1> QED
  BY <1>1 DEF Authority, TypeOK

LEMMA InstalledType ==
  ASSUME TypeOK, NEW M, NEW N, NEW auth \in Nat
  PROVE  Installed(M, N, auth) \in Directory
<1>1. New(auth) \in Pair
  BY NewType
<1>2. Master \in Directory
  BY FirstType
<1> QED
  BY <1>1, <1>2 DEF Installed, Directory

LEMMA WithMembersType ==
  ASSUME TypeOK, NEW d \in Directory
  PROVE  WithMembers(d) \in Directory
<1>1. Master \in Directory
  BY FirstType
<1> QED
  BY <1>1 DEF WithMembers, Directory

LEMMA WithNodesType ==
  ASSUME TypeOK, NEW d \in Directory, NEW S
  PROVE  /\ WithNodes(d, S) \in Directory
         /\ [WithNodes(d, S) EXCEPT !.ca = Master.ca] \in Directory
         /\ WithNodes(d, S).key = d.key /\ WithNodes(d, S).member = d.member
<1>1. Master \in Directory
  BY FirstType
<1> QED
  BY <1>1 DEF WithNodes, Directory

LEMMA StartRunType == ASSUME TypeOK, NEW l \in Limits, StartRun(l) PROVE TypeOK'
<1>1. l \subseteq Hosts /\ runs' \in 0 .. MaxRuns
  BY CertsAssumption DEF StartRun, TypeOK
<1> QED
  BY <1>1 DEF StartRun, TypeOK, Tasks, factVars, certVars

LEMMA CheckCertsType == ASSUME TypeOK, CheckCerts PROVE TypeOK'
<1>1. seen' \in Directory
  BY FirstType DEF CheckCerts, TypeOK
<1>2. PlayHosts \subseteq Hosts
  BY DEF PlayHosts, TypeOK
<1>3. requires' \subseteq Hosts /\ sync' \subseteq Hosts /\ changed' \subseteq Hosts
  BY <1>2 DEF CheckCerts, TypeOK
<1>4. pc' \in Tasks
  BY DEF CheckCerts, Goto, Tasks
<1> QED
  BY <1>1, <1>3, <1>4 DEF CheckCerts, Goto, TypeOK, operatorVars, certVars

LEMMA LeaderType == ASSUME TypeOK, pc = "generate", PlayHosts # {} PROVE Leader \in Hosts
BY FirstType DEF Leader, PlayHosts, TypeOK

-----------------------------------------------------------------------------
(* Keys, as far as directories go: a pair of a member comes only where the *)
(* authority's key is, and no step of a run takes a key away.              *)

HasKey(h) == dir[h].key # 0
MemberKey == \A h, g \in Hosts : dir[h].member[g] # Absent => HasKey(h)
PlayInv == pc \in Tasks => PlayHosts # {}
SeenRight == pc = "generate" => seen = dir[First]

KeysKept == \A h \in Hosts : HasKey(h) => HasKey(h)'

LEMMA GenerateKeys ==
  ASSUME TypeOK, PlayInv, MemberKey, SeenRight, Generate
  PROVE  /\ TypeOK' /\ MemberKey' /\ KeysKept
         /\ HasKey(First)' /\ First' = First
         /\ cas' = IF HasKey(First) THEN cas ELSE cas + 1
<1> DEFINE new == Installed(GenMembers, GenNodes, Authority)
<1>1. First \in Hosts /\ Authority \in Nat \ {0} /\ new \in Directory
  BY FirstType, AuthorityType, InstalledType
<1>2. new.key = Authority
  BY DEF Installed
<1>3. dir' = [dir EXCEPT ![First] = new]
  BY DEF Generate
<1> HIDE DEF new
<1>4. /\ dir' \in [Hosts -> Directory] /\ dir'[First] = new
      /\ \A h \in Hosts \ {First} : dir'[h] = dir[h]
  BY <1>1, <1>3 DEF TypeOK
<1>5. First' = First
  BY DEF Generate, Goto, operatorVars, First
<1>6. dir'[First].key # 0
  BY <1>1, <1>2, <1>4
<1>7. MemberKey' /\ KeysKept
  BY <1>4, <1>6 DEF MemberKey, HasKey, KeysKept
<1>8. Leader \in Hosts
  BY LeaderType DEF Generate, PlayInv, Tasks
<1>9. scripts' \subseteq Hosts /\ notified' \subseteq Hosts /\ made' \in Nat /\ cas' \in Nat /\ pc' \in Tasks
  BY <1>1, <1>8 DEF Generate, Goto, Tasks, TypeOK
<1>10. TypeOK'
  BY <1>4, <1>9 DEF Generate, Goto, TypeOK, operatorVars
<1>11. cas' = IF HasKey(First) THEN cas ELSE cas + 1
  BY DEF Generate, HasKey, Master
<1> QED
  BY <1>5, <1>6, <1>7, <1>10, <1>11 DEF HasKey

(* A copy whose results are directories that have lost no key.             *)
CopyResult(new) ==
    /\ new \in [Hosts -> Directory]
    /\ \A h \in Hosts : HasKey(h) => new[h].key # 0
    /\ \A h, g \in Hosts : new[h].member[g] # Absent => new[h].key # 0

LEMMA SyncMembersResult ==
  ASSUME TypeOK, MemberKey, pc = "members", ~Blocked
  PROVE  /\ CopyResult([h \in Hosts |-> IF h \in SyncedEtcd THEN WithMembers(dir[h]) ELSE dir[h]])
         /\ \A h \in SyncedEtcd : WithMembers(dir[h]).key # 0
<1>1. \A h \in Hosts : dir[h] \in Directory
  BY DEF TypeOK
<1>2. \A h \in SyncedEtcd : WithMembers(dir[h]).key # 0
  <2>1. SyncedEtcd # {} => Master.key # 0
    BY DEF Blocked, HasMembers
  <2>2. \A h \in Hosts : WithMembers(dir[h]).key = Master.key
    BY <1>1 DEF WithMembers, Directory
  <2>3. SyncedEtcd \subseteq Hosts
    BY FirstType DEF SyncedEtcd
  <2> QED
    BY <2>1, <2>2, <2>3
<1>3. \A h \in Hosts : WithMembers(dir[h]) \in Directory
  BY <1>1, WithMembersType
<1> QED
  BY <1>1, <1>2, <1>3 DEF CopyResult, MemberKey, HasKey

LEMMA SyncNodesResult ==
  ASSUME TypeOK, MemberKey, NEW S
  PROVE  CopyResult([h \in Hosts |-> IF h \in S THEN WithNodes(dir[h], Nodes) ELSE dir[h]])
<1>1. \A h \in Hosts : dir[h] \in Directory
  BY DEF TypeOK
<1>2. \A h \in Hosts : /\ WithNodes(dir[h], Nodes) \in Directory
                       /\ WithNodes(dir[h], Nodes).key = dir[h].key
                       /\ WithNodes(dir[h], Nodes).member = dir[h].member
  BY <1>1, WithNodesType
<1> QED
  BY <1>1, <1>2 DEF CopyResult, MemberKey, HasKey

LEMMA CopyToNodesResult ==
  ASSUME TypeOK, MemberKey, NEW S
  PROVE  CopyResult([h \in Hosts |-> IF h \in S THEN [WithNodes(dir[h], {h}) EXCEPT !.ca = Master.ca]
                                                ELSE dir[h]])
<1>1. \A h \in Hosts : dir[h] \in Directory
  BY DEF TypeOK
<1>2. ASSUME NEW h \in Hosts
      PROVE  /\ [WithNodes(dir[h], {h}) EXCEPT !.ca = Master.ca] \in Directory
             /\ [WithNodes(dir[h], {h}) EXCEPT !.ca = Master.ca].key = dir[h].key
             /\ [WithNodes(dir[h], {h}) EXCEPT !.ca = Master.ca].member = dir[h].member
  <2> DEFINE d == WithNodes(dir[h], {h})
  <2>1. /\ d \in Directory /\ [d EXCEPT !.ca = Master.ca] \in Directory
        /\ d.key = dir[h].key /\ d.member = dir[h].member
    BY <1>1, WithNodesType
  <2> HIDE DEF d
  <2>2. [d EXCEPT !.ca = Master.ca].key = d.key /\ [d EXCEPT !.ca = Master.ca].member = d.member
    BY <2>1 DEF Directory
  <2>3. /\ [d EXCEPT !.ca = Master.ca] \in Directory
        /\ [d EXCEPT !.ca = Master.ca].key = dir[h].key
        /\ [d EXCEPT !.ca = Master.ca].member = dir[h].member
    BY <2>1, <2>2
  <2> QED
    BY <2>3 DEF d
<1> QED
  BY <1>1, <1>2 DEF CopyResult, MemberKey, HasKey

LEMMA CopyKeys ==
  ASSUME TypeOK, CopyResult(dir')
  PROVE  dir' \in [Hosts -> Directory] /\ MemberKey' /\ KeysKept
BY DEF CopyResult, MemberKey, HasKey, KeysKept

(* Where a step that cuts a run off leaves the directories.                *)
LEMMA CutType ==
  ASSUME TypeOK, Cut, dir' \in [Hosts -> Directory], scripts' \subseteq Hosts, made' \in Nat, cas' \in Nat
  PROVE  TypeOK' /\ First' = First
<1>1. /\ pc' = "cut" /\ seen' \in Directory /\ cuts' \in 0 .. MaxCuts
      /\ requires' = {} /\ sync' = {} /\ changed' = {} /\ notified' = {}
  BY CertsAssumption, DirectoryType DEF TypeOK, Cut, Forget
<1>2. /\ launched' = launched /\ group' = group /\ force' = force /\ limit' = limit
      /\ play' = play /\ ready' = ready /\ runs' = runs /\ lost' = lost
  BY DEF Cut
<1> QED
  BY <1>1, <1>2 DEF TypeOK, First

LEMMA GenerateCutKeys ==
  ASSUME TypeOK, MemberKey, NEW k \in 0 .. 2, NEW M, NEW N, NEW H, GenerateCut(k, M, N, H)
  PROVE  /\ TypeOK' /\ MemberKey' /\ KeysKept /\ First' = First
         /\ cas' = cas \/ (~HasKey(First) /\ HasKey(First)' /\ cas' = cas + 1)
<1> DEFINE auth == Authority
           new == [ca     |-> IF k = 2 THEN auth ELSE Master.ca,
                   key    |-> IF k > 0 THEN auth ELSE Master.key,
                   member |-> [h \in Hosts |-> IF h \in M THEN New(auth)
                                               ELSE IF h \in GenMembers THEN Half(Master.member[h], New(auth))
                                               ELSE Master.member[h]],
                   node   |-> [n \in Nodes |-> IF n \in N THEN New(auth)
                                               ELSE IF n \in H THEN Half(Master.node[n], New(auth))
                                               ELSE Master.node[n]]]
<1>1. dir' = [dir EXCEPT ![First] = new]
  BY DEF GenerateCut
<1>2. First \in Hosts /\ Master \in Directory /\ Master = dir[First]
  BY FirstType DEF Master
<1>3. auth \in Nat \ {0} /\ New(auth) \in Pair
  BY AuthorityType, NewType
<1> HIDE DEF auth
<1>4. /\ Master.ca \in Nat /\ Master.key \in Nat
      /\ \A h \in Hosts : Master.member[h] \in Pair /\ Half(Master.member[h], New(auth)) \in Pair
      /\ \A n \in Nodes : Master.node[n] \in Pair /\ Half(Master.node[n], New(auth)) \in Pair
  BY <1>2, <1>3, HalfType DEF Directory
<1>5. new \in Directory
  BY <1>3, <1>4 DEF Directory
<1>6. new.key = IF k > 0 THEN auth ELSE Master.key
  OBVIOUS
<1>7. Master.key # 0 => new.key # 0
  BY <1>3, <1>6
<1>8. ASSUME NEW g \in Hosts, new.member[g] # Absent PROVE new.key # 0
  <2>1. CASE g \in M
    <3>1. k = 2
      BY <2>1 DEF GenerateCut
    <3> QED
      BY <3>1, <1>3, <1>6
  <2>2. CASE g \notin M
    <3>1. Master.member[g] # Absent
      BY <2>2, <1>3, <1>8, HalfType
    <3> QED
      BY <3>1, <1>2, <1>7 DEF MemberKey, HasKey
  <2> QED
    BY <2>1, <2>2
<1> HIDE DEF new
<1>9. /\ dir' \in [Hosts -> Directory] /\ dir'[First] = new
      /\ \A h \in Hosts \ {First} : dir'[h] = dir[h]
  BY <1>1, <1>2, <1>5 DEF TypeOK
<1>10. MemberKey' /\ KeysKept
  BY <1>2, <1>7, <1>8, <1>9 DEF MemberKey, HasKey, KeysKept
<1>11. scripts' \subseteq Hosts /\ made' \in Nat /\ cas' \in Nat /\ Cut
  BY <1>2 DEF GenerateCut, TypeOK
<1>12. TypeOK' /\ First' = First
  BY <1>9, <1>11, CutType
<1>13. cas' = cas \/ (Master.key = 0 /\ k > 0 /\ cas' = cas + 1)
  BY DEF GenerateCut
<1>14. k > 0 => dir'[First].key # 0
  BY <1>3, <1>6, <1>9
<1> QED
  BY <1>2, <1>10, <1>12, <1>13, <1>14 DEF HasKey

LEMMA CutCopyKeys ==
  ASSUME TypeOK, CopyResult(dir'), Cut, UNCHANGED <<scripts, made, cas>>
  PROVE  TypeOK' /\ MemberKey' /\ KeysKept /\ First' = First /\ cas' = cas
<1>1. dir' \in [Hosts -> Directory] /\ MemberKey' /\ KeysKept
  BY CopyKeys
<1>2. scripts' \subseteq Hosts /\ made' \in Nat /\ cas' \in Nat
  BY DEF TypeOK
<1> QED
  BY <1>1, <1>2, CutType

(* Where the loop over the files of the members has come to on one host.   *)
LEMMA CopiedToFields ==
  ASSUME TypeOK, NEW d \in Directory, NEW q \in Nat
  PROVE  LET new == CopiedTo(d, q)
         IN  /\ new \in Directory /\ new.node = d.node
             /\ new.ca = IF q >= 1 THEN Master.ca ELSE d.ca
             /\ new.key = IF q >= 2 THEN Master.key ELSE d.key
             /\ \A g \in Hosts : \/ q >= 2 /\ new.member[g] \in {Master.member[g], Half(d.member[g], Master.member[g])}
                                 \/ new.member[g] = d.member[g]
<1>1. Master \in Directory /\ DOMAIN group = 1 .. Len(group) /\ Len(group) \in Nat
  BY FirstType
<1>2. \A g \in Hosts : /\ d.member[g] \in Pair /\ Master.member[g] \in Pair
                       /\ Half(d.member[g], Master.member[g]) \in Pair
  BY <1>1, HalfType DEF Directory
<1> DEFINE f == [g \in Hosts |->
                    IF \E i \in DOMAIN group : group[i] = g /\ q >= 2 + 2 * i THEN Master.member[g]
                    ELSE IF \E i \in DOMAIN group : group[i] = g /\ q = 1 + 2 * i
                         THEN Half(d.member[g], Master.member[g])
                    ELSE d.member[g]]
           a == IF q >= 1 THEN Master.ca ELSE d.ca
           b == IF q >= 2 THEN Master.key ELSE d.key
           new == CopiedTo(d, q)
<1>3. f \in [Hosts -> Pair]
  BY <1>2
<1>4. a \in Nat /\ b \in Nat
  BY <1>1 DEF Directory
<1>5. new = [d EXCEPT !.ca = a, !.key = b, !.member = f]
  BY DEF CopiedTo, Directory
<1>6. \A g \in Hosts : \/ q >= 2 /\ f[g] \in {Master.member[g], Half(d.member[g], Master.member[g])}
                       \/ f[g] = d.member[g]
  BY <1>1
<1> HIDE DEF f, new
<1>7. new \in Directory /\ new.node = d.node /\ new.ca = a /\ new.key = b /\ new.member = f
  BY <1>3, <1>4, <1>5 DEF Directory
<1>8. /\ new \in Directory /\ new.node = d.node /\ new.ca = a /\ new.key = b
      /\ \A g \in Hosts : \/ q >= 2 /\ new.member[g] \in {Master.member[g], Half(d.member[g], Master.member[g])}
                          \/ new.member[g] = d.member[g]
  BY <1>6, <1>7
<1> QED
  BY <1>8 DEF new

LEMMA CopiedToResult ==
  ASSUME TypeOK, MemberKey, pc = "members", ~Blocked,
         NEW point \in [SyncedEtcd -> 1 .. 2 * Len(group) + 1]
  PROVE  CopyResult([h \in Hosts |-> IF h \in SyncedEtcd THEN CopiedTo(dir[h], point[h]) ELSE dir[h]])
<1>1. Master \in Directory /\ DOMAIN group = 1 .. Len(group) /\ Len(group) \in Nat
  BY FirstType
<1>2. \A h \in Hosts : dir[h] \in Directory
  BY DEF TypeOK
<1>3. SyncedEtcd # {} => Master.key # 0
  BY DEF Blocked, HasMembers
<1>4. ASSUME NEW h \in Hosts, h \in SyncedEtcd
      PROVE  /\ CopiedTo(dir[h], point[h]) \in Directory
             /\ HasKey(h) => CopiedTo(dir[h], point[h]).key # 0
             /\ \A g \in Hosts : CopiedTo(dir[h], point[h]).member[g] # Absent
                                => CopiedTo(dir[h], point[h]).key # 0
  <2> DEFINE d == dir[h]
             q == point[h]
             new == CopiedTo(d, q)
  <2>1. d \in Directory /\ q \in Nat
    BY <1>1, <1>2, <1>4
  <2> HIDE DEF d, q
  <2>3. /\ new \in Directory /\ new.key = IF q >= 2 THEN Master.key ELSE d.key
        /\ \A g \in Hosts : \/ q >= 2 /\ new.member[g] \in {Master.member[g], Half(d.member[g], Master.member[g])}
                            \/ new.member[g] = d.member[g]
    BY <2>1, CopiedToFields
  <2> HIDE DEF new
  <2>7. d.key # 0 => new.key # 0
    BY <1>3, <1>4, <2>3
  <2>8. \A g \in Hosts : d.member[g] # Absent => d.key # 0
    BY <1>4 DEF d, MemberKey, HasKey
  <2>9. \A g \in Hosts : new.member[g] # Absent => new.key # 0
    BY <1>3, <1>4, <2>3, <2>7, <2>8
  <2> QED
    BY <2>3, <2>7, <2>9 DEF new, d, q, HasKey
<1> QED
  BY <1>2, <1>4 DEF CopyResult, MemberKey, HasKey

LEMMA SyncNodesCutResult ==
  ASSUME TypeOK, MemberKey, NEW whole, NEW half
  PROVE  CopyResult([h \in Hosts |-> IF h \in NodeCopies
             THEN [dir[h] EXCEPT !.node = [n \in Nodes |->
                      IF n \in whole[h] THEN Master.node[n]
                      ELSE IF n \in half[h] THEN Half(@[n], Master.node[n]) ELSE @[n]]]
             ELSE dir[h]])
<1>1. \A h \in Hosts : dir[h] \in Directory
  BY DEF TypeOK
<1>2. Master \in Directory
  BY FirstType
<1>3. ASSUME NEW h \in Hosts
      PROVE  \A n \in Nodes : /\ dir[h].node[n] \in Pair /\ Master.node[n] \in Pair
                              /\ Half(dir[h].node[n], Master.node[n]) \in Pair
  BY <1>1, <1>2, HalfType DEF Directory
<1> QED
  BY <1>1, <1>3 DEF CopyResult, MemberKey, HasKey, Directory

LEMMA CopyToNodesCutResult ==
  ASSUME TypeOK, MemberKey, NEW unpacked \in SUBSET TarTargets, NEW half
  PROVE  CopyResult([h \in Hosts |-> IF h \in unpacked
             THEN [dir[h] EXCEPT !.ca = Master.ca,
                                 !.node[h] = IF h \in half THEN Half(@, Master.node[h]) ELSE @]
             ELSE dir[h]])
<1>1. \A h \in Hosts : dir[h] \in Directory
  BY DEF TypeOK
<1>2. Master \in Directory /\ unpacked \subseteq Nodes
  BY FirstType DEF TarTargets
<1>3. ASSUME NEW h \in unpacked, h \in Hosts
      PROVE  /\ dir[h].node[h] \in Pair /\ Master.node[h] \in Pair
             /\ Half(dir[h].node[h], Master.node[h]) \in Pair
  BY <1>1, <1>2, <1>3, HalfType DEF Directory
<1> QED
  BY <1>1, <1>2, <1>3 DEF CopyResult, MemberKey, HasKey, Directory

-----------------------------------------------------------------------------
(* The inductive invariant: every etcd host that a run passes gets the key *)
(* (KeysCome), so a host that a whole run has served has it (ReadyKey),    *)
(* and there is an authority only if the first host has its key (Counted). *)

Served == \A h \in EtcdHosts \cap limit : HasKey(h)

KeysCome ==
    /\ pc = "members" => HasKey(First)
    /\ pc \in {"generate", "members"} /\ play = "etcd" =>
           \A h \in EtcdHosts \cap limit : h \in sync \/ HasKey(h)
    /\ pc \in {"nodes", "tar", "configure", "restart", "end"} => Served
    /\ pc \in Tasks /\ play = "k8s" => Served

ReadyKey == \A h \in ready : HasKey(h)
Counted == cas <= 1 /\ (cas > 0 => HasKey(First))

KeyInv == PlayInv /\ SeenRight /\ MemberKey /\ KeysCome /\ ReadyKey /\ Counted

(* What a step may do to the number of authorities.                        *)
CountStep == cas' = cas \/ (~HasKey(First) /\ HasKey(First)' /\ cas' = cas + 1)

LEMMA StepKeys ==
  ASSUME TypeOK, KeyInv, KeysKept, ready' = ready, First' = First, CountStep
  PROVE  ReadyKey' /\ Counted'
<1>1. First \in Hosts /\ ready \subseteq Hosts /\ cas \in Nat
  BY FirstType DEF TypeOK
<1>2. ReadyKey'
  BY <1>1 DEF KeyInv, ReadyKey, KeysKept
<1>3. HasKey(First) => HasKey(First)'
  BY <1>1 DEF KeysKept, HasKey
<1>4. Counted'
  BY <1>1, <1>3 DEF KeyInv, Counted, CountStep
<1> QED
  BY <1>2, <1>4

(* A step with which the run ends without an effect on its hosts' state.   *)
LEMMA StopKeys ==
  ASSUME TypeOK, KeyInv, MemberKey', KeysKept, ready' = ready, First' = First, CountStep,
         pc' \in {"idle", "failed", "cut"}
  PROVE  KeyInv'
<1>1. PlayInv' /\ SeenRight' /\ KeysCome'
  BY DEF PlayInv, SeenRight, KeysCome, Tasks
<1> QED
  BY <1>1, StepKeys DEF KeyInv

(* A task after which the play goes on with the same hosts.                *)
LEMMA GoKeys ==
  ASSUME TypeOK, KeyInv, KeysKept, UNCHANGED <<operatorVars, play>>, CountStep, pc \in Tasks
  PROVE  /\ PlayInv' /\ ReadyKey' /\ Counted' /\ First' = First
         /\ EtcdHosts' = EtcdHosts /\ limit' = limit /\ play' = play
         /\ Served => Served'
<1>1. First' = First /\ EtcdHosts' = EtcdHosts /\ ready' = ready
  BY DEF operatorVars, First, EtcdHosts
<1>2. PlayInv'
  BY <1>1 DEF KeyInv, PlayInv, PlayHosts, operatorVars
<1>3. Served => Served'
  BY <1>1, FirstType DEF Served, KeysKept, operatorVars
<1> QED
  BY <1>1, <1>2, <1>3, StepKeys DEF operatorVars

LEMMA SameDir ==
  ASSUME KeyInv, dir' = dir
  PROVE  MemberKey' /\ KeysKept
BY DEF KeyInv, MemberKey, KeysKept, HasKey

-----------------------------------------------------------------------------

LEMMA InitKeys == Init => KeyInv
<1> SUFFICES ASSUME Init PROVE KeyInv
  OBVIOUS
<1>1. MemberKey
  BY DEF Init, MemberKey, HasKey, NoDirectory
<1> QED
  BY <1>1 DEF Init, KeyInv, PlayInv, SeenRight, KeysCome, ReadyKey, Counted, Tasks

LEMMA OperateKeys == ASSUME TypeOK, KeyInv, Operate PROVE TypeOK' /\ KeyInv'
<1>1. ASSUME NEW h \in Hosts, AddHost(h) PROVE TypeOK' /\ KeyInv'
  <2>1. dir' = dir /\ ready' = ready /\ cas' = cas /\ pc' = "idle"
    BY <1>1 DEF AddHost, certVars
  <2>2. TypeOK' /\ First' = First
    BY <1>1, AddHostType
  <2> QED
    BY <2>1, <2>2, SameDir, StopKeys DEF CountStep
<1>2. ASSUME NEW i \in DOMAIN group, MoveFirst(i) PROVE TypeOK' /\ KeyInv'
  <2>1. dir' = dir /\ ready' = ready /\ cas' = cas /\ pc' = "idle" /\ group[i] \in ready
    BY <1>2 DEF MoveFirst, certVars
  <2>2. TypeOK' /\ First' = group[i]
    BY <1>2, MoveFirstType
  <2>3. PlayInv' /\ SeenRight' /\ KeysCome'
    BY <2>1 DEF PlayInv, SeenRight, KeysCome, Tasks
  <2>4. ReadyKey'
    BY <2>1 DEF KeyInv, ReadyKey, HasKey
  <2>5. dir'[group[i]].key # 0
    BY <2>1 DEF KeyInv, ReadyKey, HasKey
  <2>6. Counted'
    BY <2>1, <2>2, <2>5 DEF KeyInv, Counted, HasKey
  <2> QED
    BY <2>2, <2>1, <2>3, <2>4, <2>6, SameDir DEF KeyInv
<1>3. ASSUME NEW i \in DOMAIN group, RemoveHost(i) \/ RecoverHost(i) PROVE TypeOK' /\ KeyInv'
  <2>1. /\ TypeOK' /\ First' = Without(i)[1] /\ First' # group[i]
        /\ group[i] \in Hosts
    BY <1>3, RemoveHostType, RecoverHostType
  <2>2. Lose(i)
    BY <1>3 DEF RemoveHost, RecoverHost
  <2>3. /\ Without(i)[1] \in ready /\ ready' = ready \ {group[i]} /\ cas' = cas /\ pc' = "idle"
    BY <2>2 DEF Lose
  <2>4. /\ dir'[group[i]] = NoDirectory
        /\ \A h \in Hosts \ {group[i]} :
              /\ dir'[h].key = dir[h].key
              /\ \A g \in Hosts : dir'[h].member[g] \in {Absent, dir[h].member[g]}
    <3>1. CASE RemoveHost(i)
      BY <2>1, <3>1 DEF RemoveHost, Wiped, TypeOK
    <3>2. CASE RecoverHost(i)
      BY <3>2, RecoverHostType
    <3> QED
      BY <1>3, <3>1, <3>2
  <2>5. MemberKey'
    BY <2>1, <2>4 DEF KeyInv, MemberKey, HasKey, NoDirectory
  <2>6. ready \subseteq Hosts
    BY DEF TypeOK
  <2>7. ReadyKey'
    BY <2>3, <2>4, <2>6 DEF KeyInv, ReadyKey, HasKey
  <2>8. HasKey(First)'
    BY <2>1, <2>3, <2>7 DEF ReadyKey, HasKey
  <2>9. Counted'
    BY <2>3, <2>8 DEF KeyInv, Counted
  <2>10. PlayInv' /\ SeenRight' /\ KeysCome'
    BY <2>3 DEF PlayInv, SeenRight, KeysCome, Tasks
  <2> QED
    BY <2>1, <2>5, <2>7, <2>9, <2>10 DEF KeyInv
<1>4. ASSUME NEW l \in Limits, StartRun(l) PROVE TypeOK' /\ KeyInv'
  <2>1. /\ dir' = dir /\ ready' = ready /\ cas' = cas /\ pc' = "check" /\ group' = group
        /\ limit' = l /\ play' = IF l \cap EtcdHosts # {} THEN "etcd" ELSE "k8s"
        /\ l \cap (EtcdHosts \cup Nodes) # {}
    BY <1>4 DEF StartRun, certVars
  <2>2. First' = First /\ EtcdHosts' = EtcdHosts
    BY <2>1 DEF First, EtcdHosts
  <2>3. PlayInv'
    BY <2>1, <2>2 DEF PlayInv, PlayHosts
  <2>4. KeysCome' /\ SeenRight'
    BY <2>1, <2>2 DEF KeysCome, SeenRight, Served
  <2>5. MemberKey' /\ KeysKept
    BY <2>1, SameDir
  <2>6. ReadyKey' /\ Counted'
    BY <2>1, <2>2, <2>5, StepKeys DEF CountStep
  <2> QED
    BY <1>4, <2>3, <2>4, <2>5, <2>6, StartRunType DEF KeyInv
<1> QED
  BY <1>1, <1>2, <1>3, <1>4 DEF Operate

-----------------------------------------------------------------------------
(* The tasks of a run.                                                     *)

LEMMA CheckKeys == ASSUME TypeOK, KeyInv, CheckCerts PROVE TypeOK' /\ KeyInv'
<1>1. TypeOK'
  BY CheckCertsType
<1>2. /\ UNCHANGED <<operatorVars, play>> /\ dir' = dir /\ cas' = cas /\ pc = "check" /\ pc' = "generate"
      /\ seen' = dir[First]
  BY DEF CheckCerts, Goto, certVars
<1>3. MemberKey' /\ KeysKept
  BY <1>2, SameDir
<1>4. /\ PlayInv' /\ ReadyKey' /\ Counted' /\ First' = First
      /\ EtcdHosts' = EtcdHosts /\ limit' = limit /\ play' = play
      /\ Served => Served'
  BY <1>2, <1>3, GoKeys DEF Tasks, CountStep
<1>5. SeenRight'
  BY <1>2, <1>4 DEF SeenRight
<1>6. ASSUME play = "etcd", NEW h \in EtcdHosts \cap limit PROVE h \in sync' \/ HasKey(h)
  <2>1. h \in PlayHosts \cap EtcdHosts /\ h \in Hosts
    BY <1>6, FirstType DEF PlayHosts
  <2>2. CASE RequiresSync(h, dir[First])
    BY <2>1, <2>2 DEF CheckCerts
  <2>3. CASE ~RequiresSync(h, dir[First])
    BY <2>1, <2>3 DEF RequiresSync, KeyInv, MemberKey
  <2> QED
    BY <2>2, <2>3
<1>7. \A h \in EtcdHosts \cap limit : HasKey(h) => HasKey(h)'
  BY <1>3, FirstType DEF KeysKept
<1>8. play = "k8s" => Served
  BY <1>2 DEF KeyInv, KeysCome, Tasks
<1>9. KeysCome'
  BY <1>2, <1>4, <1>6, <1>7, <1>8 DEF KeysCome
<1> QED
  BY <1>1, <1>3, <1>4, <1>5, <1>9 DEF KeyInv

(* Behind the task that makes certificates the first host has the key.     *)
LEMMA GeneratedKeys ==
  ASSUME TypeOK, KeyInv, TypeOK', MemberKey', KeysKept, CountStep, HasKey(First)',
         UNCHANGED <<operatorVars, play, sync>>, pc = "generate", pc' = "members"
  PROVE  KeyInv'
<1>1. /\ PlayInv' /\ ReadyKey' /\ Counted' /\ First' = First
      /\ EtcdHosts' = EtcdHosts /\ limit' = limit /\ play' = play
      /\ Served => Served'
  BY GoKeys DEF Tasks
<1>2. SeenRight'
  BY DEF SeenRight
<1>3. \A h \in EtcdHosts \cap limit : HasKey(h) => HasKey(h)'
  BY FirstType DEF KeysKept
<1>4. /\ play = "k8s" => Served
      /\ play = "etcd" => \A h \in EtcdHosts \cap limit : h \in sync \/ HasKey(h)
  BY DEF KeyInv, KeysCome, Tasks
<1>5. KeysCome'
  BY <1>1, <1>3, <1>4 DEF KeysCome
<1> QED
  BY <1>1, <1>2, <1>5 DEF KeyInv

LEMMA GenerateTaskKeys == ASSUME TypeOK, KeyInv, Generate PROVE TypeOK' /\ KeyInv'
<1>1. /\ TypeOK' /\ MemberKey' /\ KeysKept
      /\ HasKey(First)' /\ First' = First
      /\ cas' = IF HasKey(First) THEN cas ELSE cas + 1
  BY GenerateKeys DEF KeyInv
<1>2. CountStep
  BY <1>1 DEF CountStep
<1>3. UNCHANGED <<operatorVars, play, sync>> /\ pc = "generate" /\ pc' = "members"
  BY DEF Generate, Goto
<1> QED
  BY <1>1, <1>2, <1>3, GeneratedKeys

LEMMA GenerateSkippedKeys == ASSUME TypeOK, KeyInv, GenerateSkipped PROVE TypeOK' /\ KeyInv'
<1>1. /\ UNCHANGED <<operatorVars, play>> /\ UNCHANGED <<factVars, certVars, launched>>
      /\ pc = "generate" /\ pc' = "members"
  BY DEF GenerateSkipped, Goto
<1>2. TypeOK'
  BY <1>1 DEF TypeOK, Tasks, operatorVars, factVars, certVars
<1>3. MemberKey' /\ KeysKept
  BY <1>1, SameDir DEF certVars
<1>4. HasKey(First)
  <2>1. seen = dir[First] /\ First \in EtcdHosts /\ First \in Hosts
    BY <1>1, FirstType DEF KeyInv, SeenRight
  <2>2. ~force /\ GenMembers = {}
    BY DEF GenerateSkipped, GenCerts
  <2>3. seen.member[First] # Absent
    BY <2>1, <2>2 DEF GenMembers, MembersToMake
  <2> QED
    BY <2>1, <2>3 DEF KeyInv, MemberKey
<1>5. First' = First
  BY <1>1 DEF First, operatorVars
<1>6. HasKey(First)' /\ CountStep /\ UNCHANGED <<operatorVars, play, sync>>
  BY <1>1, <1>4, <1>5 DEF HasKey, CountStep, certVars, factVars
<1> QED
  BY <1>1, <1>2, <1>3, <1>6, GeneratedKeys

(* Tasks that copy.                                                        *)
LEMMA CopyTaskKeys ==
  ASSUME TypeOK, KeyInv, CopyResult(dir'), UNCHANGED <<operatorVars, play>>,
         UNCHANGED <<scripts, made, cas, factVars, launched>>,
         pc \in Tasks, pc' \in {"nodes", "tar", "configure", "end"}, Served'
  PROVE  TypeOK' /\ KeyInv'
<1>1. dir' \in [Hosts -> Directory] /\ MemberKey' /\ KeysKept
  BY CopyKeys
<1>2. TypeOK'
  BY <1>1 DEF TypeOK, Tasks, operatorVars, factVars
<1>3. PlayInv' /\ ReadyKey' /\ Counted'
  BY <1>1, GoKeys DEF CountStep
<1>4. SeenRight' /\ KeysCome'
  BY DEF SeenRight, KeysCome
<1> QED
  BY <1>1, <1>2, <1>3, <1>4 DEF KeyInv

LEMMA SyncMembersKeys == ASSUME TypeOK, KeyInv, SyncMembers PROVE TypeOK' /\ KeyInv'
<1> DEFINE new == [h \in Hosts |-> IF h \in SyncedEtcd THEN WithMembers(dir[h]) ELSE dir[h]]
<1>1. /\ pc = "members" /\ ~Blocked /\ dir' = new /\ pc' = "nodes"
      /\ UNCHANGED <<operatorVars, play>> /\ UNCHANGED <<scripts, made, cas, factVars, launched>>
  BY DEF SyncMembers, Copy, Goto
<1>2. CopyResult(new) /\ \A h \in SyncedEtcd : WithMembers(dir[h]).key # 0
  BY <1>1, SyncMembersResult DEF KeyInv
<1>3. EtcdHosts' = EtcdHosts /\ limit' = limit
  BY <1>1 DEF EtcdHosts, operatorVars
<1>4. ASSUME NEW h \in EtcdHosts \cap limit PROVE new[h].key # 0
  <2>1. h \in Hosts
    BY <1>4, FirstType
  <2>2. CASE HasKey(h)
    BY <1>2, <2>1, <2>2 DEF CopyResult
  <2>3. CASE ~HasKey(h)
    <3>1. play = "etcd"
      BY <1>1, <1>4, <2>3 DEF KeyInv, KeysCome, Served, TypeOK, Tasks
    <3>2. h \in sync /\ h # First
      BY <1>1, <1>4, <2>3, <3>1 DEF KeyInv, KeysCome
    <3>3. h \in SyncedEtcd
      BY <1>4, <3>1, <3>2 DEF SyncedEtcd, PlayHosts
    <3> QED
      BY <1>2, <2>1, <3>3
  <2> QED
    BY <2>2, <2>3
<1> HIDE DEF new
<1>5. Served'
  BY <1>1, <1>3, <1>4 DEF Served, HasKey
<1> QED
  BY <1>1, <1>2, <1>5, CopyTaskKeys DEF Tasks

LEMMA SyncNodesKeys == ASSUME TypeOK, KeyInv, SyncNodes PROVE TypeOK' /\ KeyInv'
<1> DEFINE new == [h \in Hosts |-> IF h \in NodeCopies THEN WithNodes(dir[h], Nodes) ELSE dir[h]]
<1>1. /\ pc = "nodes" /\ dir' = new /\ pc' = "tar"
      /\ UNCHANGED <<operatorVars, play>> /\ UNCHANGED <<scripts, made, cas, factVars, launched>>
  BY DEF SyncNodes, Copy, Goto
<1>2. CopyResult(new)
  BY SyncNodesResult DEF KeyInv
<1> HIDE DEF new
<1>3. CopyResult(dir')
  BY <1>1, <1>2
<1>4. KeysKept
  BY <1>3, CopyKeys
<1>5. Served'
  BY <1>1, <1>4, GoKeys DEF KeyInv, KeysCome, CountStep, Tasks
<1> QED
  BY <1>1, <1>3, <1>5, CopyTaskKeys DEF Tasks

LEMMA CopyToNodesKeys == ASSUME TypeOK, KeyInv, CopyToNodes PROVE TypeOK' /\ KeyInv'
<1> DEFINE new == [h \in Hosts |-> IF h \in TarTargets THEN [WithNodes(dir[h], {h}) EXCEPT !.ca = Master.ca]
                                   ELSE dir[h]]
<1>1. /\ pc = "tar" /\ dir' = new /\ pc' \in {"configure", "end"}
      /\ UNCHANGED <<operatorVars, play>> /\ UNCHANGED <<scripts, made, cas, factVars, launched>>
  BY DEF CopyToNodes, Copy, Goto
<1>2. CopyResult(new)
  BY CopyToNodesResult DEF KeyInv
<1> HIDE DEF new
<1>3. CopyResult(dir')
  BY <1>1, <1>2
<1>4. KeysKept
  BY <1>3, CopyKeys
<1>5. Served'
  BY <1>1, <1>4, GoKeys DEF KeyInv, KeysCome, CountStep, Tasks
<1> QED
  BY <1>1, <1>3, <1>5, CopyTaskKeys DEF Tasks

LEMMA StartedType ==
  ASSUME TypeOK, NEW h \in Hosts
  PROVE  Current(h) \in [ca : Nat, pair : Pair] /\ Started[h] \in [ca : Nat, pair : Pair]
<1>1. dir[h] \in Directory /\ launched[h] \in [ca : Nat, pair : Pair]
  BY DEF TypeOK
<1>2. Current(h) \in [ca : Nat, pair : Pair]
  BY <1>1 DEF Current, Directory
<1> QED
  BY <1>1, <1>2 DEF Started

LEMMA FailKeys ==
  ASSUME TypeOK, KeyInv, UNCHANGED <<operatorVars, certVars, play>>, Forget, pc' = "failed",
         launched' \in [Hosts -> [ca : Nat, pair : Pair]]
  PROVE  TypeOK' /\ KeyInv'
<1>1. TypeOK'
  BY DirectoryType DEF TypeOK, Forget, Tasks, operatorVars, certVars
<1>2. MemberKey' /\ KeysKept
  BY SameDir DEF certVars
<1> QED
  BY <1>1, <1>2, StopKeys DEF operatorVars, certVars, First, CountStep

LEMMA TaskFailsKeys == ASSUME TypeOK, KeyInv, TaskFails PROVE TypeOK' /\ KeyInv'
<1>1. launched' \in [Hosts -> [ca : Nat, pair : Pair]]
  BY DEF TaskFails, TypeOK
<1> QED
  BY <1>1, FailKeys DEF TaskFails, Goto

(* Tasks that only start or restart servers.                               *)
LEMMA ServerTaskKeys ==
  ASSUME TypeOK, KeyInv, UNCHANGED <<operatorVars, certVars, factVars, play>>,
         pc \in {"configure", "restart"}, pc' \in {"restart", "end"},
         launched' \in [Hosts -> [ca : Nat, pair : Pair]]
  PROVE  TypeOK' /\ KeyInv'
<1>1. TypeOK'
  BY DEF TypeOK, Tasks, operatorVars, certVars, factVars
<1>2. MemberKey' /\ KeysKept
  BY SameDir DEF certVars
<1>3. Served
  BY DEF KeyInv, KeysCome
<1>4. PlayInv' /\ ReadyKey' /\ Counted' /\ Served'
  BY <1>2, <1>3, GoKeys DEF CountStep, Tasks, certVars
<1>5. SeenRight' /\ KeysCome'
  BY <1>4 DEF SeenRight, KeysCome
<1> QED
  BY <1>1, <1>2, <1>4, <1>5 DEF KeyInv

LEMMA ConfigureKeys == ASSUME TypeOK, KeyInv, Configure PROVE TypeOK' /\ KeyInv'
<1>1. launched' \in [Hosts -> [ca : Nat, pair : Pair]]
  BY StartedType DEF Configure, Started
<1>2. CASE Accepted
  BY <1>1, <1>2, ServerTaskKeys DEF Configure, Goto
<1>3. CASE ~Accepted
  BY <1>1, <1>3, FailKeys DEF Configure, Goto
<1> QED
  BY <1>2, <1>3

LEMMA RestartKeys == ASSUME TypeOK, KeyInv, RestartIfChanged PROVE TypeOK' /\ KeyInv'
<1>1. \A h \in Hosts : /\ Current(h) \in [ca : Nat, pair : Pair]
                       /\ launched[h] \in [ca : Nat, pair : Pair]
  BY StartedType DEF TypeOK
<1>2. launched' \in [Hosts -> [ca : Nat, pair : Pair]]
  BY <1>1 DEF RestartIfChanged
<1> QED
  BY <1>2, ServerTaskKeys DEF RestartIfChanged, Goto

(* The end of a play is where an etcd host that the run has passed becomes *)
(* one that may be put first.                                              *)
LEMMA EndPlayKeys == ASSUME TypeOK, KeyInv, EndPlay PROVE TypeOK' /\ KeyInv'
<1>1. /\ UNCHANGED <<certVars, launched>> /\ pc = "end" /\ group' = group /\ limit' = limit
      /\ force' = force /\ runs' = runs /\ cuts' = cuts /\ lost' = lost
  BY DEF EndPlay, operatorVars
<1>2. MemberKey' /\ KeysKept /\ \A h : HasKey(h)' = HasKey(h)
  BY <1>1, SameDir DEF certVars, HasKey
<1>3. Served /\ First' = First /\ EtcdHosts' = EtcdHosts /\ Counted'
  BY <1>1 DEF KeyInv, KeysCome, First, EtcdHosts, Counted, HasKey, certVars
<1>4. Served'
  BY <1>1, <1>2, <1>3 DEF Served
<1>5. CASE play = "etcd" /\ limit \cap Nodes # {}
  <2>1. /\ pc' = "check" /\ play' = "k8s" /\ ready' = ready
        /\ changed' = changed \cup notified /\ notified' = {}
        /\ UNCHANGED <<seen, requires, sync>>
    BY <1>5 DEF EndPlay, operatorVars
  <2>2. TypeOK'
    BY <1>1, <2>1 DEF TypeOK, Tasks, certVars
  <2>3. PlayInv' /\ SeenRight' /\ KeysCome' /\ ReadyKey'
    BY <1>1, <1>2, <1>4, <1>5, <2>1 DEF PlayInv, PlayHosts, SeenRight, KeysCome, KeyInv, ReadyKey
  <2> QED
    BY <1>2, <1>3, <2>2, <2>3 DEF KeyInv
<1>6. CASE ~(play = "etcd" /\ limit \cap Nodes # {})
  <2>1. /\ pc' = "done" /\ play' = play /\ Forget
        /\ ready' = IF EtcdHosts \subseteq limit THEN ready \cup EtcdHosts ELSE ready
    BY <1>6 DEF EndPlay
  <2>2. TypeOK'
    BY <1>1, <2>1, FirstType, DirectoryType DEF TypeOK, Forget, Tasks, certVars
  <2>3. PlayInv' /\ SeenRight' /\ KeysCome'
    BY <2>1 DEF PlayInv, SeenRight, KeysCome, Tasks
  <2>4. ASSUME NEW h \in ready' PROVE HasKey(h)
    BY <1>3, <2>1, <2>4 DEF KeyInv, ReadyKey, Served
  <2>5. ReadyKey'
    BY <1>2, <2>4 DEF ReadyKey
  <2> QED
    BY <1>2, <1>3, <2>2, <2>3, <2>5 DEF KeyInv
<1> QED
  BY <1>5, <1>6

-----------------------------------------------------------------------------
(* Runs that are cut off.                                                  *)

LEMMA CutKeys ==
  ASSUME TypeOK, KeyInv, Cut, TypeOK', MemberKey', KeysKept, First' = First, CountStep
  PROVE  KeyInv'
BY StopKeys DEF Cut

LEMMA CutCopyTask ==
  ASSUME TypeOK, KeyInv, Cut, UNCHANGED <<scripts, made, cas>>, CopyResult(dir')
  PROVE  TypeOK' /\ KeyInv'
BY CutCopyKeys, CutKeys DEF KeyInv, CountStep

LEMMA CutOffKeys == ASSUME TypeOK, KeyInv, CutOff PROVE TypeOK' /\ KeyInv'
<1>1. CASE Interrupt
  <2>1. Cut /\ UNCHANGED certVars
    BY <1>1 DEF Interrupt
  <2>2. MemberKey' /\ KeysKept /\ CountStep
    BY <2>1, SameDir DEF certVars, CountStep
  <2>3. TypeOK' /\ First' = First
    BY <2>1, CutType DEF certVars, TypeOK
  <2> QED
    BY <2>1, <2>2, <2>3, CutKeys
<1>2. ASSUME NEW k \in 0 .. 2, NEW M, NEW N, NEW H, GenerateCut(k, M, N, H) PROVE TypeOK' /\ KeyInv'
  <2>1. Cut
    BY <1>2 DEF GenerateCut
  <2>2. /\ TypeOK' /\ MemberKey' /\ KeysKept /\ First' = First
        /\ cas' = cas \/ (~HasKey(First) /\ HasKey(First)' /\ cas' = cas + 1)
    <3>1. MemberKey
      BY DEF KeyInv
    <3> QED
      BY <1>2, <3>1, GenerateCutKeys
  <2>3. CountStep
    BY <2>2 DEF CountStep
  <2> QED
    BY <2>1, <2>2, <2>3, CutKeys
<1>3. ASSUME NEW point \in [SyncedEtcd -> 1 .. 2 * Len(group) + 1], pc = "members", SyncMembersCut(point)
      PROVE  TypeOK' /\ KeyInv'
  <2>1. ~Blocked /\ Cut /\ UNCHANGED <<scripts, made, cas>>
    BY <1>3 DEF SyncMembersCut, CutCopy
  <2>2. CopyResult(dir')
    BY <1>3, <2>1, CopiedToResult DEF KeyInv, SyncMembersCut, CutCopy
  <2> QED
    BY <2>1, <2>2, CutCopyTask
<1>4. ASSUME NEW whole, NEW half, SyncNodesCut(whole, half) PROVE TypeOK' /\ KeyInv'
  <2>1. Cut /\ UNCHANGED <<scripts, made, cas>>
    BY <1>4 DEF SyncNodesCut, CutCopy
  <2>2. CopyResult(dir')
    <3> DEFINE new == [h \in Hosts |-> IF h \in NodeCopies
                          THEN [dir[h] EXCEPT !.node = [n \in Nodes |->
                                   IF n \in whole[h] THEN Master.node[n]
                                   ELSE IF n \in half[h] THEN Half(@[n], Master.node[n]) ELSE @[n]]]
                          ELSE dir[h]]
    <3>1. dir' = new
      BY <1>4 DEF SyncNodesCut, CutCopy
    <3>2. CopyResult(new)
      BY SyncNodesCutResult DEF KeyInv
    <3> HIDE DEF new
    <3> QED
      BY <3>1, <3>2
  <2> QED
    BY <2>1, <2>2, CutCopyTask
<1>5. ASSUME NEW unpacked \in SUBSET TarTargets, NEW half, CopyToNodesCut(unpacked, half)
      PROVE  TypeOK' /\ KeyInv'
  <2>1. Cut /\ UNCHANGED <<scripts, made, cas>>
    BY <1>5 DEF CopyToNodesCut, CutCopy
  <2>2. CopyResult(dir')
    <3> DEFINE new == [h \in Hosts |-> IF h \in unpacked
                          THEN [dir[h] EXCEPT !.ca = Master.ca,
                                   !.node[h] = IF h \in half THEN Half(@, Master.node[h]) ELSE @]
                          ELSE dir[h]]
    <3>1. dir' = new
      BY <1>5 DEF CopyToNodesCut, CutCopy
    <3>2. CopyResult(new)
      BY CopyToNodesCutResult DEF KeyInv
    <3> HIDE DEF new
    <3> QED
      BY <3>1, <3>2
  <2> QED
    BY <2>1, <2>2, CutCopyTask
<1> QED
  BY <1>1, <1>2, <1>3, <1>4, <1>5 DEF CutOff

-----------------------------------------------------------------------------

LEMMA StutterKeys == ASSUME TypeOK, KeyInv, UNCHANGED vars PROVE TypeOK' /\ KeyInv'
<1>1. TypeOK'
  BY DEF TypeOK, vars, operatorVars, factVars, certVars
<1>2. KeyInv'
  BY DEF KeyInv, PlayInv, PlayHosts, EtcdHosts, SeenRight, First, MemberKey, HasKey, KeysCome, Served,
         ReadyKey, Counted, vars, operatorVars, factVars, certVars
<1> QED
  BY <1>1, <1>2

LEMMA NextKeys == ASSUME TypeOK, KeyInv, [Next]_vars PROVE TypeOK' /\ KeyInv'
<1>1. CASE Operate
  BY <1>1, OperateKeys
<1>2. CASE Play
  BY <1>2, CheckKeys, GenerateTaskKeys, GenerateSkippedKeys, SyncMembersKeys, SyncNodesKeys,
     CopyToNodesKeys, TaskFailsKeys, ConfigureKeys, RestartKeys, EndPlayKeys DEF Play
<1>3. CASE CutOff
  BY <1>3, CutOffKeys
<1>4. CASE UNCHANGED vars
  BY <1>4, StutterKeys
<1> QED
  BY <1>1, <1>2, <1>3, <1>4 DEF Next

LEMMA KeysStand == Spec => [](TypeOK /\ KeyInv)
<1>1. Init => TypeOK /\ KeyInv
  BY InitType, InitKeys
<1>2. TypeOK /\ KeyInv /\ [Next]_vars => (TypeOK /\ KeyInv)'
  BY NextKeys
<1> QED
  BY <1>1, <1>2, PTL DEF Spec

(* Every action leaves the variables in their sets, the group a sequence   *)
(* without repetition that is never empty, and every directory a whole one *)
(* (check_certs.yml, gen_certs_script.yml and what the operator does).     *)
THEOREM CertsTypeCorrect == Spec => []TypeOK
BY KeysStand, PTL

(* There is never a second authority (make-ssl-etcd.sh.j2:62), for groups  *)
(* of any size and wherever runs are cut off: the key reaches every host   *)
(* that a run has served before the run ends.                              *)
THEOREM MadeOnce == Spec => []AuthorityMadeOnce
<1>1. KeyInv => AuthorityMadeOnce
  BY DEF KeyInv, Counted, AuthorityMadeOnce
<1> QED
  BY <1>1, KeysStand, PTL

-----------------------------------------------------------------------------
(* What a directory holds when a task, or a part of one, has written to it *)
(* from another one: every file is the old one, the other's, none, or, for *)
(* a pair, half of each.                                                   *)

Kinds(old, new) == {Absent, old, new, Torn(new.no)}

Mix(d, x) ==
    {e \in Directory :
        /\ e.ca \in {0, d.ca, x.ca} /\ e.key \in {0, d.key, x.key}
        /\ \A g \in Hosts : e.member[g] \in Kinds(d.member[g], x.member[g])
        /\ \A n \in Nodes : e.node[n] \in Kinds(d.node[n], x.node[n])}

LEMMA HalfIs ==
  ASSUME NEW old, NEW new PROVE Half(old, new) \in Kinds(old, new)
BY DEF Half, Kinds

LEMMA WithMembersIs ==
  ASSUME TypeOK, NEW d \in Directory
  PROVE  /\ WithMembers(d) \in Mix(d, Master)
         /\ WithMembers(d).ca = Master.ca /\ WithMembers(d).key = Master.key /\ WithMembers(d).node = d.node
         /\ \A g \in EtcdHosts : WithMembers(d).member[g] = Master.member[g]
<1>1. Master \in Directory /\ WithMembers(d) \in Directory /\ EtcdHosts \subseteq Hosts
  BY FirstType, WithMembersType
<1>2. /\ WithMembers(d).ca = Master.ca /\ WithMembers(d).key = Master.key /\ WithMembers(d).node = d.node
      /\ \A g \in Hosts : WithMembers(d).member[g] =
                             IF g \in EtcdHosts THEN Master.member[g] ELSE d.member[g]
  BY <1>1 DEF WithMembers, Directory
<1> QED
  BY <1>1, <1>2 DEF Mix, Kinds

LEMMA WithNodesIs ==
  ASSUME TypeOK, NEW d \in Directory, NEW S
  PROVE  /\ WithNodes(d, S) \in Mix(d, Master)
         /\ WithNodes(d, S).ca = d.ca /\ WithNodes(d, S).member = d.member
         /\ \A n \in S \cap Nodes : WithNodes(d, S).node[n] = Master.node[n]
<1>1. Master \in Directory /\ WithNodes(d, S) \in Directory
  BY FirstType, WithNodesType
<1>2. /\ WithNodes(d, S).ca = d.ca /\ WithNodes(d, S).key = d.key /\ WithNodes(d, S).member = d.member
      /\ \A n \in Nodes : WithNodes(d, S).node[n] = IF n \in S THEN Master.node[n] ELSE d.node[n]
  BY <1>1 DEF WithNodes, Directory
<1> QED
  BY <1>1, <1>2 DEF Mix, Kinds

LEMMA WithAuthorityIs ==
  ASSUME NEW d \in Directory, NEW x \in Directory, NEW e \in Mix(d, x)
  PROVE  /\ [e EXCEPT !.ca = x.ca] \in Mix(d, x)
         /\ [e EXCEPT !.ca = x.ca].ca = x.ca
         /\ [e EXCEPT !.ca = x.ca].member = e.member
         /\ [e EXCEPT !.ca = x.ca].node = e.node
<1>1. e \in Directory
  BY DEF Mix
<1>2. [e EXCEPT !.ca = x.ca] \in Directory
  BY <1>1 DEF Directory
<1>3. /\ [e EXCEPT !.ca = x.ca].ca = x.ca
      /\ [e EXCEPT !.ca = x.ca].key = e.key
      /\ [e EXCEPT !.ca = x.ca].member = e.member
      /\ [e EXCEPT !.ca = x.ca].node = e.node
  BY <1>1 DEF Directory
<1> QED
  BY <1>2, <1>3 DEF Mix

(* No authority and no generation is out of the range of the counters.     *)
Numbered(d, c, m) ==
    /\ d.ca <= c /\ d.key <= c
    /\ \A g \in Hosts : d.member[g].by <= c /\ d.member[g].no <= m
    /\ \A n \in Nodes : d.node[n].by <= c /\ d.node[n].no <= m

LEMMA NumberedMix ==
  ASSUME NEW d \in Directory, NEW x \in Directory, NEW e \in Mix(d, x),
         NEW c \in Nat, NEW m \in Nat, Numbered(d, c, m), Numbered(x, c, m)
  PROVE  Numbered(e, c, m)
<1>1. ASSUME NEW p \in Pair, NEW q \in Pair, p.by <= c, p.no <= m, q.by <= c, q.no <= m,
             NEW r \in Kinds(p, q)
      PROVE  r.by <= c /\ r.no <= m
  BY <1>1 DEF Kinds, Absent, Torn, Pair
<1>2. e.ca <= c /\ e.key <= c
  BY DEF Mix, Numbered
<1>3. \A g \in Hosts : e.member[g].by <= c /\ e.member[g].no <= m
  BY <1>1 DEF Mix, Numbered, Directory
<1>4. \A n \in Nodes : e.node[n].by <= c /\ e.node[n].no <= m
  BY <1>1 DEF Mix, Numbered, Directory
<1> QED
  BY <1>2, <1>3, <1>4 DEF Numbered

LEMMA NumberedMore ==
  ASSUME NEW d \in Directory, NEW c \in Nat, NEW m \in Nat, NEW b \in Nat, NEW n \in Nat,
         Numbered(d, c, m), c <= b, m <= n
  PROVE  Numbered(d, b, n)
BY DEF Numbered, Directory, Pair

Numbers == \A h \in Hosts : Numbered(dir[h], cas, made)

LEMMA MixSelf ==
  ASSUME NEW d \in Directory, NEW x
  PROVE  d \in Mix(d, x) /\ NoDirectory \in Mix(d, x)
BY DirectoryType DEF Mix, Kinds, NoDirectory

LEMMA CopiedToIs ==
  ASSUME TypeOK, NEW d \in Directory, NEW q \in Nat
  PROVE  CopiedTo(d, q) \in Mix(d, Master)
<1>1. Master \in Directory
  BY FirstType
<1>2. /\ CopiedTo(d, q) \in Directory /\ CopiedTo(d, q).node = d.node
      /\ CopiedTo(d, q).ca \in {d.ca, Master.ca} /\ CopiedTo(d, q).key \in {d.key, Master.key}
      /\ \A g \in Hosts : CopiedTo(d, q).member[g] \in
                             {d.member[g], Master.member[g], Half(d.member[g], Master.member[g])}
  BY CopiedToFields
<1>3. \A g \in Hosts : CopiedTo(d, q).member[g] \in Kinds(d.member[g], Master.member[g])
  BY <1>2, HalfIs DEF Kinds
<1> QED
  BY <1>2, <1>3 DEF Mix, Kinds

LEMMA SyncNodesCutIs ==
  ASSUME TypeOK, NEW d \in Directory, NEW W, NEW H
  PROVE  [d EXCEPT !.node = [n \in Nodes |->
             IF n \in W THEN Master.node[n]
             ELSE IF n \in H THEN Half(@[n], Master.node[n]) ELSE @[n]]] \in Mix(d, Master)
<1> DEFINE f == [n \in Nodes |-> IF n \in W THEN Master.node[n]
                                 ELSE IF n \in H THEN Half(d.node[n], Master.node[n]) ELSE d.node[n]]
<1>1. \A n \in Nodes : f[n] \in Pair /\ f[n] \in Kinds(d.node[n], Master.node[n])
  <2>1. \A n \in Nodes : d.node[n] \in Pair /\ Master.node[n] \in Pair
    BY FirstType DEF Directory
  <2>2. \A n \in Nodes : Half(d.node[n], Master.node[n]) \in Pair
    BY <2>1, HalfType
  <2>3. \A n \in Nodes : Half(d.node[n], Master.node[n]) \in Kinds(d.node[n], Master.node[n])
    BY HalfIs
  <2> QED
    BY <2>1, <2>2, <2>3 DEF Kinds
<1>2. f \in [Nodes -> Pair]
  BY <1>1
<1> HIDE DEF f
<1>3. [d EXCEPT !.node = f] \in Mix(d, Master)
  BY <1>1, <1>2 DEF Mix, Directory, Kinds
<1> QED
  BY <1>3 DEF f, Directory

LEMMA CopyToNodesCutIs ==
  ASSUME TypeOK, NEW d \in Directory, NEW n \in Nodes, NEW H
  PROVE  [d EXCEPT !.ca = Master.ca,
                   !.node[n] = IF n \in H THEN Half(@, Master.node[n]) ELSE @] \in Mix(d, Master)
<1> DEFINE p == IF n \in H THEN Half(d.node[n], Master.node[n]) ELSE d.node[n]
<1>1. p \in Pair /\ p \in Kinds(d.node[n], Master.node[n])
  <2>1. d.node[n] \in Pair /\ Master.node[n] \in Pair
    BY FirstType DEF Directory
  <2>2. Half(d.node[n], Master.node[n]) \in Pair
    BY <2>1, HalfType
  <2> QED
    BY <2>1, <2>2, HalfIs DEF Kinds
<1> HIDE DEF p
<1>2. Master.ca \in Nat
  BY FirstType DEF Directory
<1>3. [d EXCEPT !.ca = Master.ca, !.node = [@ EXCEPT ![n] = p]] \in Mix(d, Master)
  BY <1>1, <1>2 DEF Mix, Directory, Kinds
<1> QED
  BY <1>3 DEF p, Directory

(* The script makes a whole directory of new files, with an authority.     *)
Fresh(auth) == Installed(Hosts, Nodes, auth)

LEMMA FreshIs ==
  ASSUME TypeOK, NEW auth \in Nat, NEW c \in Nat, auth <= c
  PROVE  Fresh(auth) \in Directory /\ Numbered(Fresh(auth), c, made + 1)
<1>1. Fresh(auth) \in Directory
  BY InstalledType DEF Fresh
<1>2. /\ Fresh(auth).ca = auth /\ Fresh(auth).key = auth
      /\ \A g \in Hosts : Fresh(auth).member[g] = New(auth)
      /\ \A n \in Nodes : Fresh(auth).node[n] = New(auth)
  BY DEF Fresh, Installed
<1> QED
  BY <1>1, <1>2 DEF Numbered, New, TypeOK

LEMMA InstalledIs ==
  ASSUME TypeOK, NEW M, NEW N, NEW auth \in Nat
  PROVE  /\ Installed(M, N, auth) \in Mix(Master, Fresh(auth))
         /\ Installed(M, N, auth).ca = auth
         /\ \A g \in Hosts : Installed(M, N, auth).member[g] = IF g \in M THEN New(auth) ELSE Master.member[g]
         /\ \A n \in Nodes : Installed(M, N, auth).node[n] = IF n \in N THEN New(auth) ELSE Master.node[n]
<1>1. Installed(M, N, auth) \in Directory
  BY InstalledType
<1> QED
  BY <1>1 DEF Mix, Kinds, Fresh, Installed

LEMMA GenerateCutIs ==
  ASSUME TypeOK, NEW k \in 0 .. 2, NEW M, NEW N, NEW H, GenerateCut(k, M, N, H)
  PROVE  \E auth \in Nat :
            /\ auth <= cas' \/ auth = Master.key
            /\ dir'[First] \in Mix(Master, Fresh(auth))
            /\ \A h \in Hosts \ {First} : dir'[h] = dir[h]
<1> DEFINE a == IF Master.key = 0 /\ k = 0 THEN 0 ELSE Authority
           mem == [h \in Hosts |-> IF h \in M THEN New(Authority)
                                   ELSE IF h \in GenMembers THEN Half(Master.member[h], New(Authority))
                                   ELSE Master.member[h]]
           nod == [n \in Nodes |-> IF n \in N THEN New(Authority)
                                   ELSE IF n \in H THEN Half(Master.node[n], New(Authority))
                                   ELSE Master.node[n]]
           new == [ca |-> IF k = 2 THEN Authority ELSE Master.ca,
                   key |-> IF k > 0 THEN Authority ELSE Master.key, member |-> mem, node |-> nod]
<1>1. /\ dir' = [dir EXCEPT ![First] = new]
      /\ cas' = IF Master.key = 0 /\ k > 0 THEN cas + 1 ELSE cas
      /\ M # {} \/ N \cup H # {} => k = 2
      /\ Master.key # 0 => k = 2
  BY DEF GenerateCut
<1>2. /\ First \in Hosts /\ Master \in Directory /\ Authority \in Nat \ {0}
      /\ cas \in Nat /\ dir \in [Hosts -> Directory] /\ New(Authority) \in Pair
  BY FirstType, AuthorityType, NewType DEF TypeOK
<1>3. a \in Nat /\ (a <= cas' \/ a = Master.key)
  BY <1>1, <1>2 DEF Authority, Directory
<1>4. k > 0 => a = Authority
  BY <1>1
<1>5. \A old \in Pair : Half(old, New(Authority)) \in {old, Torn(made + 1)}
  BY DEF Half, New
<1>6. Kinds(Absent, New(a)) = {Absent, New(a), Torn(made + 1)}
  BY DEF Kinds, New
<1>7. \A h \in Hosts : mem[h] \in Pair /\ mem[h] \in Kinds(Master.member[h], New(a))
  <2>1. \A h \in Hosts : Master.member[h] \in Pair /\ Half(Master.member[h], New(Authority)) \in Pair
    BY <1>2, HalfType DEF Directory
  <2>2. \A h \in Hosts : mem[h] \in Pair
    BY <1>2, <2>1
  <2>3. \A h \in M : New(Authority) = New(a)
    BY <1>1, <1>4
  <2> QED
    BY <2>1, <2>2, <2>3, <1>5 DEF Kinds, New
<1>8. \A n \in Nodes : nod[n] \in Pair /\ nod[n] \in Kinds(Master.node[n], New(a))
  <2>1. \A n \in Nodes : Master.node[n] \in Pair /\ Half(Master.node[n], New(Authority)) \in Pair
    BY <1>2, HalfType DEF Directory
  <2>2. \A n \in Nodes : nod[n] \in Pair
    BY <1>2, <2>1
  <2>3. \A n \in N : New(Authority) = New(a)
    BY <1>1, <1>4
  <2> QED
    BY <2>1, <2>2, <2>3, <1>5 DEF Kinds, New
<1>9. mem \in [Hosts -> Pair] /\ nod \in [Nodes -> Pair]
  BY <1>7, <1>8
<1> HIDE DEF a, mem, nod
<1>10. new \in Directory
  BY <1>2, <1>9 DEF Directory
<1>11. new \in Mix(Master, Fresh(a))
  <2>1. /\ Fresh(a).ca = a /\ Fresh(a).key = a
        /\ \A g \in Hosts : Fresh(a).member[g] = New(a)
        /\ \A n \in Nodes : Fresh(a).node[n] = New(a)
    BY DEF Fresh, Installed
  <2>2. new.ca \in {Master.ca, a} /\ new.key \in {Master.key, a}
    BY <1>4
  <2> QED
    BY <1>7, <1>8, <1>10, <2>1, <2>2 DEF Mix
<1> HIDE DEF new
<1>12. dir'[First] = new /\ \A h \in Hosts \ {First} : dir'[h] = dir[h]
  BY <1>1, <1>2
<1> QED
  BY <1>3, <1>11, <1>12

LEMMA NumbersMix ==
  ASSUME TypeOK, TypeOK', Numbers, cas <= cas', made <= made',
         NEW x \in Directory, Numbered(x, cas', made'),
         \A h \in Hosts : dir'[h] \in Mix(dir[h], x)
  PROVE  Numbers'
<1>1. cas \in Nat /\ made \in Nat /\ cas' \in Nat /\ made' \in Nat /\ dir \in [Hosts -> Directory]
  BY DEF TypeOK
<1>2. ASSUME NEW h \in Hosts PROVE Numbered(dir'[h], cas', made')
  <2>1. dir[h] \in Directory /\ dir'[h] \in Mix(dir[h], x)
    BY <1>1
  <2>2. Numbered(dir[h], cas', made')
    BY <1>1, <2>1, NumberedMore DEF Numbers
  <2> QED
    BY <1>1, <2>1, <2>2, NumberedMix
<1> QED
  BY <1>2 DEF Numbers

(* Every file comes from the first host.                                   *)
LEMMA NumbersCopied ==
  ASSUME TypeOK, TypeOK', Numbers, cas' = cas, made' = made,
         \A h \in Hosts : dir'[h] \in Mix(dir[h], Master)
  PROVE  Numbers'
<1>1. Master \in Directory /\ cas \in Nat /\ made \in Nat
  BY FirstType DEF TypeOK
<1>2. Numbered(Master, cas, made)
  BY FirstType DEF Numbers, Master
<1> QED
  BY <1>1, <1>2, NumbersMix

LEMMA NumbersLost ==
  ASSUME TypeOK, TypeOK', Numbers, NEW i \in DOMAIN group, RemoveHost(i) \/ RecoverHost(i)
  PROVE  Numbers'
<1>1. cas' = cas /\ made' = made
  BY DEF RemoveHost, RecoverHost, Lose
<1>2. ASSUME NEW h \in Hosts PROVE dir'[h] \in Mix(dir[h], Master)
  <2>1. dir[h] \in Directory /\ dir'[h] \in Directory
    BY DEF TypeOK
  <2>2. CASE RemoveHost(i)
    <3>1. dir'[h] \in {NoDirectory, dir[h]}
      BY <2>2, FirstType DEF RemoveHost, Wiped, TypeOK
    <3> QED
      BY <2>1, <3>1, MixSelf
  <2>3. CASE RecoverHost(i)
    <3>1. dir'[h] = NoDirectory \/
          (/\ dir'[h].ca = dir[h].ca /\ dir'[h].key = dir[h].key
           /\ \A g \in Hosts : dir'[h].member[g] \in {Absent, dir[h].member[g]}
           /\ \A n \in Nodes : dir'[h].node[n] \in {Absent, dir[h].node[n]})
      BY <2>3, RecoverHostType
    <3> QED
      BY <2>1, <3>1, MixSelf DEF Mix, Kinds
  <2> QED
    BY <2>2, <2>3
<1> QED
  BY <1>1, <1>2, NumbersCopied

LEMMA NumbersMade ==
  ASSUME TypeOK, TypeOK', Numbers, cas <= cas', made' = made + 1, NEW auth \in Nat,
         auth <= cas' \/ auth = Master.key,
         dir'[First] \in Mix(Master, Fresh(auth)),
         \A h \in Hosts \ {First} : dir'[h] = dir[h]
  PROVE  Numbers'
<1>1. /\ First \in Hosts /\ Master = dir[First] /\ Master.key \in Nat
      /\ cas \in Nat /\ cas' \in Nat /\ made \in Nat
  BY FirstType DEF Master, TypeOK, Directory
<1>2. auth <= cas'
  BY <1>1 DEF Numbers, Numbered
<1>3. Fresh(auth) \in Directory /\ Numbered(Fresh(auth), cas', made')
  BY <1>1, <1>2, FreshIs
<1>4. \A h \in Hosts : dir'[h] \in Mix(dir[h], Fresh(auth))
  BY <1>1, MixSelf DEF TypeOK
<1> QED
  BY <1>1, <1>3, <1>4, NumbersMix

(* What each copying task writes.                                          *)
LEMMA TasksCopy ==
  ASSUME TypeOK, NEW h \in Hosts
  PROVE  /\ SyncMembers => dir'[h] = IF h \in SyncedEtcd THEN WithMembers(dir[h]) ELSE dir[h]
         /\ SyncNodes => dir'[h] = IF h \in NodeCopies THEN WithNodes(dir[h], Nodes) ELSE dir[h]
         /\ CopyToNodes => dir'[h] = IF h \in TarTargets
                                     THEN [WithNodes(dir[h], {h}) EXCEPT !.ca = Master.ca] ELSE dir[h]
BY DEF SyncMembers, SyncNodes, CopyToNodes, Copy

LEMMA CopiesMix ==
  ASSUME TypeOK, SyncMembers \/ SyncNodes \/ CopyToNodes, NEW h \in Hosts
  PROVE  dir'[h] \in Mix(dir[h], Master)
<1>1. dir[h] \in Directory /\ Master \in Directory
  BY FirstType DEF TypeOK
<1>2. /\ dir[h] \in Mix(dir[h], Master) /\ WithMembers(dir[h]) \in Mix(dir[h], Master)
      /\ WithNodes(dir[h], Nodes) \in Mix(dir[h], Master) /\ WithNodes(dir[h], {h}) \in Mix(dir[h], Master)
  BY <1>1, MixSelf, WithMembersIs, WithNodesIs
<1>3. [WithNodes(dir[h], {h}) EXCEPT !.ca = Master.ca] \in Mix(dir[h], Master)
  BY <1>1, <1>2, WithAuthorityIs
<1> QED
  BY <1>2, <1>3, TasksCopy

LEMMA CutsMix ==
  ASSUME TypeOK,
         \/ \E point \in [SyncedEtcd -> 1 .. 2 * Len(group) + 1] : SyncMembersCut(point)
         \/ \E whole, half \in [NodeCopies -> SUBSET Nodes] : SyncNodesCut(whole, half)
         \/ \E unpacked \in SUBSET TarTargets : \E half \in SUBSET unpacked : CopyToNodesCut(unpacked, half),
         NEW h \in Hosts
  PROVE  dir'[h] \in Mix(dir[h], Master) /\ cas' = cas /\ made' = made
<1>1. dir[h] \in Directory /\ dir[h] \in Mix(dir[h], Master)
  BY MixSelf DEF TypeOK
<1>2. ASSUME NEW point \in [SyncedEtcd -> 1 .. 2 * Len(group) + 1], SyncMembersCut(point)
      PROVE  dir'[h] \in Mix(dir[h], Master) /\ cas' = cas /\ made' = made
  <2>1. /\ dir'[h] = IF h \in SyncedEtcd THEN CopiedTo(dir[h], point[h]) ELSE dir[h]
        /\ cas' = cas /\ made' = made
    BY <1>2 DEF SyncMembersCut, CutCopy
  <2>2. h \in SyncedEtcd => point[h] \in Nat
    BY <1>2, FirstType
  <2> QED
    BY <1>1, <2>1, <2>2, CopiedToIs
<1>3. ASSUME NEW whole, NEW half, SyncNodesCut(whole, half)
      PROVE  dir'[h] \in Mix(dir[h], Master) /\ cas' = cas /\ made' = made
  <2> DEFINE new == [dir[h] EXCEPT !.node = [n \in Nodes |->
                        IF n \in whole[h] THEN Master.node[n]
                        ELSE IF n \in half[h] THEN Half(@[n], Master.node[n]) ELSE @[n]]]
  <2>1. dir'[h] = IF h \in NodeCopies THEN new ELSE dir[h]
    BY <1>3 DEF SyncNodesCut, CutCopy
  <2>2. new \in Mix(dir[h], Master)
    BY <1>1, SyncNodesCutIs
  <2> HIDE DEF new
  <2> QED
    BY <1>1, <1>3, <2>1, <2>2 DEF SyncNodesCut, CutCopy
<1>4. ASSUME NEW unpacked \in SUBSET TarTargets, NEW half, CopyToNodesCut(unpacked, half)
      PROVE  dir'[h] \in Mix(dir[h], Master) /\ cas' = cas /\ made' = made
  <2> DEFINE new == [dir[h] EXCEPT !.ca = Master.ca,
                                   !.node[h] = IF h \in half THEN Half(@, Master.node[h]) ELSE @]
  <2>1. dir'[h] = IF h \in unpacked THEN new ELSE dir[h]
    BY <1>4 DEF CopyToNodesCut, CutCopy
  <2>2. h \in unpacked => new \in Mix(dir[h], Master)
    BY <1>1, CopyToNodesCutIs DEF TarTargets
  <2> HIDE DEF new
  <2> QED
    BY <1>1, <1>4, <2>1, <2>2 DEF CopyToNodesCut, CutCopy
<1> QED
  BY <1>2, <1>3, <1>4

LEMMA GenerateIs ==
  ASSUME TypeOK, Generate
  PROVE  /\ dir'[First] = Installed(GenMembers, GenNodes, Authority)
         /\ \A h \in Hosts \ {First} : dir'[h] = dir[h]
         /\ Authority \in Nat \ {0} /\ (Authority = cas' \/ Authority = Master.key)
         /\ cas <= cas' /\ made' = made + 1
<1>1. First \in Hosts /\ Authority \in Nat \ {0} /\ dir \in [Hosts -> Directory] /\ cas \in Nat
  BY FirstType, AuthorityType DEF TypeOK
<1> QED
  BY <1>1 DEF Generate, Authority

LEMMA NumbersKept == ASSUME TypeOK, TypeOK', Numbers, [Next]_vars PROVE Numbers'
<1>1. CASE UNCHANGED certVars
  BY <1>1 DEF Numbers, certVars
<1>2. CASE \E i \in DOMAIN group : RemoveHost(i) \/ RecoverHost(i)
  BY <1>2, NumbersLost
<1>3. CASE Generate
  <2>1. cas' \in Nat
    BY DEF TypeOK
  <2> QED
    BY <1>3, <2>1, GenerateIs, InstalledIs, NumbersMade
<1>4. CASE SyncMembers \/ SyncNodes \/ CopyToNodes
  <2>1. cas' = cas /\ made' = made
    BY <1>4 DEF SyncMembers, SyncNodes, CopyToNodes, Copy
  <2> QED
    BY <1>4, <2>1, CopiesMix, NumbersCopied
<1>5. CASE \E k \in 0 .. 2, M \in SUBSET GenMembers, N, H \in SUBSET GenNodes : GenerateCut(k, M, N, H)
  <2>1. PICK k \in 0 .. 2, M \in SUBSET GenMembers, N, H \in SUBSET GenNodes : GenerateCut(k, M, N, H)
    BY <1>5
  <2>2. cas <= cas' /\ made' = made + 1
    BY <2>1 DEF GenerateCut, TypeOK
  <2> QED
    BY <2>1, <2>2, GenerateCutIs, NumbersMade
<1>6. CASE \/ \E point \in [SyncedEtcd -> 1 .. 2 * Len(group) + 1] : SyncMembersCut(point)
           \/ \E whole, half \in [NodeCopies -> SUBSET Nodes] : SyncNodesCut(whole, half)
           \/ \E unpacked \in SUBSET TarTargets : \E half \in SUBSET unpacked : CopyToNodesCut(unpacked, half)
  <2>1. First \in Hosts
    BY FirstType
  <2> QED
    BY <1>6, <2>1, CutsMix, NumbersCopied
<1>7. CASE Interrupt \/ (\E h \in Hosts : AddHost(h)) \/ (\E i \in DOMAIN group : MoveFirst(i))
           \/ (\E l \in Limits : StartRun(l))
  BY <1>1, <1>7 DEF Interrupt, AddHost, MoveFirst, StartRun
<1>8. CASE CheckCerts \/ GenerateSkipped \/ TaskFails \/ Configure \/ RestartIfChanged \/ EndPlay
  BY <1>1, <1>8 DEF CheckCerts, GenerateSkipped, TaskFails, Configure, RestartIfChanged, EndPlay
<1> QED
  BY <1>1, <1>2, <1>3, <1>4, <1>5, <1>6, <1>7, <1>8 DEF Next, Operate, Play, CutOff, vars

-----------------------------------------------------------------------------
(* DoneMeansTrusted is not inductive: it rests on what each task of both    *)
(* plays leaves for the next one.                                          *)

(* The first host has all files, if not always two that belong together.   *)
Whole(p) == p # Absent /\ (force => p.by # 0)
Complete ==
    /\ Master.ca # 0
    /\ \A h \in EtcdHosts : Whole(Master.member[h])
    /\ \A n \in Nodes : Whole(Master.node[n])

InStep(h) == dir[h].ca = Master.ca /\ dir[h].member[h] = Master.member[h]
CopiedNode(n) == dir[n].ca = Master.ca /\ dir[n].node[n] = Master.node[n]

(* With one authority, a certificate of any is one of it.                  *)
Trusted(h) ==
    /\ Master.ca # 0 /\ dir[h].ca # 0
    /\ dir[h].member[h].by # 0 /\ Master.member[h].by # 0

(* An etcd host that has nothing made for it and nothing copied to it is   *)
(* in step; behind the second health check its pair is a whole one.        *)
EtcdPlay == \A h \in limit \cap EtcdHosts :
    /\ pc = "generate" => h \in sync \/ (InStep(h) /\ h \notin MembersToMake(Master) /\ Master.ca # 0)
    /\ pc = "members" => h \in sync \/ InStep(h)
    /\ pc \in {"nodes", "tar", "configure"} => InStep(h)
    /\ pc \in {"restart", "end"} => Trusted(h)

FilesInv ==
    /\ pc \in Tasks \ {"check", "generate"} => Complete
    /\ pc \in {"configure", "restart"} => play = "etcd"
    /\ pc \in Tasks /\ play = "etcd" => EtcdPlay
    /\ pc \in Tasks /\ play = "k8s" => \A h \in limit \cap EtcdHosts : Trusted(h)
    /\ pc = "end" /\ play = "k8s" => \A n \in limit \cap (Nodes \ EtcdHosts) : CopiedNode(n)

TrustInv == Numbers /\ FilesInv /\ DoneMeansTrusted

LEMMA OneAuthority ==
  ASSUME TypeOK, KeyInv, Numbers, NEW h \in Hosts
  PROVE  /\ dir[h].ca # 0 => dir[h].ca = 1
         /\ \A g \in Hosts : dir[h].member[g].by # 0 => dir[h].member[g].by = 1
         /\ \A n \in Nodes : dir[h].node[n].by # 0 => dir[h].node[n].by = 1
<1>1. dir[h] \in Directory /\ cas \in Nat /\ cas <= 1 /\ Numbered(dir[h], cas, made)
  BY DEF TypeOK, KeyInv, Counted, Numbers
<1>2. \A x \in Nat : x <= cas /\ x # 0 => x = 1
  BY <1>1
<1>3. dir[h].ca \in Nat /\ dir[h].ca <= cas
  BY <1>1 DEF Numbered, Directory
<1>4. \A g \in Hosts : dir[h].member[g].by \in Nat /\ dir[h].member[g].by <= cas
  BY <1>1 DEF Numbered, Directory, Pair
<1>5. \A n \in Nodes : dir[h].node[n].by \in Nat /\ dir[h].node[n].by <= cas
  BY <1>1 DEF Numbered, Directory, Pair
<1> QED
  BY <1>2, <1>3, <1>4, <1>5

(* A run that is over, or a play that begins.                              *)
LEMMA FilesRest ==
  ASSUME pc' \notin Tasks
  PROVE  FilesInv'
BY DEF FilesInv, Tasks

LEMMA FilesStart == ASSUME NEW l \in Limits, StartRun(l) PROVE FilesInv'
<1>1. /\ pc' = "check" /\ limit' = l /\ group' = group
      /\ play' = IF l \cap EtcdHosts # {} THEN "etcd" ELSE "k8s"
  BY DEF StartRun
<1>2. EtcdHosts' = EtcdHosts
  BY <1>1 DEF EtcdHosts
<1> QED
  BY <1>1, <1>2 DEF FilesInv, EtcdPlay, Tasks

LEMMA FilesChecked == ASSUME TypeOK, FilesInv, CheckCerts PROVE FilesInv'
<1>1. /\ UNCHANGED <<dir, group, limit, force, play>> /\ pc = "check" /\ pc' = "generate"
      /\ requires' = requires \cup {h \in PlayHosts \cap EtcdHosts : RequiresSync(h, dir[First])}
      /\ sync' = (sync \ PlayHosts) \cup
               (PlayHosts \cap (requires' \cup MembersToMake(dir[First]) \cup NodesToMake(dir[First])))
  BY DEF CheckCerts, Goto, operatorVars, certVars
<1>2. First' = First /\ EtcdHosts' = EtcdHosts /\ Master' = Master /\ Master = dir[First]
  BY <1>1 DEF First, EtcdHosts, Master
<1>3. ASSUME play = "etcd", NEW h \in limit \cap EtcdHosts, h \notin sync'
      PROVE  InStep(h) /\ h \notin MembersToMake(Master) /\ Master.ca # 0
  <2>1. h \in PlayHosts \cap EtcdHosts
    BY <1>3 DEF PlayHosts
  <2>2. ~RequiresSync(h, dir[First]) /\ h \notin MembersToMake(dir[First])
    BY <1>1, <1>3, <2>1
  <2> QED
    BY <1>2, <2>2 DEF RequiresSync, InStep
<1>4. \A h : InStep(h)' <=> InStep(h)
  BY <1>1, <1>2 DEF InStep
<1>5. MembersToMake(Master)' = MembersToMake(Master)
  BY <1>1, <1>2 DEF MembersToMake
<1>6. \A h : Trusted(h) => Trusted(h)'
  BY <1>1, <1>2 DEF Trusted
<1>7. play = "etcd" => EtcdPlay'
  BY <1>1, <1>2, <1>3, <1>4, <1>5 DEF EtcdPlay
<1> QED
  BY <1>1, <1>2, <1>6, <1>7 DEF FilesInv, Tasks

(* Behind the script nothing is missing, and what a host has already is    *)
(* what the first host has.                                                *)
LEMMA FilesGenerated ==
  ASSUME TypeOK, KeyInv, Numbers, TypeOK', KeyInv', Numbers', FilesInv, Generate
  PROVE  FilesInv'
<1> DEFINE auth == Authority
           GM == MembersToMake(Master)
           GN == NodesToMake(Master)
<1>1. /\ UNCHANGED <<group, limit, force, play, sync>> /\ pc = "generate" /\ pc' = "members"
  BY DEF Generate, Goto, operatorVars
<1>2. /\ First' = First /\ EtcdHosts' = EtcdHosts /\ First \in EtcdHosts /\ EtcdHosts \subseteq Hosts
      /\ Master = dir[First] /\ Master' = dir'[First]
  BY <1>1, FirstType DEF First, EtcdHosts, Master
<1>3. GenMembers = GM /\ GenNodes = GN
  BY <1>1, <1>2 DEF GenMembers, GenNodes, KeyInv, SeenRight
<1>4. /\ auth \in Nat \ {0} /\ Master'.ca = auth
      /\ \A g \in Hosts : Master'.member[g] = IF g \in GM THEN New(auth) ELSE Master.member[g]
      /\ \A n \in Nodes : Master'.node[n] = IF n \in GN THEN New(auth) ELSE Master.node[n]
      /\ \A h \in Hosts \ {First} : dir'[h] = dir[h]
  BY <1>2, <1>3, GenerateIs, InstalledIs
<1>5. New(auth) # Absent /\ New(auth).by # 0
  BY <1>4 DEF New, Absent
<1> HIDE DEF auth
<1>6. Complete'
  <2>1. \A g \in EtcdHosts : Whole(Master.member[g])' 
    BY <1>1, <1>2, <1>4, <1>5 DEF Whole, MembersToMake
  <2>2. \A n \in Nodes : Whole(Master.node[n])'
    BY <1>1, <1>4, <1>5 DEF Whole, NodesToMake
  <2> QED
    BY <1>2, <1>4, <2>1, <2>2 DEF Complete
<1>7. ASSUME NEW h \in limit \cap EtcdHosts, InStep(h), h \notin GM, Master.ca # 0 PROVE InStep(h)'
  <2>1. CASE h = First
    BY <1>2, <2>1 DEF InStep
  <2>2. CASE h # First
    <3>1. Master.ca = 1
      BY <1>2, <1>7, OneAuthority
    <3>2. Master'.ca = 1
      <4>1. dir'[First] \in Directory /\ cas' \in Nat /\ cas' <= 1 /\ dir'[First].ca <= cas'
        BY <1>2 DEF TypeOK, KeyInv, Counted, Numbers, Numbered
      <4> QED
        BY <1>2, <1>4, <4>1 DEF Directory
    <3> QED
      BY <1>2, <1>4, <1>7, <2>2, <3>1, <3>2 DEF InStep
  <2> QED
    BY <2>1, <2>2
<1>8. ASSUME NEW h \in limit \cap EtcdHosts, Trusted(h) PROVE Trusted(h)'
  BY <1>2, <1>4, <1>5, <1>8 DEF Trusted
<1>9. play = "etcd" => EtcdPlay'
  BY <1>1, <1>2, <1>7 DEF EtcdPlay, FilesInv, Tasks
<1> QED
  BY <1>1, <1>2, <1>6, <1>8, <1>9 DEF FilesInv, Tasks

LEMMA FilesNotGenerated == ASSUME TypeOK, KeyInv, FilesInv, GenerateSkipped PROVE FilesInv'
<1>1. UNCHANGED <<dir, group, limit, force, play, sync>> /\ pc = "generate" /\ pc' = "members" /\ ~GenCerts
  BY DEF GenerateSkipped, Goto, operatorVars, certVars, factVars
<1>2. First' = First /\ EtcdHosts' = EtcdHosts /\ Master' = Master /\ Master = dir[First] /\ seen = Master
  BY <1>1 DEF First, EtcdHosts, Master, KeyInv, SeenRight
<1>3. Complete
  BY <1>1, <1>2 DEF GenCerts, GenMembers, GenNodes, MembersToMake, NodesToMake, Complete, Whole
<1>4. Complete' /\ \A h : (InStep(h) => InStep(h)') /\ (Trusted(h) => Trusted(h)')
  BY <1>1, <1>2, <1>3 DEF Complete, Whole, InStep, Trusted
<1>5. play = "etcd" => EtcdPlay'
  BY <1>1, <1>2, <1>4 DEF EtcdPlay, FilesInv, Tasks
<1> QED
  BY <1>1, <1>2, <1>4, <1>5 DEF FilesInv, Tasks

(* The copying tasks do not touch the first host, nor what belongs         *)
(* together on the others.                                                 *)
LEMMA FilesGo ==
  ASSUME TypeOK, pc \in Tasks, UNCHANGED <<operatorVars, play>>, dir'[First] = Master
  PROVE  /\ First' = First /\ EtcdHosts' = EtcdHosts /\ Master' = Master
         /\ limit' = limit /\ force' = force /\ play' = play
         /\ Complete' <=> Complete
         /\ \A h \in EtcdHosts : dir'[h].ca = dir[h].ca /\ dir'[h].member = dir[h].member =>
               /\ InStep(h)' <=> InStep(h)
               /\ Trusted(h)' <=> Trusted(h)
<1>1. First' = First /\ EtcdHosts' = EtcdHosts /\ limit' = limit /\ force' = force /\ play' = play
  BY DEF operatorVars, First, EtcdHosts
<1>2. Master' = Master
  BY <1>1 DEF Master
<1> QED
  BY <1>1, <1>2 DEF Complete, Whole, InStep, Trusted

LEMMA FilesMembers == ASSUME TypeOK, FilesInv, SyncMembers PROVE FilesInv'
<1>1. UNCHANGED <<operatorVars, play>> /\ pc = "members" /\ pc' = "nodes"
  BY DEF SyncMembers, Copy, Goto
<1>2. First \in EtcdHosts /\ EtcdHosts \subseteq Hosts /\ First \notin SyncedEtcd
  BY FirstType DEF SyncedEtcd
<1>3. \A h \in Hosts : dir'[h] = IF h \in SyncedEtcd THEN WithMembers(dir[h]) ELSE dir[h]
  BY TasksCopy
<1>4. /\ First' = First /\ EtcdHosts' = EtcdHosts /\ Master' = Master
      /\ limit' = limit /\ play' = play /\ (Complete' <=> Complete)
      /\ \A h \in EtcdHosts : dir'[h].ca = dir[h].ca /\ dir'[h].member = dir[h].member =>
            /\ InStep(h)' <=> InStep(h)
            /\ Trusted(h)' <=> Trusted(h)
  <2>1. dir'[First] = Master /\ pc \in Tasks
    BY <1>1, <1>2, <1>3 DEF Master, Tasks
  <2> QED
    BY <1>1, <2>1, FilesGo
<1>5. ASSUME NEW h \in SyncedEtcd
      PROVE  h \in EtcdHosts /\ dir'[h].ca = Master.ca /\ dir'[h].member[h] = Master.member[h]
  <2>1. h \in EtcdHosts /\ dir[h] \in Directory /\ dir'[h] = WithMembers(dir[h])
    BY <1>2, <1>3 DEF SyncedEtcd, TypeOK
  <2> QED
    BY <2>1, WithMembersIs
<1>6. ASSUME play = "etcd", NEW h \in limit \cap EtcdHosts PROVE InStep(h)'
  <2>1. h \in sync \/ InStep(h)
    BY <1>1, <1>6 DEF FilesInv, EtcdPlay, Tasks
  <2>2. CASE h = First
    BY <1>4, <2>2 DEF InStep, Master
  <2>3. CASE h # First /\ h \in sync
    <3>1. h \in SyncedEtcd
      BY <1>6, <2>3 DEF SyncedEtcd, PlayHosts
    <3> QED
      BY <1>4, <1>5, <3>1 DEF InStep
  <2>4. CASE h \notin sync
    BY <1>2, <1>3, <1>4, <2>1, <2>4 DEF SyncedEtcd
  <2> QED
    BY <2>2, <2>3, <2>4
<1>7. ASSUME NEW h \in limit \cap EtcdHosts, Trusted(h) PROVE Trusted(h)'
  <2>1. CASE h \in SyncedEtcd
    BY <1>4, <1>5, <1>7, <2>1 DEF Trusted
  <2>2. CASE h \notin SyncedEtcd
    BY <1>2, <1>3, <1>4, <1>7, <2>2
  <2> QED
    BY <2>1, <2>2
<1>8. play = "etcd" => EtcdPlay'
  BY <1>1, <1>4, <1>6 DEF EtcdPlay
<1> QED
  BY <1>1, <1>4, <1>7, <1>8 DEF FilesInv, Tasks

LEMMA FilesNodes == ASSUME TypeOK, FilesInv, SyncNodes PROVE FilesInv'
<1>1. UNCHANGED <<operatorVars, play>> /\ pc = "nodes" /\ pc' = "tar"
  BY DEF SyncNodes, Copy, Goto
<1>2. First \in EtcdHosts /\ EtcdHosts \subseteq Hosts /\ First \notin NodeCopies
  BY FirstType DEF NodeCopies
<1>3. \A h \in Hosts : dir'[h] = IF h \in NodeCopies THEN WithNodes(dir[h], Nodes) ELSE dir[h]
  BY TasksCopy
<1>4. \A h \in Hosts : dir'[h].ca = dir[h].ca /\ dir'[h].member = dir[h].member
  <2>1. \A h \in Hosts : WithNodes(dir[h], Nodes).ca = dir[h].ca /\ WithNodes(dir[h], Nodes).member = dir[h].member
    BY WithNodesIs DEF TypeOK
  <2> QED
    BY <1>3, <2>1
<1>5. /\ EtcdHosts' = EtcdHosts /\ limit' = limit /\ play' = play /\ (Complete' <=> Complete)
      /\ \A h \in EtcdHosts : (InStep(h)' <=> InStep(h)) /\ (Trusted(h)' <=> Trusted(h))
  <2>1. dir'[First] = Master /\ pc \in Tasks
    BY <1>1, <1>2, <1>3 DEF Master, Tasks
  <2> QED
    BY <1>1, <1>2, <1>4, <2>1, FilesGo
<1>6. play = "etcd" => EtcdPlay'
  BY <1>1, <1>5 DEF EtcdPlay, FilesInv, Tasks
<1> QED
  BY <1>1, <1>5, <1>6 DEF FilesInv, Tasks

LEMMA FilesTar == ASSUME TypeOK, FilesInv, CopyToNodes PROVE FilesInv'
<1>1. /\ UNCHANGED <<operatorVars, play>> /\ pc = "tar"
      /\ pc' = IF play = "etcd" THEN "configure" ELSE "end"
  BY DEF CopyToNodes, Copy, Goto
<1>2. First \in EtcdHosts /\ EtcdHosts \subseteq Hosts /\ TarTargets \cap EtcdHosts = {}
  BY FirstType DEF TarTargets
<1>3. \A h \in Hosts : dir'[h] = IF h \in TarTargets
                                 THEN [WithNodes(dir[h], {h}) EXCEPT !.ca = Master.ca] ELSE dir[h]
  BY TasksCopy
<1>4. \A h \in EtcdHosts : dir'[h] = dir[h]
  BY <1>2, <1>3
<1>5. /\ EtcdHosts' = EtcdHosts /\ limit' = limit /\ play' = play /\ Master' = Master
      /\ (Complete' <=> Complete)
      /\ \A h \in EtcdHosts : (InStep(h)' <=> InStep(h)) /\ (Trusted(h)' <=> Trusted(h))
  <2>1. dir'[First] = Master /\ pc \in Tasks
    BY <1>1, <1>2, <1>4 DEF Master, Tasks
  <2> QED
    BY <1>1, <1>4, <2>1, FilesGo
<1>6. ASSUME NEW n \in TarTargets PROVE CopiedNode(n)'
  <2>1. n \in Nodes /\ n \in Hosts /\ dir[n] \in Directory
    BY CertsAssumption DEF TarTargets, TypeOK
  <2>2. /\ WithNodes(dir[n], {n}) \in Mix(dir[n], Master)
        /\ WithNodes(dir[n], {n}).node[n] = Master.node[n]
    BY <2>1, WithNodesIs
  <2>3. /\ [WithNodes(dir[n], {n}) EXCEPT !.ca = Master.ca].ca = Master.ca
        /\ [WithNodes(dir[n], {n}) EXCEPT !.ca = Master.ca].node = WithNodes(dir[n], {n}).node
    BY <2>1, <2>2, WithAuthorityIs, FirstType
  <2>4. dir'[n] = [WithNodes(dir[n], {n}) EXCEPT !.ca = Master.ca]
    BY <1>3, <2>1
  <2> QED
    BY <1>5, <2>2, <2>3, <2>4 DEF CopiedNode
<1>7. play = "etcd" => EtcdPlay'
  BY <1>1, <1>5 DEF EtcdPlay, FilesInv, Tasks
<1>8. play = "k8s" => \A n \in limit \cap (Nodes \ EtcdHosts) : CopiedNode(n)'
  BY <1>6 DEF TarTargets, PlayHosts
<1>9. play \in {"etcd", "k8s"}
  BY DEF TypeOK
<1> QED
  BY <1>1, <1>5, <1>7, <1>8, <1>9 DEF FilesInv, Tasks

(* The health check refuses a server without authority and a pair that is  *)
(* half of another.                                                        *)
LEMMA FilesConfigured == ASSUME TypeOK, FilesInv, Configure PROVE FilesInv'
<1>1. CASE ~Accepted
  BY <1>1, FilesRest DEF Configure, Goto, Tasks
<1>2. CASE Accepted
  <2>1. /\ UNCHANGED <<dir, group, limit, force, play>> /\ pc = "configure" /\ pc' = "restart"
    BY <1>2 DEF Configure, Goto, operatorVars, certVars
  <2>2. First' = First /\ EtcdHosts' = EtcdHosts /\ Master' = Master
    BY <2>1 DEF First, EtcdHosts, Master
  <2>3. play = "etcd" /\ Complete /\ EtcdPlay
    BY <2>1 DEF FilesInv, Tasks
  <2>4. ASSUME NEW h \in limit \cap EtcdHosts PROVE Trusted(h)'
    <3>1. InStep(h) /\ Master.ca # 0
      BY <2>1, <2>3, <2>4 DEF EtcdPlay, Complete
    <3>2. dir[h].member[h].by # 0
      BY <1>2, <2>4 DEF Accepted
    <3> QED
      BY <2>1, <2>2, <3>1, <3>2 DEF InStep, Trusted
  <2>5. Complete'
    BY <2>1, <2>2, <2>3 DEF Complete, Whole
  <2> QED
    BY <2>1, <2>2, <2>3, <2>4, <2>5 DEF FilesInv, EtcdPlay, Tasks
<1> QED
  BY <1>1, <1>2

LEMMA FilesRestarted == ASSUME TypeOK, FilesInv, RestartIfChanged PROVE FilesInv'
<1>1. UNCHANGED <<dir, group, limit, force, play>> /\ pc = "restart" /\ pc' = "end"
  BY DEF RestartIfChanged, Goto, operatorVars, certVars
<1>2. First' = First /\ EtcdHosts' = EtcdHosts /\ Master' = Master
  BY <1>1 DEF First, EtcdHosts, Master
<1>3. play = "etcd" /\ Complete /\ EtcdPlay
  BY <1>1 DEF FilesInv, Tasks
<1>4. Complete' /\ \A h : Trusted(h)' <=> Trusted(h)
  BY <1>1, <1>2, <1>3 DEF Complete, Whole, Trusted
<1> QED
  BY <1>1, <1>2, <1>3, <1>4 DEF FilesInv, EtcdPlay, Tasks

LEMMA FilesPlayEnds ==
  ASSUME TypeOK, KeyInv, Numbers, FilesInv, EndPlay
  PROVE  FilesInv' /\ DoneMeansTrusted'
<1>1. UNCHANGED <<dir, group, limit, force, made>> /\ pc = "end"
  BY DEF EndPlay, operatorVars, certVars
<1>2. First' = First /\ EtcdHosts' = EtcdHosts /\ Master' = Master
  BY <1>1 DEF First, EtcdHosts, Master
<1>3. Complete /\ First \in EtcdHosts /\ EtcdHosts \subseteq Hosts /\ Master = dir[First]
  BY <1>1, FirstType DEF FilesInv, Tasks, Master
<1>4. \A h \in limit \cap EtcdHosts : Trusted(h)
  BY <1>1 DEF FilesInv, EtcdPlay, Tasks, TypeOK
<1>5. CASE pc' = "check"
  <2>1. play' = "k8s"
    BY <1>5 DEF EndPlay
  <2>2. \A h : Trusted(h)' <=> Trusted(h)
    BY <1>1, <1>2 DEF Trusted
  <2> QED
    BY <1>1, <1>2, <1>4, <1>5, <2>1, <2>2 DEF FilesInv, Tasks, DoneMeansTrusted
<1>6. CASE pc' = "done"
  <2>1. FilesInv'
    BY <1>6, FilesRest DEF Tasks
  <2>2. ASSUME NEW h \in limit \cap EtcdHosts PROVE Holds(h, dir[h].member[h], Master.ca)
    <3>1. Trusted(h)
      BY <1>4, <2>2
    <3>2. h \in Hosts /\ dir[h].ca = 1 /\ dir[h].member[h].by = 1 /\ Master.ca = 1
      BY <1>3, <2>2, <3>1, OneAuthority DEF Trusted
    <3> QED
      BY <3>2 DEF Holds
  <2>3. ASSUME NEW n \in limit \cap (Nodes \ EtcdHosts)
        PROVE  \/ Holds(n, dir[n].node[n], Master.ca)
               \/ ~force /\ \E no \in 1 .. made : Master.node[n] = Torn(no)
    <3>1. play = "k8s"
      BY <1>6, <2>3 DEF EndPlay, TypeOK
    <3>2. CopiedNode(n)
      BY <1>1, <2>3, <3>1 DEF FilesInv
    <3>3. Master.ca = 1
      BY <1>3, OneAuthority DEF Complete
    <3>4. CASE Master.node[n].by # 0
      <4>1. Master.node[n].by = 1
        BY <1>3, <3>4, OneAuthority
      <4> QED
        BY <3>2, <3>3, <4>1 DEF Holds, CopiedNode
    <3>5. CASE Master.node[n].by = 0
      <4>1. Master.node[n] # Absent /\ ~force
        BY <1>3, <3>5 DEF Complete, Whole
      <4>2. Master.node[n] \in Pair /\ Master.node[n].no <= made
        BY <1>3 DEF Numbers, Numbered, TypeOK, Directory
      <4>3. Master.node[n] = Torn(Master.node[n].no)
        BY <3>5, <4>2 DEF Pair, Torn
      <4>4. Master.node[n].no # 0
        BY <4>1, <4>3 DEF Absent, Torn
      <4>5. Master.node[n].no \in 1 .. made
        <5>1. Master.node[n].no \in Nat /\ made \in Nat
          BY <4>2 DEF Pair, TypeOK
        <5> QED
          BY <4>2, <4>4, <5>1
      <4> QED
        BY <4>1, <4>3, <4>5
    <3> QED
      BY <3>4, <3>5
  <2>4. DoneMeansTrusted'
    BY <1>1, <1>2, <2>2, <2>3 DEF DoneMeansTrusted, Holds
  <2> QED
    BY <2>1, <2>4
<1> QED
  BY <1>5, <1>6 DEF EndPlay

LEMMA CutOffCuts == ASSUME CutOff PROVE Cut
<1>1. Interrupt => Cut
  BY DEF Interrupt
<1>2. \A k, M, N, H : GenerateCut(k, M, N, H) => Cut
  BY DEF GenerateCut
<1>3. \A point : SyncMembersCut(point) => Cut
  BY DEF SyncMembersCut, CutCopy
<1>4. \A whole, half : SyncNodesCut(whole, half) => Cut
  BY DEF SyncNodesCut, CutCopy
<1>5. \A unpacked, half : CopyToNodesCut(unpacked, half) => Cut
  BY DEF CopyToNodesCut, CutCopy
<1> QED
  BY <1>1, <1>2, <1>3, <1>4, <1>5 DEF CutOff

LEMMA TrustKept ==
  ASSUME TypeOK, KeyInv, TrustInv, TypeOK', KeyInv', [Next]_vars
  PROVE  TrustInv'
<1>1. Numbers'
  BY NumbersKept DEF TrustInv
<1>2. Numbers /\ FilesInv /\ DoneMeansTrusted
  BY DEF TrustInv
<1>3. CASE Operate
  <2>1. pc' = "check" \/ pc' = "idle"
    BY <1>3 DEF Operate, AddHost, MoveFirst, RemoveHost, RecoverHost, Lose, StartRun
  <2>2. pc' = "idle" => FilesInv'
    BY FilesRest DEF Tasks
  <2>3. pc' = "check" => FilesInv'
    BY <1>3, FilesStart DEF Operate, AddHost, MoveFirst, RemoveHost, RecoverHost, Lose
  <2> QED
    BY <1>1, <2>1, <2>2, <2>3 DEF TrustInv, DoneMeansTrusted
<1>4. CASE EndPlay
  BY <1>1, <1>2, <1>4, FilesPlayEnds DEF TrustInv
<1>5. CASE CheckCerts \/ Generate \/ GenerateSkipped \/ SyncMembers \/ SyncNodes \/ CopyToNodes
           \/ Configure \/ RestartIfChanged
  <2>1. FilesInv'
    BY <1>1, <1>2, <1>5, FilesChecked, FilesGenerated, FilesNotGenerated, FilesMembers, FilesNodes, FilesTar,
       FilesConfigured, FilesRestarted
  <2>2. pc' # "done"
    BY <1>5 DEF CheckCerts, Generate, GenerateSkipped, SyncMembers, SyncNodes, CopyToNodes, Copy,
       Configure, RestartIfChanged, Goto
  <2> QED
    BY <1>1, <2>1, <2>2 DEF TrustInv, DoneMeansTrusted
<1>6. CASE TaskFails \/ CutOff
  <2>1. pc' \in {"failed", "cut"}
    BY <1>6, CutOffCuts DEF TaskFails, Goto, Cut
  <2> QED
    BY <1>1, <2>1, FilesRest DEF TrustInv, DoneMeansTrusted, Tasks
<1>7. CASE UNCHANGED vars
  <2>1. UNCHANGED <<dir, group, limit, force, play, pc, made, sync>>
    BY <1>7 DEF vars, operatorVars, factVars, certVars
  <2>2. First' = First /\ EtcdHosts' = EtcdHosts /\ Master' = Master
    BY <2>1 DEF First, EtcdHosts, Master
  <2>3. FilesInv'
    BY <1>2, <2>1, <2>2 DEF FilesInv, EtcdPlay, Complete, Whole, InStep, Trusted, CopiedNode, MembersToMake
  <2>4. DoneMeansTrusted'
    BY <1>2, <2>1, <2>2 DEF DoneMeansTrusted, Holds
  <2> QED
    BY <1>1, <2>3, <2>4 DEF TrustInv
<1> QED
  BY <1>3, <1>4, <1>5, <1>6, <1>7 DEF Next, Play

LEMMA TrustStarts == Init => TrustInv
<1> SUFFICES ASSUME Init PROVE TrustInv
  OBVIOUS
<1>1. Numbers
  <2>1. cas = 0 /\ made = 0 /\ \A h \in Hosts : dir[h] = NoDirectory
    BY DEF Init
  <2>2. Numbered(NoDirectory, 0, 0)
    BY DEF Numbered, NoDirectory, Absent
  <2> QED
    BY <2>1, <2>2 DEF Numbers
<1>2. pc = "idle"
  BY DEF Init
<1> QED
  BY <1>1, <1>2 DEF TrustInv, FilesInv, DoneMeansTrusted, Tasks

LEMMA TrustStands == Spec => [](TypeOK /\ KeyInv /\ TrustInv)
<1>1. Init => TypeOK /\ KeyInv /\ TrustInv
  BY InitType, InitKeys, TrustStarts
<1>2. TypeOK /\ KeyInv /\ TrustInv /\ [Next]_vars => (TypeOK /\ KeyInv /\ TrustInv)'
  BY NextKeys, TrustKept
<1> QED
  BY <1>1, <1>2, PTL DEF Spec

(* A run that meets no error leaves its hosts with pairs of the one        *)
(* authority (check_certs.yml:108, gen_certs_script.yml:64), whatever      *)
(* directories earlier runs that were cut off, and hosts that were lost,   *)
(* have left.                                                              *)
THEOREM DoneTrusted == Spec => []DoneMeansTrusted
<1>1. TrustInv => DoneMeansTrusted
  BY DEF TrustInv
<1> QED
  BY <1>1, TrustStands, PTL

-----------------------------------------------------------------------------
(* FailsOnlyForKey is about runs for which no server is left out: those of *)
(* cluster.yml on all etcd hosts there may be and those of scale.yml on    *)
(* none of them.  A host that is in k8s_cluster does not come to the etcd  *)
(* group later.                                                            *)

MayBeEtcd == Range(Founders) \cup (Hosts \ Nodes)
AllOrNoEtcd == \A l \in Limits : MayBeEtcd \subseteq l \/ l \cap MayBeEtcd = {}

GroupInv == \A j \in DOMAIN group : group[j] \in MayBeEtcd
LimitInv == pc \in Tasks => limit \in Limits
LaunchedInv == \A h \in Hosts : launched[h] # Stopped => launched[h].ca = 1
GoesInv == GroupInv /\ LimitInv /\ LaunchedInv

LEMMA GroupChanges ==
  ASSUME TypeOK, Operate, NEW j \in DOMAIN group'
  PROVE  group'[j] \in EtcdHosts \/ group'[j] \in Hosts \ Nodes
<1> USE FirstType
<1>1. group \in Seq(Hosts) /\ \A k \in 1 .. Len(group) : group[k] \in EtcdHosts /\ group[k] \in Hosts
  BY DEF TypeOK, EtcdHosts, Range
<1>2. ASSUME NEW h \in Hosts, AddHost(h) PROVE group'[j] \in EtcdHosts \/ group'[j] \in Hosts \ Nodes
  <2>1. group' = Append(group, h) /\ h \in Hosts \ Nodes
    BY <1>2 DEF AddHost
  <2>2. /\ group' \in Seq(Hosts) /\ Len(group') = Len(group) + 1 /\ group'[Len(group) + 1] = h
        /\ \A k \in 1 .. Len(group) : group'[k] = group[k]
    BY <1>1, <2>1, AppendIsSeq
  <2>3. j \in 1 .. Len(group) \/ j = Len(group) + 1
    BY <2>2
  <2> QED
    BY <1>1, <2>1, <2>2, <2>3
<1>3. ASSUME NEW i \in DOMAIN group, MoveFirst(i) PROVE group'[j] \in EtcdHosts
  <2>1. group' = [k \in 1 .. Len(group) |-> IF k = 1 THEN group[i] ELSE Without(i)[k - 1]]
    BY <1>3 DEF MoveFirst
  <2>2. Len(group) > 1 /\ j \in 1 .. Len(group)
    BY <1>3, <2>1 DEF MoveFirst
  <2>3. CASE j = 1
    BY <1>1, <2>1, <2>2, <2>3
  <2>4. CASE j # 1
    <3>1. j - 1 \in 1 .. Len(group) - 1
      BY <2>2, <2>4
    <3>2. Without(i)[j - 1] \in EtcdHosts
      BY <2>2, <3>1, WithoutType
    <3> QED
      BY <2>1, <2>2, <2>4, <3>2
  <2> QED
    BY <2>3, <2>4
<1>4. ASSUME NEW i \in DOMAIN group, RemoveHost(i) PROVE group'[j] \in EtcdHosts
  <2>1. group' = Without(i) /\ Len(group) > 1
    BY <1>4 DEF RemoveHost, Lose
  <2>2. /\ Without(i) \in Seq(Hosts) /\ Len(Without(i)) = Len(group) - 1
        /\ \A k \in 1 .. Len(group) - 1 : Without(i)[k] \in EtcdHosts
    BY <2>1, WithoutType
  <2> QED
    BY <2>1, <2>2
<1>5. ASSUME NEW i \in DOMAIN group, RecoverHost(i) PROVE group'[j] \in EtcdHosts
  <2> DEFINE rest == Without(i)
             last == group[i]
  <2>1. group' = Append(rest, last) /\ Len(group) > 1 /\ last \in Hosts /\ last \in EtcdHosts
    BY <1>1, <1>5 DEF RecoverHost, Lose
  <2>2. /\ rest \in Seq(Hosts) /\ Len(rest) = Len(group) - 1
        /\ \A k \in 1 .. Len(group) - 1 : rest[k] \in EtcdHosts
    BY <2>1, WithoutType
  <2> HIDE DEF rest, last
  <2>3. /\ group' \in Seq(Hosts) /\ Len(group') = Len(rest) + 1 /\ group'[Len(rest) + 1] = last
        /\ \A k \in 1 .. Len(rest) : group'[k] = rest[k]
    <3>1. /\ Append(rest, last) \in Seq(Hosts) /\ Len(Append(rest, last)) = Len(rest) + 1
          /\ Append(rest, last)[Len(rest) + 1] = last
          /\ \A k \in 1 .. Len(rest) : Append(rest, last)[k] = rest[k]
      BY ONLY <2>1, <2>2, AppendIsSeq
    <3> QED
      BY ONLY <2>1, <3>1
  <2>4. j \in 1 .. Len(group) - 1 \/ j = Len(group)
    BY <2>2, <2>3
  <2> QED
    BY <2>1, <2>2, <2>3, <2>4
<1>6. ASSUME NEW l \in Limits, StartRun(l) PROVE group'[j] \in EtcdHosts
  BY <1>1, <1>6 DEF StartRun
<1> QED
  BY <1>2, <1>3, <1>4, <1>5, <1>6 DEF Operate

LEMMA GroupKept == ASSUME TypeOK, TypeOK', GroupInv, [Next]_vars PROVE GroupInv' /\ EtcdHosts \subseteq MayBeEtcd
<1>1. EtcdHosts \subseteq MayBeEtcd
  BY DEF GroupInv, EtcdHosts, Range
<1>2. CASE Operate
  BY <1>1, <1>2, GroupChanges DEF GroupInv, MayBeEtcd
<1>3. CASE ~Operate
  <2>1. Cut => group' = group
    BY DEF Cut
  <2>2. Play \/ UNCHANGED vars => group' = group
    BY DEF Play, vars, operatorVars, CheckCerts, Generate, GenerateSkipped, SyncMembers, SyncNodes, CopyToNodes,
       Copy, TaskFails, Configure, RestartIfChanged, EndPlay, Goto
  <2>3. group' = group
    BY <1>3, <2>1, <2>2, CutOffCuts DEF Next
  <2> QED
    BY <1>1, <2>3 DEF GroupInv
<1> QED
  BY <1>1, <1>2, <1>3

LEMMA LimitKept == ASSUME LimitInv, [Next]_vars PROVE LimitInv'
<1>1. CASE Operate
  BY <1>1 DEF Operate, AddHost, MoveFirst, RemoveHost, RecoverHost, Lose, StartRun, LimitInv, Tasks
<1>2. CASE Play
  <2>1. limit' = limit /\ pc \in Tasks
    BY <1>2 DEF Play, CheckCerts, Generate, GenerateSkipped, SyncMembers, SyncNodes, CopyToNodes, Copy,
       TaskFails, Blocked, Configure, RestartIfChanged, EndPlay, Goto, operatorVars, Tasks
  <2> QED
    BY <2>1 DEF LimitInv
<1>3. CASE CutOff
  BY <1>3, CutOffCuts DEF Cut, LimitInv, Tasks
<1>4. CASE UNCHANGED vars
  BY <1>4 DEF LimitInv, vars, operatorVars
<1> QED
  BY <1>1, <1>2, <1>3, <1>4 DEF Next

(* A play on some etcd hosts is one on all of them, and at its health      *)
(* check they all hold the files of the first host.                        *)
LEMMA AllInStep ==
  ASSUME TypeOK, KeyInv, FilesInv, GoesInv, AllOrNoEtcd, EtcdHosts \subseteq MayBeEtcd, pc = "configure"
  PROVE  Complete /\ \A h \in EtcdHosts : InStep(h)
<1>1. play = "etcd" /\ Complete /\ EtcdPlay /\ limit \in Limits
  BY DEF FilesInv, GoesInv, LimitInv, Tasks
<1>2. limit \cap EtcdHosts # {}
  BY <1>1 DEF KeyInv, PlayInv, PlayHosts, Tasks
<1>3. EtcdHosts \subseteq limit
  BY <1>1, <1>2 DEF AllOrNoEtcd
<1> QED
  BY <1>1, <1>3 DEF EtcdPlay

LEMMA StartedOne ==
  ASSUME TypeOK, KeyInv, Numbers, LaunchedInv, Complete, NEW g \in EtcdHosts, InStep(g)
  PROVE  Started[g].ca = 1 /\ Current(g).ca = 1
<1>1. First \in Hosts /\ g \in Hosts /\ Master = dir[First]
  BY FirstType DEF Master
<1>2. dir[g].ca = 1
  BY <1>1, OneAuthority DEF Complete, InStep
<1>3. Current(g).ca = 1
  BY <1>2 DEF Current
<1> QED
  BY <1>1, <1>3 DEF Started, LaunchedInv

LEMMA LaunchedKept ==
  ASSUME TypeOK, KeyInv, Numbers, FilesInv, GoesInv, AllOrNoEtcd, EtcdHosts \subseteq MayBeEtcd, [Next]_vars
  PROVE  LaunchedInv'
<1>1. LaunchedInv /\ EtcdHosts \subseteq Hosts
  BY FirstType DEF GoesInv
<1>2. CASE UNCHANGED launched
  BY <1>1, <1>2 DEF LaunchedInv
<1>3. CASE \E i \in DOMAIN group : RemoveHost(i) \/ RecoverHost(i)
  <2>1. \A h \in Hosts : launched'[h] = launched[h] \/ launched'[h] = Stopped
    BY <1>3 DEF RemoveHost, RecoverHost, Lose, TypeOK
  <2> QED
    BY <1>1, <2>1 DEF LaunchedInv
<1>4. CASE Configure
  <2>1. Complete /\ \A h \in EtcdHosts : InStep(h)
    BY <1>4, AllInStep DEF Configure
  <2>2. \A h \in EtcdHosts : Started[h].ca = 1
    BY <1>1, <2>1, StartedOne
  <2>3. \A h \in Hosts \ EtcdHosts : Started[h] = launched[h]
    BY DEF Started
  <2> QED
    BY <1>1, <1>4, <2>2, <2>3 DEF Configure, LaunchedInv
<1>5. CASE RestartIfChanged
  <2>1. pc = "restart" /\ play = "etcd" /\ EtcdPlay /\ limit \in Limits
    BY <1>5 DEF RestartIfChanged, FilesInv, GoesInv, LimitInv, Tasks
  <2>2. limit \cap EtcdHosts # {}
    BY <2>1 DEF KeyInv, PlayInv, PlayHosts, Tasks
  <2>3. EtcdHosts \subseteq limit
    BY <2>1, <2>2 DEF AllOrNoEtcd
  <2>4. ASSUME NEW h \in EtcdHosts PROVE Current(h).ca = 1
    <3>1. h \in Hosts /\ dir[h].ca # 0
      BY <1>1, <2>1, <2>3 DEF EtcdPlay, Trusted
    <3> QED
      BY <3>1, OneAuthority DEF Current
  <2>5. \A h \in Hosts : launched'[h] = IF h \in EtcdHosts \cap changed THEN Current(h) ELSE launched[h]
    BY <1>5 DEF RestartIfChanged
  <2> QED
    BY <1>1, <2>4, <2>5 DEF LaunchedInv
<1>6. CASE (\E h \in Hosts : AddHost(h)) \/ (\E i \in DOMAIN group : MoveFirst(i))
           \/ (\E l \in Limits : StartRun(l))
  BY <1>2, <1>6 DEF AddHost, MoveFirst, StartRun
<1>7. CASE \/ CheckCerts \/ Generate \/ GenerateSkipped \/ SyncMembers \/ SyncNodes \/ CopyToNodes
           \/ TaskFails \/ EndPlay
  BY <1>2, <1>7 DEF CheckCerts, Generate, GenerateSkipped, SyncMembers, SyncNodes, CopyToNodes, Copy,
     TaskFails, EndPlay
<1>8. CASE CutOff
  BY <1>2, <1>8, CutOffCuts DEF Cut
<1> QED
  BY <1>2, <1>3, <1>4, <1>5, <1>6, <1>7, <1>8 DEF Next, Operate, Play, vars

(* What is not missing but not a whole pair is half of one.                *)
LEMMA TornIs ==
  ASSUME TypeOK, KeyInv, Numbers, Complete, NEW h \in EtcdHosts, Master.member[h].by # 1
  PROVE  ~force /\ \E no \in 1 .. made : Master.member[h] = Torn(no)
<1>1. h \in Hosts /\ First \in Hosts /\ Master = dir[First]
  BY FirstType DEF Master
<1>2. Master.member[h].by = 0
  BY <1>1, OneAuthority
<1>3. Master.member[h] # Absent /\ ~force
  BY <1>2 DEF Complete, Whole
<1>4. Master.member[h] \in Pair /\ Master.member[h].no <= made
  <2>1. dir[First] \in Directory /\ Numbered(dir[First], cas, made)
    BY <1>1 DEF Numbers, TypeOK
  <2> QED
    BY <1>1, <2>1 DEF Numbered, Directory
<1>5. Master.member[h] = Torn(Master.member[h].no)
  BY <1>2, <1>4 DEF Pair, Torn
<1>6. Master.member[h].no # 0
  BY <1>3, <1>5 DEF Absent, Torn
<1>7. Master.member[h].no \in Nat /\ made \in Nat
  BY <1>4 DEF Pair, TypeOK
<1>8. Master.member[h].no \in 1 .. made
  BY <1>4, <1>6, <1>7
<1> QED
  BY <1>3, <1>5, <1>8

LEMMA TaskFailsWhy ==
  ASSUME TypeOK, KeyInv, FilesInv, TaskFails
  PROVE  Master.key # Master.ca \/ First \notin scripts
<1>1. Blocked /\ pc \in Tasks
  BY DEF TaskFails, Blocked, Tasks
<1>2. CASE pc = "generate"
  BY <1>1, <1>2 DEF Blocked, HasScript, CanSign
<1>3. CASE pc \in {"members", "nodes", "tar"}
  <2>1. Master.ca # 0 /\ \A g \in EtcdHosts : Master.member[g] # Absent
    BY <1>3 DEF FilesInv, Tasks, Complete, Whole
  <2>2. \A n \in Nodes : Master.node[n] # Absent
    BY <1>3 DEF FilesInv, Tasks, Complete, Whole
  <2>3. ~(pc = "nodes" \/ pc = "tar")
    BY <1>1, <2>1, <2>2 DEF Blocked, HasNodes, TarTargets
  <2>4. Master.key = 0
    BY <1>1, <1>3, <2>1, <2>3 DEF Blocked, HasMembers
  <2> QED
    BY <2>1, <2>4
<1> QED
  BY <1>1, <1>2, <1>3 DEF Blocked

LEMMA FailsKept ==
  ASSUME TypeOK, KeyInv, Numbers, FilesInv, GoesInv, AllOrNoEtcd, EtcdHosts \subseteq MayBeEtcd,
         FailsOnlyForKey, [Next]_vars
  PROVE  FailsOnlyForKey'
<1>1. CASE TaskFails
  <2>1. UNCHANGED <<dir, group, scripts>>
    BY <1>1 DEF TaskFails, Goto, operatorVars, certVars
  <2>2. First' = First /\ Master' = Master
    BY <2>1 DEF First, Master
  <2> QED
    BY <1>1, <2>1, <2>2, TaskFailsWhy DEF FailsOnlyForKey
<1>2. CASE Configure /\ ~Accepted
  <2>1. UNCHANGED <<dir, group, force, made>>
    BY <1>2 DEF Configure, Goto, operatorVars, certVars
  <2>2. First' = First /\ Master' = Master /\ EtcdHosts' = EtcdHosts
    BY <2>1 DEF First, Master, EtcdHosts
  <2>3. Complete /\ \A h \in EtcdHosts : InStep(h)
    BY <1>2, AllInStep DEF Configure
  <2>4. \A g \in EtcdHosts : Started[g].ca = 1
    BY <2>3, StartedOne DEF GoesInv
  <2>5. PICK h \in EtcdHosts : dir[h].member[h].by # 1
    BY <1>2, <2>4 DEF Accepted
  <2>6. Master.member[h].by # 1
    BY <2>3, <2>5 DEF InStep
  <2>7. ~force /\ \E no \in 1 .. made : Master.member[h] = Torn(no)
    BY <2>3, <2>6, TornIs
  <2> QED
    BY <2>1, <2>2, <2>7 DEF FailsOnlyForKey
<1>3. CASE UNCHANGED vars
  <2>1. UNCHANGED <<dir, group, force, made, scripts, pc>>
    BY <1>3 DEF vars, operatorVars, certVars
  <2>2. First' = First /\ Master' = Master /\ EtcdHosts' = EtcdHosts
    BY <2>1 DEF First, Master, EtcdHosts
  <2> QED
    BY <2>1, <2>2 DEF FailsOnlyForKey
<1>4. CASE Operate
  BY <1>4 DEF Operate, AddHost, MoveFirst, RemoveHost, RecoverHost, Lose, StartRun, FailsOnlyForKey
<1>5. CASE \/ CheckCerts \/ Generate \/ GenerateSkipped \/ SyncMembers \/ SyncNodes \/ CopyToNodes
           \/ RestartIfChanged \/ EndPlay \/ (Configure /\ Accepted)
  BY <1>5 DEF CheckCerts, Generate, GenerateSkipped, SyncMembers, SyncNodes, CopyToNodes, Copy,
     RestartIfChanged, EndPlay, Configure, Goto, FailsOnlyForKey
<1>6. CASE CutOff
  BY <1>6, CutOffCuts DEF Cut, FailsOnlyForKey
<1> QED
  BY <1>1, <1>2, <1>3, <1>4, <1>5, <1>6 DEF Next, Play

LEMMA GoesStart == Init => GoesInv /\ FailsOnlyForKey
<1> SUFFICES ASSUME Init PROVE GoesInv /\ FailsOnlyForKey
  OBVIOUS
<1>1. GroupInv
  BY DEF Init, GroupInv, MayBeEtcd, Range
<1>2. LimitInv /\ LaunchedInv /\ FailsOnlyForKey
  BY DEF Init, LimitInv, LaunchedInv, FailsOnlyForKey, Tasks
<1> QED
  BY <1>1, <1>2 DEF GoesInv

(* When all etcd hosts or none take part in every run, a run comes to an   *)
(* error only if an earlier one was cut off between the files of the       *)
(* authority or within those of a pair (gen_certs_script.yml:43), or the   *)
(* first host has lost the script or never had it: whatever else is        *)
(* missing, check_certs.yml sees and the tasks behind it bring.            *)
THEOREM GoesThrough == AllOrNoEtcd => (Spec => []FailsOnlyForKey)
<1> SUFFICES ASSUME AllOrNoEtcd PROVE Spec => []FailsOnlyForKey
  OBVIOUS
<1>1. Init => TypeOK /\ KeyInv /\ TrustInv /\ GoesInv /\ FailsOnlyForKey
  BY InitType, InitKeys, TrustStarts, GoesStart
<1>2. TypeOK /\ KeyInv /\ TrustInv /\ GoesInv /\ FailsOnlyForKey /\ [Next]_vars
        => (TypeOK /\ KeyInv /\ TrustInv /\ GoesInv /\ FailsOnlyForKey)'
  <2> SUFFICES ASSUME TypeOK, KeyInv, TrustInv, GoesInv, FailsOnlyForKey, [Next]_vars
               PROVE  (TypeOK /\ KeyInv /\ TrustInv /\ GoesInv /\ FailsOnlyForKey)'
    OBVIOUS
  <2>1. TypeOK' /\ KeyInv' /\ TrustInv'
    BY NextKeys, TrustKept
  <2>2. GroupInv' /\ EtcdHosts \subseteq MayBeEtcd /\ LimitInv'
    BY <2>1, GroupKept, LimitKept DEF GoesInv
  <2>3. LaunchedInv' /\ FailsOnlyForKey'
    BY <2>2, LaunchedKept, FailsKept DEF TrustInv
  <2> QED
    BY <2>1, <2>2, <2>3 DEF GoesInv
<1> QED
  BY <1>1, <1>2, PTL DEF Spec
=============================================================================
