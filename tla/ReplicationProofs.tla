------------------------- MODULE ReplicationProofs -------------------------
(***************************************************************************)
(* Proofs about modules Planner and Replication: epochs have one leader    *)
(* and identify histories, for any number of nodes, copies and faults.     *)
(***************************************************************************)
EXTENDS Replication, SequenceTheorems, FiniteSetTheorems, TLAPS

----------------------------------------------------------------------------
(* The inductive invariant.                                                *)

Part == [epoch : Nat, leader : Node \cup {NoNode}, followers : SUBSET Node, joining : SUBSET Node,
         evict : SUBSET Node, handoffTo : Node \cup {NoNode}, handoffVersion : Nat]

Lay == [version : Nat, members : [Node -> Nat], part : Part]

\* A node has one role, and only members have one.
Placement(l) ==
  /\ l.part.leader \notin l.part.followers \cup l.part.joining
  /\ l.part.followers \cap l.part.joining = {}
  /\ \A n \in Holders(l.part) : l.members[n] # 0

Report == [ok : BOOLEAN, version : Nat, role : {"none", "follower", "leader"}, epoch : Nat,
           dataEpoch : Nat, seq : Nat, synced : BOOLEAN, sealed : BOOLEAN]

Entry == Epoch \X {"write", "checkpoint"}

Types ==
  /\ layout \in Lay /\ pending \in [Node -> Seq(Lay)] /\ view \in [Node -> Lay]
  /\ inc \in [Node -> Nat] /\ lease \in [Node -> Nat] /\ drained \subseteq Node
  /\ round \in [open : BOOLEAN, nodes : [Node -> Nat], drained : SUBSET Node,
                status : [Node -> Report]]

\* Layout b may come after a: epochs grow, and within an epoch the leader is
\* the same incarnation of the same node, or gone.
Precedes(a, b) ==
  /\ a.part.epoch <= b.part.epoch
  /\ a.part.epoch = b.part.epoch /\ b.part.leader # NoNode =>
       a.part.leader = b.part.leader /\ a.members[b.part.leader] = b.members[b.part.leader]

SameLeader(a, b) ==
  a.part.epoch = b.part.epoch /\ a.part.leader # NoNode /\ b.part.leader # NoNode =>
    a.part.leader = b.part.leader

\* The layouts that somebody has or will get.
Known == {layout} \cup {view[n] : n \in Node}
           \cup UNION {{pending[n][i] : i \in 1..Len(pending[n])} : n \in Node}

Order ==
  /\ layout.version \in 2..MaxVersion /\ layout.part.epoch \in Epoch /\ Placement(layout)
  /\ \A a \in Known : Precedes(a, layout) /\ \A n \in Node : a.members[n] <= inc[n]
  /\ \A a, b \in Known : SameLeader(a, b)
  /\ \A n \in Node :
       /\ inc[n] # 0 /\ lease[n] <= inc[n] /\ round.nodes[n] <= inc[n]
       /\ \A i \in 1..Len(pending[n]) :
            /\ pending[n][i].part.epoch # 0
            /\ Precedes(view[n], pending[n][i])
            /\ \A j \in i..Len(pending[n]) : Precedes(pending[n][i], pending[n][j])

\* A node leads exactly while the layout it applied last says so of its
\* present incarnation.
Leads(n) == view[n].part.leader = n /\ view[n].members[n] = inc[n]

Leaders ==
  \A n \in Node : /\ rep[n].role = "leader" <=> Leads(n)
                  /\ rep[n].role = "leader" => /\ rep[n].epoch = view[n].part.epoch
                                               /\ rep[n].epoch \in Epoch

Calls ==
  \A n \in Node :
    LET c == call[n]
    IN /\ Len(rep[n].hist) <= MaxSeq
       /\ c.stage # "none" => rep[n].role = "follower" /\ c.epoch \in Epoch /\ c.to \in Node
       /\ c.stage \in {"checked", "entries"} => c.after = Len(rep[n].hist)
       /\ c.stage = "checked" => c.after <= Len(lineage[c.epoch])
       /\ c.stage = "entries" => c.after + Len(c.data) <= MaxSeq
       /\ c.stage = "snapshot" => Len(c.data) <= MaxSeq

\* What a leader has is what was logged in its epoch; the epoch of a layout
\* that its leader has yet to apply is empty.
Lineage ==
  /\ lineage \in [Epoch -> Seq(Entry)]
  /\ \A n \in Node : rep[n].role = "leader" =>
       rep[n].hist = lineage[rep[n].epoch] /\ rep[n].dataEpoch = rep[n].epoch
  /\ \A e \in Epoch : e > layout.part.epoch => lineage[e] = <<>>
  /\ \A n \in Node : \A a \in {layout} \cup {pending[n][i] : i \in 1..Len(pending[n])} :
       a.part.leader = n /\ a.members[n] = inc[n] /\ a.part.epoch \in Epoch
         /\ lineage[a.part.epoch] # <<>> =>
       rep[n].role = "leader" /\ rep[n].epoch = a.part.epoch

\* s is a beginning of t.
Begins(s, t) == Len(s) <= Len(t) /\ \A i \in 1..Len(s) : s[i] = t[i]

\* Replica r, its promotion and the answer to its request c agree with L, the
\* logs of the epochs.
Synced(r, L) == r.synced => r.dataEpoch \in Epoch /\ Begins(r.hist, L[r.dataEpoch])

Promoted(r, L) ==
  r.role = "leader" /\ r.prevEpoch >= 0 =>
    /\ r.prevEpoch \in Epoch
    /\ r.promotedSeq <= Len(r.hist) /\ r.promotedSeq <= Len(L[r.prevEpoch])
    /\ \A i \in 1..r.promotedSeq : r.hist[i] = L[r.prevEpoch][i]

Answer(r, c, L) ==
  /\ c.stage = "checked" => Begins(r.hist, L[c.epoch])
  /\ c.stage = "entries" => Begins(r.hist \o c.data, L[c.epoch])
  /\ c.stage = "snapshot" => Begins(c.data, L[c.epoch])

Histories ==
  \A n \in Node : /\ Synced(rep[n], lineage) /\ Promoted(rep[n], lineage)
                  /\ Answer(rep[n], call[n], lineage)

SafeHistories == PromptServe => Histories

----------------------------------------------------------------------------
(* The planner, step by step: every rule keeps a placement, and never      *)
(* replaces the leader of an epoch.                                        *)

Good(p, members) ==
  /\ p \in Part
  /\ p.leader \notin p.followers \cup p.joining
  /\ p.followers \cap p.joining = {}
  /\ \A n \in Holders(p) : members[n] # 0

SameOffice(p, q) == q.epoch = p.epoch /\ q.leader = p.leader

LEMMA HoldersAre ==
  ASSUME NEW p, NEW n
  PROVE  n \in Holders(p) <=> (n = p.leader /\ n # NoNode) \/ n \in p.followers \/ n \in p.joining
  BY DEF Holders

LEMMA leadGood ==
  ASSUME NEW M, NEW p, Good(p, M), NEW n \in Node, M[n] # 0
  PROVE  Good(lead(p, n), M) /\ lead(p, n).epoch = p.epoch + 1 /\ lead(p, n).leader = n
         /\ lead(p, n).followers = p.followers \ {n} /\ lead(p, n).joining = p.joining \ {n}
         /\ lead(p, n).handoffTo = NoNode /\ lead(p, n).evict = p.evict
<1> DEFINE k == [p EXCEPT !.leader = n, !.epoch = @ + 1, !.followers = @ \ {n}, !.joining = @ \ {n}]
           q == lead(p, n)
<1>0. /\ k \in Part /\ k.epoch = p.epoch + 1 /\ k.leader = n
      /\ k.followers = p.followers \ {n} /\ k.joining = p.joining \ {n} /\ k.evict = p.evict
  <2>1. p \in Part
    BY DEF Good
  <2>2. p.followers \ {n} \in SUBSET Node /\ p.joining \ {n} \in SUBSET Node /\ p.epoch + 1 \in Nat
    BY <2>1 DEF Part
  <2> QED
    BY <2>1, <2>2 DEF Part
<1> HIDE DEF k
<1>1. /\ q \in Part /\ q.epoch = p.epoch + 1 /\ q.leader = n /\ q.handoffTo = NoNode
      /\ q.followers = p.followers \ {n} /\ q.joining = p.joining \ {n} /\ q.evict = p.evict
  <2>1. q = [k EXCEPT !.handoffTo = NoNode, !.handoffVersion = 0]
    BY DEF lead, clearHandoff, k
  <2> HIDE DEF q
  <2> QED
    BY <1>0, <2>1 DEF Part
<1> HIDE DEF q
<1>2. Good(q, M)
  BY <1>1 DEF Good, Holders
<1> QED
  BY <1>1, <1>2 DEF q

LEMMA clearHandoffGood ==
  ASSUME NEW M, NEW p, Good(p, M)
  PROVE  Good(clearHandoff(p), M) /\ SameOffice(p, clearHandoff(p))
  BY DEF Good, Part, clearHandoff, Holders, SameOffice

LEMMA membershipGood ==
  ASSUME NEW l \in Lay, Placement(l), NEW in, in.nodes \in [Node -> Nat]
  PROVE  LET m == membership(l, in)
         IN /\ m \in Lay /\ m.version = l.version /\ m.members = in.nodes
            /\ Good(m.part, m.members) /\ m.part.epoch = l.part.epoch
            /\ m.part.leader # NoNode => /\ m.part.leader = l.part.leader
                                         /\ in.nodes[m.part.leader] = l.members[m.part.leader]
<1> DEFINE gone == {n \in Node : l.members[n] # 0 /\ in.nodes[n] # l.members[n]}
           p == l.part
           q == [p EXCEPT !.leader = IF @ \in gone THEN NoNode ELSE @,
                          !.followers = @ \ gone, !.joining = @ \ gone, !.evict = @ \ gone]
           r == removeNodes(p, gone)
           m == membership(l, in)
<1>1. p \in Part /\ l.members \in [Node -> Nat]
  BY DEF Lay
<1>2. m = [l EXCEPT !.members = in.nodes, !.part = r]
  BY DEF membership
<1>3. /\ q \in Part /\ q.epoch = p.epoch /\ q.leader = IF p.leader \in gone THEN NoNode ELSE p.leader
      /\ q.followers = p.followers \ gone /\ q.joining = p.joining \ gone
  BY <1>1 DEF Part
<1>4. /\ r \in Part /\ r.epoch = q.epoch /\ r.leader = q.leader
      /\ r.followers = q.followers /\ r.joining = q.joining
  <2> HIDE DEF q
  <2>1. r = q \/ r = clearHandoff(q)
    BY DEF removeNodes, q
  <2>2. /\ clearHandoff(q) \in Part /\ clearHandoff(q).epoch = q.epoch
        /\ clearHandoff(q).leader = q.leader /\ clearHandoff(q).followers = q.followers
        /\ clearHandoff(q).joining = q.joining
    BY <1>3 DEF clearHandoff, Part
  <2> HIDE DEF r
  <2> QED
    BY <1>3, <2>1, <2>2
<1> HIDE DEF q, r
<1>5. m \in Lay /\ m.version = l.version /\ m.members = in.nodes /\ m.part = r
  BY <1>2, <1>4 DEF Lay
<1>6. \A n \in Holders(r) : n \in Holders(p) /\ n \in Node /\ n \notin gone
  BY <1>1, <1>3, <1>4 DEF Holders, Part
<1>7. \A n \in Holders(r) : in.nodes[n] = l.members[n] /\ in.nodes[n] # 0
  BY <1>6 DEF Placement
<1>8. Good(r, in.nodes)
  BY <1>1, <1>3, <1>4, <1>7, NodeAssumption DEF Good, Placement, Part
<1>9. r.leader # NoNode => r.leader = p.leader /\ r.leader \in Holders(r)
  BY <1>3, <1>4, HoldersAre
<1> HIDE DEF m
<1> QED
  BY <1>3, <1>4, <1>5, <1>7, <1>8, <1>9 DEF m

LEMMA failoverGood ==
  ASSUME NEW M, NEW p, Good(p, M), NEW in, NEW elig \in SUBSET Node, \A n \in elig : M[n] # 0,
         NEW q \in failover(p, elig, in)
  PROVE  Good(q, M) /\ (q = p \/ (q.epoch = p.epoch + 1 /\ q.handoffTo = NoNode))
<1>1. CASE q = p
  BY <1>1
<1>2. CASE q # p
  <2>1. PICK n \in p.followers \cup p.joining \cup elig : q = lead(p, n)
    BY <1>2 DEF failover, mostUpToDate
  <2>2. n \in Node /\ M[n] # 0
    BY <2>1 DEF Good, Part, Holders
  <2> QED
    BY <2>1, <2>2, leadGood
<1> QED
  BY <1>1, <1>2

LEMMA promoteJoinersGood ==
  ASSUME NEW M, NEW p, Good(p, M), NEW in
  PROVE  /\ Good(promoteJoiners(p, in), M) /\ SameOffice(p, promoteJoiners(p, in))
         /\ promoteJoiners(p, in).handoffTo = p.handoffTo
<1> DEFINE q == promoteJoiners(p, in)
<1>1. CASE q = p
  BY <1>1 DEF SameOffice
<1>2. CASE q # p
  <2>1. PICK S \in SUBSET p.joining : q = [p EXCEPT !.joining = @ \ S, !.followers = @ \cup S]
    BY <1>2 DEF promoteJoiners
  <2> HIDE DEF q
  <2> QED
    BY <2>1 DEF Good, Part, Holders, SameOffice, q
<1> QED
  BY <1>1, <1>2

LEMMA progressHandoffGood ==
  ASSUME NEW M, NEW p, Good(p, M), NEW in
  PROVE  LET q == progressHandoff(p, in)
         IN /\ Good(q, M)
            /\ (SameOffice(p, q) \/ (q.epoch = p.epoch + 1 /\ p.handoffTo # NoNode))
<1> DEFINE q == progressHandoff(p, in)
<1>1. CASE q = p
  BY <1>1 DEF SameOffice
<1>2. CASE q = clearHandoff(p)
  BY <1>2, clearHandoffGood
<1>3. CASE q # p /\ q # clearHandoff(p)
  <2> DEFINE t == p.handoffTo
             k == lead(p, t)
  <2>1. t # NoNode /\ p.leader # NoNode /\ t \in p.followers
    BY <1>3 DEF progressHandoff
  <2>2. q = [k EXCEPT !.evict = @ \ {p.leader}] \/ q = [k EXCEPT !.joining = @ \cup {p.leader}]
    BY <1>3, <2>1 DEF progressHandoff
  <2>3. t \in Node /\ M[t] # 0 /\ p.leader \in Node /\ M[p.leader] # 0 /\ t # p.leader
    BY <2>1 DEF Good, Part, Holders
  <2>4. /\ Good(k, M) /\ k.epoch = p.epoch + 1 /\ k.leader = t
        /\ k.followers = p.followers \ {t} /\ k.joining = p.joining \ {t}
    BY <2>3, leadGood
  <2> HIDE DEF k, q
  <2>5. /\ q \in Part /\ q.epoch = k.epoch /\ q.leader = k.leader /\ q.followers = k.followers
        /\ (q.joining = k.joining \/ q.joining = k.joining \cup {p.leader})
    BY <2>2, <2>3, <2>4 DEF Good, Part
  <2>6. Good(q, M)
    BY <2>3, <2>4, <2>5 DEF Good, Holders
  <2> QED
    BY <2>1, <2>4, <2>5, <2>6 DEF q
<1> QED
  BY <1>1, <1>2, <1>3

LEMMA handoffEvictedGood ==
  ASSUME NEW M, NEW p, Good(p, M), NEW in, NEW elig, NEW v \in Nat,
         NEW q \in handoffEvictedLeader(p, elig, in, v)
  PROVE  Good(q, M) /\ SameOffice(p, q)
<1>1. CASE q = p
  BY <1>1 DEF SameOffice
<1>2. CASE q # p
  <2>1. PICK t \in p.followers : q = [p EXCEPT !.handoffTo = t, !.handoffVersion = v]
    BY <1>2 DEF handoffEvictedLeader, mostUpToDate, startHandoff
  <2> QED
    BY <2>1 DEF Good, Part, Holders, SameOffice
<1> QED
  BY <1>1, <1>2

LEMMA UpToSubset ==
  ASSUME NEW n, NEW S, NEW T \in UpTo(n, S)
  PROVE  T \subseteq S
  BY DEF UpTo, kSubset

LEMMA fixReplicaCountGood ==
  ASSUME NEW M, NEW p, Good(p, M), NEW in, NEW elig \in SUBSET Node, \A n \in elig : M[n] # 0,
         NEW q \in fixReplicaCount(p, elig, in)
  PROVE  Good(q, M) /\ SameOffice(p, q)
<1>1. CASE q = p
  BY <1>1 DEF SameOffice
<1>2. CASE q # p
  <2>0. PICK a \in AddReplicas(p, elig, in) :
          \E d \in DropReplicas(a, elig, in) : q = [d EXCEPT !.evict = @ \cap Holders(d)]
    BY <1>2 DEF fixReplicaCount
  <2>1. PICK d \in DropReplicas(a, elig, in) : q = [d EXCEPT !.evict = @ \cap Holders(d)]
    BY <2>0
  <2>2. PICK new \in SUBSET (elig \ Holders(p)) : a = [p EXCEPT !.joining = @ \cup new]
    BY <2>1, UpToSubset DEF AddReplicas
  <2>3. Good(a, M) /\ SameOffice(p, a)
    <3>1. /\ a \in Part /\ SameOffice(p, a) /\ a.followers = p.followers
          /\ a.joining = p.joining \cup new
      BY <2>2 DEF Good, Part, SameOffice
    <3>2. \A n \in new : n \in Node /\ n \notin Holders(p) /\ M[n] # 0 /\ n # NoNode
      BY <2>2, NodeAssumption
    <3> QED
      BY <3>1, <3>2 DEF Good, Holders, SameOffice
  <2>4. Good(d, M) /\ SameOffice(a, d)
    <3>1. CASE d = a
      BY <2>3, <3>1 DEF SameOffice
    <3>2. CASE d # a
      <4>1. PICK F \in SUBSET a.followers, J \in SUBSET a.joining :
              d = [a EXCEPT !.followers = F, !.joining = J]
        BY <2>1, <3>2 DEF DropReplicas
      <4> QED
        BY <2>3, <4>1 DEF Good, Part, Holders, SameOffice
    <3> QED
      BY <3>1, <3>2
  <2>5. Good(q, M) /\ SameOffice(d, q)
    BY <2>1, <2>4 DEF Good, Part, Holders, SameOffice
  <2> QED
    BY <2>3, <2>4, <2>5 DEF SameOffice
<1> QED
  BY <1>1, <1>2

\* What a whole round may make of a layout.
LEMMA planGood ==
  ASSUME NEW l \in Lay, Placement(l), NEW in, in.nodes \in [Node -> Nat], NEW k \in plan(l, in)
  PROVE  k \in Lay /\ Placement(k) /\ k.version = l.version /\ k.members = in.nodes /\ Precedes(l, k)
<1> DEFINE m == membership(l, in)
           M == m.members
           elig == Eligible(m, in)
<1>1. /\ m \in Lay /\ m.version = l.version /\ M = in.nodes
      /\ Good(m.part, M) /\ m.part.epoch = l.part.epoch
      /\ m.part.leader # NoNode => /\ m.part.leader = l.part.leader
                                   /\ in.nodes[m.part.leader] = l.members[m.part.leader]
  BY membershipGood
<1>2. elig \in SUBSET Node /\ \A n \in elig : M[n] # 0
  BY DEF Eligible
<1>3. PICK p1 \in failover(m.part, elig, in) :
        \E q \in handoffEvictedLeader(progressHandoff(promoteJoiners(p1, in), in), elig, in, l.version) :
          \E r \in fixReplicaCount(q, elig, in) : k = [m EXCEPT !.part = r]
  BY DEF plan
<1> DEFINE p2 == promoteJoiners(p1, in)
           p3 == progressHandoff(p2, in)
<1>4. PICK p4 \in handoffEvictedLeader(p3, elig, in, l.version) :
        \E r \in fixReplicaCount(p4, elig, in) : k = [m EXCEPT !.part = r]
  BY <1>3
<1>5. PICK p5 \in fixReplicaCount(p4, elig, in) : k = [m EXCEPT !.part = p5]
  BY <1>4
<1> HIDE DEF m, elig
<1>6. Good(p1, M) /\ (p1 = m.part \/ (p1.epoch = m.part.epoch + 1 /\ p1.handoffTo = NoNode))
  BY <1>1, <1>2, <1>3, failoverGood
<1>7. Good(p2, M) /\ SameOffice(p1, p2) /\ p2.handoffTo = p1.handoffTo
  BY <1>6, promoteJoinersGood
<1> HIDE DEF p2
<1>8. Good(p3, M) /\ (SameOffice(p2, p3) \/ p3.epoch = p2.epoch + 1)
  BY <1>7, progressHandoffGood
<1> HIDE DEF p3
<1>9. l.version \in Nat
  BY DEF Lay
<1>10. Good(p4, M) /\ SameOffice(p3, p4)
  BY <1>4, <1>8, <1>9, handoffEvictedGood
<1>11. Good(p5, M) /\ SameOffice(p4, p5)
  BY <1>2, <1>5, <1>10, fixReplicaCountGood
<1>12. k \in Lay /\ k.version = m.version /\ k.members = M /\ k.part = p5
  BY <1>1, <1>5, <1>11 DEF Lay, Good
<1>13. m.part.epoch \in Nat /\ p1.epoch \in Nat /\ p2.epoch \in Nat
  BY <1>1, <1>6, <1>7 DEF Good, Part
<1>14. p5.epoch >= m.part.epoch /\ (p5.epoch = m.part.epoch => p5.leader = m.part.leader)
  BY <1>6, <1>7, <1>8, <1>10, <1>11, <1>13 DEF SameOffice
<1>15. Precedes(l, k)
  BY <1>1, <1>12, <1>13, <1>14 DEF Precedes
<1>16. Placement(k)
  BY <1>11, <1>12 DEF Good, Placement
<1> QED
  BY <1>1, <1>12, <1>15, <1>16

----------------------------------------------------------------------------
(* Layouts: how the order among them is kept.                              *)

LEMMA KnownIs ==
  /\ \A a : a \in Known <=> \/ a = layout
                            \/ \E n \in Node : a = view[n]
                            \/ \E n \in Node : \E i \in 1..Len(pending[n]) : a = pending[n][i]
  /\ \A a : a \in Known' <=> \/ a = layout'
                             \/ \E n \in Node : a = view'[n]
                             \/ \E n \in Node : \E i \in 1..Len(pending'[n]) : a = pending'[n][i]
  BY DEF Known

LEMMA KnownLay ==
  ASSUME Types
  PROVE  \A a \in Known : a \in Lay
<1>1. \A n \in Node : \A i \in 1..Len(pending[n]) : pending[n][i] \in Lay
  BY DEF Types
<1>2. layout \in Lay /\ \A n \in Node : view[n] \in Lay
  BY DEF Types
<1> QED
  BY <1>1, <1>2, KnownIs

LEMMA PrecedesItself ==
  ASSUME NEW a \in Lay
  PROVE  Precedes(a, a)
  BY DEF Precedes, Lay, Part

LEMMA PrecedesAll ==
  ASSUME NEW a \in Lay, NEW b \in Lay, NEW c \in Lay, Precedes(a, b), Precedes(b, c)
  PROVE  Precedes(a, c)
<1>1. a.part.epoch \in Nat /\ b.part.epoch \in Nat /\ c.part.epoch \in Nat
  BY DEF Lay, Part
<1> QED
  BY <1>1 DEF Precedes

\* Whatever is known agrees with a layout that comes after the latest.
LEMMA SameLeaderNext ==
  ASSUME NEW a \in Lay, NEW b \in Lay, NEW c \in Lay,
         Precedes(a, b), SameLeader(a, b), Precedes(b, c)
  PROVE  SameLeader(a, c)
<1>1. a.part.epoch \in Nat /\ b.part.epoch \in Nat /\ c.part.epoch \in Nat
  BY DEF Lay, Part
<1> QED
  BY <1>1 DEF Precedes, SameLeader

LEMMA NoLayoutFirst ==
  /\ NoLayout \in Lay
  /\ \A a \in Lay : /\ SameLeader(NoLayout, a) /\ SameLeader(a, NoLayout)
                    /\ a.part.epoch # 0 => Precedes(NoLayout, a)
<1>1. NoLayout \in Lay /\ NoLayout.part.epoch = 0 /\ NoLayout.part.leader = NoNode
  BY DEF NoLayout, Lay, Part
<1>2. \A a \in Lay : a.part.epoch \in Nat
  BY DEF Lay, Part
<1> QED
  BY <1>1, <1>2 DEF SameLeader, Precedes

\* The three parts of Order that are about all layouts together.
OrderAll ==
  /\ layout.version \in 2..MaxVersion /\ layout.part.epoch \in Epoch /\ Placement(layout)
  /\ \A a \in Known : Precedes(a, layout) /\ \A n \in Node : a.members[n] <= inc[n]
  /\ \A a, b \in Known : SameLeader(a, b)

OrderOf(n) ==
  /\ inc[n] # 0 /\ lease[n] <= inc[n] /\ round.nodes[n] <= inc[n]
  /\ \A i \in 1..Len(pending[n]) :
       /\ pending[n][i].part.epoch # 0
       /\ Precedes(view[n], pending[n][i])
       /\ \A j \in i..Len(pending[n]) : Precedes(pending[n][i], pending[n][j])

LEMMA OrderIs ==
  /\ Order <=> OrderAll /\ \A n \in Node : OrderOf(n)
  /\ Order' <=> OrderAll' /\ \A n \in Node : OrderOf(n)'
<1>1. Order <=> OrderAll /\ \A n \in Node : OrderOf(n)
  BY DEF Order, OrderAll, OrderOf
<1>2. Order' <=> OrderAll' /\ \A n \in Node : OrderOf(n)'
  BY DEF Order, OrderAll, OrderOf
<1> QED
  BY <1>1, <1>2

\* Nothing is written: layouts are forgotten, and incarnations only grow.
LEMMA OrderForget ==
  ASSUME Types, OrderAll, layout' = layout, \A a \in Known' : a \in Known \/ a = NoLayout,
         inc' \in [Node -> Nat], \A n \in Node : inc[n] <= inc'[n]
  PROVE  OrderAll'
<1>1. \A a \in Known : a \in Lay
  BY KnownLay
<1>2. layout \in Lay /\ layout.part.epoch # 0
  BY DEF OrderAll, Epoch, Types
<1>3. Placement(layout)' /\ (layout.version \in 2..MaxVersion)' /\ (layout.part.epoch \in Epoch)'
  BY DEF OrderAll, Placement, Epoch
<1>4. ASSUME NEW a \in Known'
      PROVE  Precedes(a, layout') /\ \A n \in Node : a.members[n] <= inc'[n]
  <2>1. CASE a \in Known
    <3>1. \A n \in Node : a.members[n] \in Nat /\ inc[n] \in Nat /\ inc'[n] \in Nat
      BY <1>1, <2>1 DEF Lay, Types
    <3>2. \A n \in Node : a.members[n] <= inc[n]
      BY <2>1 DEF OrderAll
    <3>3. \A n \in Node : a.members[n] <= inc'[n]
      BY <3>1, <3>2
    <3> QED
      BY <2>1, <3>3 DEF OrderAll
  <2>2. CASE a = NoLayout
    <3>1. \A n \in Node : a.members[n] = 0
      BY <2>2 DEF NoLayout
    <3> QED
      BY <1>2, <2>2, <3>1, NoLayoutFirst
  <2> QED
    BY <2>1, <2>2
<1>5. ASSUME NEW a \in Known', NEW b \in Known'
      PROVE  SameLeader(a, b)
  <2>1. CASE a \in Known /\ b \in Known
    BY <2>1 DEF OrderAll
  <2>2. CASE a = NoLayout \/ b = NoLayout
    BY <1>1, <2>2, NoLayoutFirst
  <2> QED
    BY <2>1, <2>2
<1> QED
  BY <1>3, <1>4, <1>5 DEF OrderAll

\* A layout is written that comes after the latest.
LEMMA OrderPut ==
  ASSUME Types, Order, NEW k \in Lay, Precedes(layout, k), Placement(k),
         k.version \in 2..MaxVersion, k.part.epoch <= MaxEpoch,
         \A n \in Node : k.members[n] <= inc[n],
         layout' = k, pending' = [n \in Node |-> Append(pending[n], k)],
         \A n \in Node : round'.nodes[n] <= inc[n],
         UNCHANGED <<view, inc, lease>>
  PROVE  Order'
<1>1. \A a \in Known : a \in Lay
  BY KnownLay
<1>2. layout \in Lay /\ layout.part.epoch \in Epoch /\ layout \in Known
  BY KnownIs, OrderIs DEF OrderAll, Types
<1>3. \A n \in Node : pending[n] \in Seq(Lay)
  BY DEF Types
<1>4. \A n \in Node : /\ Len(pending'[n]) = Len(pending[n]) + 1
                      /\ pending'[n][Len(pending[n]) + 1] = k
                      /\ \A i \in 1..Len(pending[n]) : pending'[n][i] = pending[n][i]
  BY <1>3
<1>5. \A a \in Known' : a \in Known \/ a = k
  <2> SUFFICES ASSUME NEW a \in Known', a # k
               PROVE  a \in Known
    OBVIOUS
  <2>1. CASE \E n \in Node : a = view'[n]
    BY <2>1, KnownIs
  <2>2. CASE \E n \in Node : \E i \in 1..Len(pending'[n]) : a = pending'[n][i]
    <3>1. PICK n \in Node : \E i \in 1..Len(pending'[n]) : a = pending'[n][i]
      BY <2>2
    <3>2. PICK i \in 1..Len(pending'[n]) : a = pending'[n][i]
      BY <3>1
    <3>3. Len(pending[n]) \in Nat
      BY <1>3
    <3>4. i \in 1..Len(pending[n])
      BY <1>4, <3>2, <3>3
    <3>5. a = pending[n][i]
      BY <1>4, <3>2, <3>4
    <3> QED
      BY <3>4, <3>5, KnownIs
  <2> QED
    BY <2>1, <2>2, KnownIs
<1>6. \A a \in Known : Precedes(a, layout) /\ SameLeader(a, layout)
  BY <1>2, OrderIs DEF OrderAll
<1>7. \A a \in Known : Precedes(a, k) /\ SameLeader(a, k) /\ SameLeader(k, a)
  BY <1>1, <1>2, <1>6, PrecedesAll, SameLeaderNext DEF SameLeader
<1>8. Precedes(k, k) /\ SameLeader(k, k)
  BY PrecedesItself DEF SameLeader
<1>9. k.part.epoch \in Epoch
  BY <1>2, ReplicationBounds DEF Precedes, Epoch, Lay, Part
<1>10. OrderAll'
  <2>1. (layout.version \in 2..MaxVersion /\ layout.part.epoch \in Epoch /\ Placement(layout))'
    BY <1>9 DEF Epoch, Placement
  <2>2. \A a \in Known' : Precedes(a, layout') /\ \A n \in Node : a.members[n] <= inc'[n]
    BY <1>5, <1>7, <1>8, OrderIs DEF OrderAll
  <2>3. \A a, b \in Known' : SameLeader(a, b)
    BY <1>5, <1>7, <1>8, OrderIs DEF OrderAll
  <2> QED
    BY <2>1, <2>2, <2>3 DEF OrderAll
<1>11. ASSUME NEW n \in Node
       PROVE  OrderOf(n)'
  <2>1. OrderOf(n)
    BY OrderIs
  <2>2. ASSUME NEW i \in 1..Len(pending'[n])
        PROVE  /\ pending'[n][i].part.epoch # 0
               /\ Precedes(view[n], pending'[n][i])
               /\ \A j \in i..Len(pending'[n]) : Precedes(pending'[n][i], pending'[n][j])
    <3>1. Len(pending[n]) \in Nat /\ view[n] \in Known
      BY <1>3, KnownIs
    <3>2. CASE i = Len(pending[n]) + 1
      <4>1. \A j \in i..Len(pending'[n]) : j = i
        BY <1>4, <3>1, <3>2
      <4> QED
        BY <1>4, <1>7, <1>8, <1>9, <3>1, <3>2, <4>1 DEF Epoch
    <3>3. CASE i \in 1..Len(pending[n])
      <4>1. pending'[n][i] = pending[n][i] /\ pending[n][i] \in Known
        BY <1>4, <3>3, KnownIs
      <4>2. ASSUME NEW j \in i..Len(pending'[n])
            PROVE  Precedes(pending'[n][i], pending'[n][j])
        <5>1. CASE j = Len(pending[n]) + 1
          BY <1>4, <1>7, <4>1, <5>1
        <5>2. CASE j # Len(pending[n]) + 1
          <6>1. j \in 1..Len(pending[n]) /\ j \in i..Len(pending[n])
            BY <1>4, <3>1, <3>3, <5>2
          <6> QED
            BY <1>4, <2>1, <3>3, <4>1, <6>1 DEF OrderOf
        <5> QED
          BY <5>1, <5>2
      <4> QED
        BY <2>1, <3>3, <4>1, <4>2 DEF OrderOf
    <3> QED
      BY <1>4, <3>1, <3>2, <3>3
  <2> QED
    BY <2>1, <2>2 DEF OrderOf
<1> QED
  BY <1>10, <1>11, OrderIs

\* Layouts and incarnations stay as they are.
LEMMA OrderSteady ==
  ASSUME Order, UNCHANGED <<layout, pending, view, inc>>,
         \A n \in Node : lease'[n] <= inc[n] /\ round'.nodes[n] <= inc[n]
  PROVE  Order'
<1>1. Known' = Known
  BY DEF Known
<1>2. OrderAll'
  BY <1>1, OrderIs DEF OrderAll, Placement
<1>3. \A n \in Node : OrderOf(n)'
  BY OrderIs DEF OrderOf
<1> QED
  BY <1>2, <1>3, OrderIs

LEMMA OrderApply ==
  ASSUME Types, Order, NEW n \in Node, NEW i \in 1..Len(pending[n]), ApplyLayout(n, i)
  PROVE  Types' /\ Order'
<1> DEFINE rest == SubSeq(pending[n], i + 1, Len(pending[n]))
<1>1. pending[n] \in Seq(Lay) /\ Len(pending[n]) \in Nat /\ pending[n][i] \in Lay
  BY DEF Types
<1>2. /\ rest \in Seq(Lay) /\ Len(rest) = Len(pending[n]) - i
      /\ \A j \in 1..Len(rest) : rest[j] = pending[n][i + j]
  <2>1. i \in Nat /\ i + 1 >= 1 /\ i <= Len(pending[n])
    BY <1>1
  <2>2. rest \in Seq(Lay) /\ Len(rest) = Len(pending[n]) - i
    BY <1>1, <2>1
  <2>3. \A j \in 1..(Len(pending[n]) - i) : rest[j] = pending[n][i + j]
    BY <1>1, <2>1
  <2> QED
    BY <2>2, <2>3
<1>3. /\ view' = [view EXCEPT ![n] = pending[n][i]] /\ pending' = [pending EXCEPT ![n] = rest]
      /\ UNCHANGED <<layout, lease, drained, inc, round>>
  BY DEF ApplyLayout, etcd
<1> HIDE DEF rest
<1>4. Types'
  BY <1>1, <1>2, <1>3 DEF Types
<1>5. /\ \A m \in Node : m # n => view'[m] = view[m] /\ pending'[m] = pending[m]
      /\ view'[n] = pending[n][i] /\ pending'[n] = rest
  BY <1>3 DEF Types
<1>6. \A a \in Known' : a \in Known
  <2> SUFFICES ASSUME NEW a \in Known'
               PROVE  a \in Known
    OBVIOUS
  <2>1. CASE a = layout'
    BY <1>3, <2>1, KnownIs
  <2>2. CASE \E m \in Node : a = view'[m]
    BY <1>5, <2>2, KnownIs
  <2>3. ASSUME NEW m \in Node, NEW j \in 1..Len(pending'[m]), a = pending'[m][j]
        PROVE  a \in Known
    <3>1. CASE m = n
      <4>1. i + j \in 1..Len(pending[n])
        BY <1>1, <1>2, <1>5, <2>3, <3>1
      <4>2. a = pending[n][i + j]
        BY <1>2, <1>5, <2>3, <3>1
      <4> QED
        BY <4>1, <4>2, KnownIs
    <3>2. CASE m # n
      BY <1>5, <2>3, <3>2, KnownIs
    <3> QED
      BY <3>1, <3>2
  <2> QED
    BY <2>1, <2>2, <2>3, KnownIs
<1>7. OrderAll'
  <2>1. inc' \in [Node -> Nat] /\ \A m \in Node : inc[m] <= inc'[m]
    BY <1>3 DEF Types
  <2> QED
    BY <1>3, <1>6, <2>1, OrderForget, OrderIs
<1>8. ASSUME NEW m \in Node
      PROVE  OrderOf(m)'
  <2>1. OrderOf(m)
    BY OrderIs
  <2>2. CASE m # n
    BY <1>3, <1>5, <2>1, <2>2 DEF OrderOf
  <2>3. CASE m = n
    <3>1. ASSUME NEW j \in 1..Len(rest)
          PROVE  /\ rest[j].part.epoch # 0 /\ Precedes(pending[n][i], rest[j])
                 /\ \A g \in j..Len(rest) : Precedes(rest[j], rest[g])
      <4>1. i + j \in 1..Len(pending[n]) /\ i + j \in i..Len(pending[n]) /\ rest[j] = pending[n][i + j]
        BY <1>1, <1>2
      <4>2. \A g \in j..Len(rest) : i + g \in (i + j)..Len(pending[n]) /\ rest[g] = pending[n][i + g]
        BY <1>1, <1>2
      <4> QED
        BY <2>1, <2>3, <4>1, <4>2 DEF OrderOf
    <3> QED
      BY <1>3, <1>5, <2>1, <2>3, <3>1 DEF OrderOf
  <2> QED
    BY <2>2, <2>3
<1> QED
  BY <1>4, <1>7, <1>8, OrderIs

LEMMA OrderRestart ==
  ASSUME Types, Order, NEW n \in Node, LeaseLost(n) \/ Crash(n)
  PROVE  Types' /\ Order'
<1>1. /\ inc' = [inc EXCEPT ![n] = @ + 1] /\ UNCHANGED <<layout, lease, drained, round>>
      /\ \/ view' = view /\ pending' = pending
         \/ view' = [view EXCEPT ![n] = NoLayout] /\ pending' = [pending EXCEPT ![n] = <<layout>>]
  BY DEF LeaseLost, Crash, etcd
<1>2. /\ NoLayout \in Lay /\ layout \in Lay /\ <<layout>> \in Seq(Lay) /\ Len(<<layout>>) = 1
      /\ <<layout>>[1] = layout
  BY NoLayoutFirst DEF Types
<1>3. Types'
  <2>1. inc' \in [Node -> Nat]
    BY <1>1 DEF Types
  <2>2. view' \in [Node -> Lay] /\ pending' \in [Node -> Seq(Lay)]
    BY <1>1, <1>2 DEF Types
  <2> QED
    BY <1>1, <2>1, <2>2 DEF Types
<1>4. \A m \in Node : \/ view'[m] = view[m] /\ pending'[m] = pending[m]
                      \/ view'[m] = NoLayout /\ pending'[m] = <<layout>>
  BY <1>1 DEF Types
<1>5. \A a \in Known' : a \in Known \/ a = NoLayout
  <2> SUFFICES ASSUME NEW a \in Known'
               PROVE  a \in Known \/ a = NoLayout
    OBVIOUS
  <2>1. CASE a = layout'
    BY <1>1, <2>1, KnownIs
  <2>2. CASE \E m \in Node : a = view'[m]
    BY <1>4, <2>2, KnownIs
  <2>3. ASSUME NEW m \in Node, NEW j \in 1..Len(pending'[m]), a = pending'[m][j]
        PROVE  a \in Known
    <3>1. CASE pending'[m] = pending[m]
      BY <2>3, <3>1, KnownIs
    <3>2. CASE pending'[m] = <<layout>>
      <4>1. j = 1
        BY <1>2, <2>3, <3>2
      <4> QED
        BY <1>2, <2>3, <3>2, <4>1, KnownIs
    <3> QED
      BY <1>4, <3>1, <3>2
  <2> QED
    BY <2>1, <2>2, <2>3, KnownIs
<1>6. \A m \in Node : inc[m] \in Nat /\ inc'[m] \in Nat /\ inc[m] <= inc'[m]
  BY <1>1 DEF Types
<1>7. OrderAll'
  <2>1. inc' \in [Node -> Nat]
    BY <1>1 DEF Types
  <2> QED
    BY <1>1, <1>5, <1>6, <2>1, OrderForget, OrderIs
<1>8. ASSUME NEW m \in Node
      PROVE  OrderOf(m)'
  <2>1. OrderOf(m)
    BY OrderIs
  <2>2. inc'[m] # 0 /\ lease'[m] <= inc'[m] /\ round'.nodes[m] <= inc'[m]
    <3>1. lease[m] \in Nat /\ round.nodes[m] \in Nat
      BY DEF Types
    <3>2. inc[m] # 0 /\ lease[m] <= inc[m] /\ round.nodes[m] <= inc[m]
      BY <2>1 DEF OrderOf
    <3>3. lease' = lease /\ round' = round
      BY <1>1
    <3> QED
      BY <1>6, <3>1, <3>2, <3>3
  <2>3. CASE view'[m] = view[m] /\ pending'[m] = pending[m]
    BY <2>1, <2>2, <2>3 DEF OrderOf
  <2>4. CASE view'[m] = NoLayout /\ pending'[m] = <<layout>>
    <3>1. layout.part.epoch # 0
      BY OrderIs DEF OrderAll, Epoch
    <3>2. Precedes(NoLayout, layout) /\ Precedes(layout, layout)
      BY <1>2, <3>1, NoLayoutFirst, PrecedesItself
    <3>3. \A i \in 1..Len(pending'[m]) : i = 1 /\ \A j \in i..Len(pending'[m]) : j = 1
      BY <1>2, <2>4
    <3>4. pending'[m][1] = layout
      BY <1>2, <2>4
    <3> QED
      BY <2>2, <2>4, <3>1, <3>2, <3>3, <3>4 DEF OrderOf
  <2> QED
    BY <1>4, <2>3, <2>4
<1> QED
  BY <1>3, <1>7, <1>8, OrderIs

LEMMA NextVersionIs ==
  ASSUME Types, Order
  PROVE  /\ NextVersion \in Lay /\ NextVersion.version = layout.version + 1
         /\ NextVersion.members = layout.members /\ NextVersion.part = layout.part
         /\ Placement(NextVersion) /\ Precedes(layout, NextVersion)
<1>1. /\ NextVersion \in Lay /\ NextVersion.version = layout.version + 1
      /\ NextVersion.members = layout.members /\ NextVersion.part = layout.part
  <2>1. layout \in Lay /\ layout.version + 1 \in Nat
    BY DEF Types, Lay
  <2> QED
    BY <2>1 DEF NextVersion, Lay
<1>2. Placement(NextVersion)
  BY <1>1 DEF Placement, Order
<1>3. layout \in Lay /\ Precedes(layout, layout)
  BY PrecedesItself DEF Types
<1> QED
  BY <1>1, <1>2, <1>3 DEF Precedes

LEMMA NoRoundIs ==
  /\ NoRound \in [open : BOOLEAN, nodes : [Node -> Nat], drained : SUBSET Node,
                  status : [Node -> Report]]
  /\ \A n \in Node : NoRound.nodes[n] = 0
<1>1. NoStatus \in Report
  BY DEF NoStatus, Report
<1>2. [n \in Node |-> NoStatus] \in [Node -> Report] /\ [n \in Node |-> 0] \in [Node -> Nat]
  BY <1>1
<1> QED
  BY <1>2 DEF NoRound

\* A round writes a layout that may follow the latest.
LEMMA OrderFinish ==
  ASSUME Types, Order, FinishRound
  PROVE  /\ Types' /\ Order'
         /\ \/ UNCHANGED <<layout, pending>>
            \/ Precedes(layout, layout') /\ pending' = [n \in Node |-> Append(pending[n], layout')]
<1>1. /\ round' = NoRound
      /\ UNCHANGED <<lease, drained, inc, view>>
  BY DEF FinishRound
<1>2. PICK late \in BOOLEAN :
        LET in == [nodes |-> round.nodes, drained |-> round.drained,
                   status |-> round.status, late |-> late]
        IN \E l \in plan(NextVersion, in) : \/ UNCHANGED <<layout, pending>> \/ PutLayout(l)
  BY DEF FinishRound
<1> DEFINE in == [nodes |-> round.nodes, drained |-> round.drained,
                  status |-> round.status, late |-> late]
<1>3. PICK l \in plan(NextVersion, in) : UNCHANGED <<layout, pending>> \/ PutLayout(l)
  BY <1>2
<1>4. in.nodes = round.nodes /\ in.nodes \in [Node -> Nat]
  BY DEF Types
<1> HIDE DEF in
<1>5. \A n \in Node : round.nodes[n] <= inc[n] /\ lease[n] <= inc[n] /\ inc[n] \in Nat
  BY DEF Order, Types
<1>6. \A n \in Node : round'.nodes[n] <= inc[n]
  BY <1>1, <1>5, NoRoundIs
<1>7. CASE UNCHANGED <<layout, pending>>
  <2>1. Types'
    BY <1>1, <1>7, NoRoundIs DEF Types
  <2>2. Order'
    BY <1>1, <1>5, <1>6, <1>7, OrderSteady
  <2> QED
    BY <1>7, <2>1, <2>2
<1>8. CASE PutLayout(l)
  <2>1. /\ l \in Lay /\ Placement(l) /\ l.version = NextVersion.version
        /\ l.members = in.nodes /\ Precedes(NextVersion, l)
    BY <1>3, <1>4, NextVersionIs, planGood
  <2>2. layout \in Lay /\ Precedes(layout, l)
    BY <2>1, NextVersionIs, PrecedesAll DEF Types
  <2>3. /\ l.version <= MaxVersion /\ l.part.epoch <= MaxEpoch /\ layout' = l
        /\ pending' = [n \in Node |-> Append(pending[n], l)]
    BY <1>8 DEF PutLayout
  <2>4. l.version \in 2..MaxVersion
    <3>1. layout.version \in 2..MaxVersion
      BY DEF Order
    <3>2. l.version = layout.version + 1
      BY <2>1, NextVersionIs
    <3> QED
      BY <2>3, <3>1, <3>2, ReplicationBounds
  <2>5. \A n \in Node : l.members[n] <= inc[n]
    BY <1>4, <1>5, <2>1
  <2>6. Order'
    BY <1>1, <1>6, <2>1, <2>2, <2>3, <2>4, <2>5, OrderPut
  <2>7. pending' \in [Node -> Seq(Lay)]
    BY <2>1, <2>3 DEF Types
  <2>8. Types'
    BY <1>1, <2>1, <2>3, <2>7, NoRoundIs DEF Types
  <2> QED
    BY <2>2, <2>3, <2>6, <2>8
<1> QED
  BY <1>3, <1>7, <1>8

LEMMA OrderTransfer ==
  ASSUME Types, Order, NEW n \in Node, TransferLeader(n)
  PROVE  /\ Types' /\ Order' /\ Precedes(layout, layout')
         /\ pending' = [m \in Node |-> Append(pending[m], layout')]
<1> DEFINE v == layout.version + 1
           q == [layout.part EXCEPT !.handoffTo = n, !.handoffVersion = v]
           l == [NextVersion EXCEPT !.part = q]
<1>1. layout.version \in Nat /\ layout.part \in Part /\ layout \in Lay
  BY DEF Types, Lay
<1>2. /\ q \in Part /\ q.epoch = layout.part.epoch /\ q.leader = layout.part.leader
      /\ q.followers = layout.part.followers /\ q.joining = layout.part.joining
  <2>1. v \in Nat
    BY <1>1
  <2> HIDE DEF v
  <2> QED
    BY <1>1, <2>1 DEF Part
<1>3. /\ l = [NextVersion EXCEPT !.part = startHandoff(@, n, layout.version + 1)]
  BY NextVersionIs DEF startHandoff
<1>4. /\ l.version <= MaxVersion /\ layout' = l
      /\ pending' = [m \in Node |-> Append(pending[m], l)]
      /\ UNCHANGED <<lease, drained, inc, view, round>>
  BY <1>3 DEF TransferLeader, PutLayout
<1> HIDE DEF q
<1>5. l \in Lay /\ l.version = v /\ l.members = layout.members /\ l.part = q
  BY <1>2, NextVersionIs DEF Lay
<1> HIDE DEF l
<1>6. Placement(l)
  BY <1>2, <1>5 DEF Order, Placement, Holders
<1>7. Precedes(layout, l)
  BY <1>1, <1>2, <1>5, PrecedesItself DEF Precedes
<1>8. l.version \in 2..MaxVersion /\ l.part.epoch <= MaxEpoch
  <2>1. layout.version \in 2..MaxVersion /\ layout.part.epoch \in 1..MaxEpoch
    BY DEF Order, Epoch
  <2> QED
    BY <1>2, <1>4, <1>5, <2>1, ReplicationBounds
<1>9. layout \in Known
  BY KnownIs
<1>10. \A m \in Node : l.members[m] <= inc[m] /\ round.nodes[m] <= inc[m]
  BY <1>5, <1>9 DEF Order
<1>11. Order'
  BY <1>4, <1>5, <1>6, <1>7, <1>8, <1>10, OrderPut
<1>12. pending' \in [Node -> Seq(Lay)]
  BY <1>4, <1>5 DEF Types
<1>13. Types'
  BY <1>4, <1>5, <1>12 DEF Types
<1> QED
  BY <1>4, <1>7, <1>11, <1>13

\* The steps of leases and of rounds that write nothing.
LEMMA OrderRounds ==
  ASSUME Types, TypeOK, Order,
         \/ \E n \in Node : LeaseExpires(n) \/ Register(n) \/ PollStatus(n) \/ SetDrained(n)
         \/ BeginRound \/ AbandonRound
  PROVE  Types' /\ Order'
<1>1. UNCHANGED <<layout, pending, view, inc>>
  BY DEF LeaseExpires, Register, PollStatus, SetDrained, BeginRound, AbandonRound, etcd
<1>2. \A n \in Node : round.nodes[n] <= inc[n] /\ lease[n] <= inc[n] /\ inc[n] \in Nat
  BY DEF Order, Types
<1>3. SUFFICES /\ lease' \in [Node -> Nat] /\ drained' \subseteq Node
               /\ round' \in [open : BOOLEAN, nodes : [Node -> Nat], drained : SUBSET Node,
                              status : [Node -> Report]]
               /\ \A n \in Node : round'.nodes[n] <= inc[n] /\ lease'[n] <= inc[n]
  BY <1>1, OrderSteady DEF Types
<1>4. CASE \E n \in Node : LeaseExpires(n) \/ Register(n)
  <2>1. PICK n \in Node : lease' = [lease EXCEPT ![n] = 0] \/ lease' = [lease EXCEPT ![n] = inc[n]]
    BY <1>4 DEF LeaseExpires, Register
  <2>2. round' = round /\ drained' = drained
    BY <1>4 DEF LeaseExpires, Register
  <2>3. lease' \in [Node -> Nat]
    <3>1. lease \in [Node -> Nat] /\ inc[n] \in Nat
      BY DEF Types
    <3>2. PICK v \in Nat : lease' = [lease EXCEPT ![n] = v]
      BY <2>1, <3>1
    <3> QED
      BY <3>1, <3>2
  <2>4. \A m \in Node : lease'[m] <= inc[m]
    <3>1. \A m \in Node : lease'[m] = lease[m] \/ lease'[m] = 0 \/ lease'[m] = inc[m]
      BY <2>1 DEF Types
    <3> QED
      BY <1>2, <3>1
  <2> QED
    BY <1>2, <2>2, <2>3, <2>4 DEF Types
<1>5. CASE \E n \in Node : SetDrained(n)
  <2>1. PICK n \in Node : SetDrained(n)
    BY <1>5
  <2>2. drained' \subseteq Node /\ lease' = lease /\ round' = round
    BY <2>1 DEF SetDrained, Types
  <2> QED
    BY <1>2, <2>2 DEF Types
<1>6. CASE \E n \in Node : PollStatus(n)
  <2>1. PICK n \in Node : PollStatus(n)
    BY <1>6
  <2>2. lease' = lease /\ drained' = drained /\ round' = [round EXCEPT !.status[n] = Status(n)]
    BY <2>1 DEF PollStatus, etcd
  <2>3. Status(n) \in Report
    <3>1. rep[n] \in Replica /\ view[n] \in Lay
      BY DEF TypeOK, Types
    <3>2. Len(rep[n].hist) \in Nat
      BY <3>1 DEF Replica
    <3>3. view[n].version \in Nat
      BY <3>1 DEF Lay
    <3>4. /\ rep[n].role \in {"none", "follower", "leader"} /\ rep[n].epoch \in Nat
          /\ rep[n].dataEpoch \in Nat /\ rep[n].synced \in BOOLEAN /\ rep[n].sealed \in BOOLEAN
      BY <3>1 DEF Replica
    <3>5. (rep[n].role # "none") \in BOOLEAN
      OBVIOUS
    <3> QED
      BY <3>2, <3>3, <3>4, <3>5 DEF Status, Report, Seq0
  <2>4. /\ round' \in [open : BOOLEAN, nodes : [Node -> Nat], drained : SUBSET Node,
                       status : [Node -> Report]]
        /\ round'.nodes = round.nodes
    BY <2>2, <2>3 DEF Types
  <2> QED
    BY <1>2, <2>2, <2>4 DEF Types
<1>7. CASE AbandonRound
  BY <1>2, <1>7, NoRoundIs DEF AbandonRound, Types, etcd
<1>8. CASE BeginRound
  <2>1. /\ lease' = lease /\ drained' = drained
        /\ round' = [NoRound EXCEPT !.open = TRUE, !.nodes = lease, !.drained = drained]
    BY <1>8 DEF BeginRound, etcd
  <2>2. lease \in [Node -> Nat] /\ drained \in SUBSET Node
    BY DEF Types
  <2>3. /\ round' \in [open : BOOLEAN, nodes : [Node -> Nat], drained : SUBSET Node,
                       status : [Node -> Report]]
        /\ round'.nodes = lease
    BY <2>1, <2>2, NoRoundIs
  <2> QED
    BY <1>2, <2>1, <2>2, <2>3
<1> QED
  BY <1>4, <1>5, <1>6, <1>7, <1>8

\* The steps that only replicas and calls take part in.
ReplicaOnly(n) ==
  \/ Write(n) \/ (\E m \in Node : AskLog(n, m) \/ AskSnapshot(n, m))
  \/ ServeLog(n) \/ ApplyLog(n) \/ LoadSnapshot(n) \/ StartOver(n) \/ CallFails(n)

LEMMA ReplicaOnlyLayouts ==
  ASSUME NEW n \in Node, ReplicaOnly(n)
  PROVE  UNCHANGED <<layout, lease, drained, pending, view, inc, joined, round, handed>>
  BY DEF ReplicaOnly, Write, AskLog, AskSnapshot, ServeLog, ApplyLog, LoadSnapshot, StartOver,
         CallFails, etcd, ghost

LEMMA LayoutStep ==
  ASSUME Types, TypeOK, Order, [Next]_vars
  PROVE  Types' /\ Order'
<1>1. CASE UNCHANGED <<layout, lease, drained, pending, view, inc, round>>
  <2>1. Types'
    BY <1>1 DEF Types
  <2>2. \A n \in Node : lease'[n] <= inc[n] /\ round'.nodes[n] <= inc[n]
    BY <1>1 DEF Order
  <2> QED
    BY <1>1, <2>1, <2>2, OrderSteady
<1>2. CASE UNCHANGED vars
  BY <1>1, <1>2 DEF vars
<1>3. ASSUME NEW n \in Node, ReplicaOnly(n)
      PROVE  Types' /\ Order'
  BY <1>1, <1>3, ReplicaOnlyLayouts
<1>4. CASE \E n \in Node : \E i \in 1..Len(pending[n]) : ApplyLayout(n, i)
  BY <1>4, OrderApply
<1>5. CASE \E n \in Node : LeaseLost(n) \/ Crash(n)
  BY <1>5, OrderRestart
<1>6. CASE \/ \E n \in Node : LeaseExpires(n) \/ Register(n) \/ PollStatus(n) \/ SetDrained(n)
           \/ BeginRound \/ AbandonRound
  BY <1>6, OrderRounds
<1>7. CASE \E n \in Node : TransferLeader(n)
  BY <1>7, OrderTransfer
<1>8. CASE FinishRound
  BY <1>8, OrderFinish
<1> QED
  BY <1>2, <1>3, <1>4, <1>5, <1>6, <1>7, <1>8
    DEF Next, ReplicaStep, MemberStep, AdminStep, ReplicaOnly

----------------------------------------------------------------------------
(* Replicas: what reconciling makes of one.                                *)

\* The fields that tell where the data comes from.
SameData(q, r) ==
  /\ q.hist = r.hist /\ q.dataEpoch = r.dataEpoch /\ q.synced = r.synced

BecomesLeader(q, r, e) ==
  /\ q.role = "leader" /\ q.epoch = e
  /\ \/ /\ r.role = "leader" /\ r.epoch = e /\ SameData(q, r)
        /\ q.prevEpoch = r.prevEpoch /\ q.promotedSeq = r.promotedSeq
     \/ /\ ~(r.role = "leader" /\ r.epoch = e)
        /\ q.dataEpoch = e /\ q.synced
        /\ \/ q.hist = <<>> /\ q.prevEpoch = -1
           \/ /\ q.hist = r.hist /\ q.promotedSeq = Len(r.hist)
              /\ q.prevEpoch = IF r.synced THEN r.dataEpoch ELSE -1

BecomesOther(q, r) ==
  \/ q = NoReplica
  \/ q.role = "follower" /\ r.role = "follower" /\ SameData(q, r)
  \/ q.role = "follower" /\ r.role # "follower" /\ q.hist = <<>> /\ ~q.synced

LEMMA NoReplicaType ==
  /\ NoReplica \in Replica /\ NoReplica.role = "none" /\ NoReplica.hist = <<>> /\ ~NoReplica.synced
  /\ NewPartition \in Replica /\ NewPartition.role = "follower" /\ NewPartition.hist = <<>>
  /\ ~NewPartition.synced
<1>1. 0 \in 0..MaxEpoch /\ -1 \in -1..MaxEpoch /\ 0 \in 0..MaxSeq
  BY ReplicationBounds
<1>2. <<>> \in Seq(Epoch \X {"write", "checkpoint"})
  OBVIOUS
<1>3. /\ NoReplica \in Replica /\ NoReplica.role = "none" /\ NoReplica.hist = <<>>
      /\ ~NoReplica.synced
  BY <1>1, <1>2 DEF NoReplica, Replica
<1> QED
  BY <1>3 DEF NewPartition, Replica

LEMMA resetType ==
  ASSUME NEW r \in Replica
  PROVE  /\ resetLocked(r) \in Replica /\ resetLocked(r).hist = <<>> /\ ~resetLocked(r).synced
         /\ resetLocked(r).role = r.role /\ resetLocked(r).epoch = r.epoch
<1>1. 0 \in 0..MaxEpoch /\ 0 \in 0..MaxSeq /\ <<>> \in Seq(Epoch \X {"write", "checkpoint"})
  BY ReplicationBounds
<1> QED
  BY <1>1 DEF resetLocked, Replica

LEMMA ReconciledIs ==
  ASSUME NEW n \in Node, rep[n] \in Replica, Len(rep[n].hist) <= MaxSeq,
         NEW l, l.part.epoch \in 0..MaxEpoch
  PROVE  LET q == Reconciled(n, l)
         IN /\ q \in Replica
            /\ IF l.part.leader = n /\ l.members[n] = inc[n]
                 THEN BecomesLeader(q, rep[n], l.part.epoch) ELSE BecomesOther(q, rep[n])
<1> DEFINE r == rep[n]
           e == l.part.epoch
           q == Reconciled(n, l)
           led == CASE r.role = "none" -> LeadFresh(NewPartition, e)
                    [] r.role = "leader" /\ r.epoch = e -> r
                    [] OTHER -> Promote(r, e)
<1>1. r \in Replica /\ Len(r.hist) \in 0..MaxSeq /\ e \in 0..MaxEpoch /\ e \in -1..MaxEpoch
  BY DEF Replica
<1>2. CASE ~Desired(n, l)
  <2>1. q = NoReplica
    BY <1>2 DEF Reconciled
  <2>2. ~(l.part.leader = n /\ l.members[n] = inc[n])
    BY <1>2, NodeAssumption DEF Desired, Holders
  <2> QED
    BY <2>1, <2>2, NoReplicaType DEF BecomesOther
<1>3. CASE Desired(n, l) /\ l.part.leader = n
  <2>1. q = [led EXCEPT !.sealed = (l.part.handoffTo # NoNode)]
    BY <1>3 DEF Reconciled
  <2>2. led \in Replica /\ BecomesLeader(led, r, e)
    <3>1. CASE r.role = "none"
      <4> DEFINE z == resetLocked(NewPartition)
      <4>1. led = LeadFresh(NewPartition, e)
        BY <3>1
      <4>2. z \in Replica /\ z.hist = <<>>
        BY NoReplicaType, resetType
      <4>3. led = [z EXCEPT !.role = "leader", !.epoch = e, !.dataEpoch = e,
                            !.prevEpoch = -1, !.promotedSeq = 0, !.synced = TRUE]
        BY <4>1 DEF LeadFresh
      <4> HIDE DEF z, led
      <4>4. -1 \in -1..MaxEpoch /\ 0 \in 0..MaxSeq
        BY ReplicationBounds
      <4>5. /\ led \in Replica /\ led.role = "leader" /\ led.epoch = e /\ led.dataEpoch = e
            /\ led.synced /\ led.hist = <<>> /\ led.prevEpoch = -1
        BY <1>1, <4>2, <4>3, <4>4 DEF Replica
      <4> QED
        BY <3>1, <4>5 DEF BecomesLeader
    <3>2. CASE r.role = "leader" /\ r.epoch = e
      BY <1>1, <3>2 DEF BecomesLeader, SameData
    <3>3. CASE r.role # "none" /\ ~(r.role = "leader" /\ r.epoch = e)
      <4> DEFINE w == IF r.synced THEN r.dataEpoch ELSE -1
      <4>1. led = Promote(r, e)
        BY <3>3
      <4>2. w \in -1..MaxEpoch
        BY <1>1, ReplicationBounds DEF Replica
      <4>3. led = [r EXCEPT !.prevEpoch = w, !.promotedSeq = Len(r.hist), !.role = "leader",
                            !.epoch = e, !.dataEpoch = e, !.synced = TRUE, !.sealed = FALSE]
        BY <4>1 DEF Promote, Seq0
      <4> HIDE DEF w, led
      <4>4. /\ led \in Replica /\ led.role = "leader" /\ led.epoch = e /\ led.dataEpoch = e
            /\ led.synced /\ led.hist = r.hist /\ led.prevEpoch = w /\ led.promotedSeq = Len(r.hist)
        BY <1>1, <4>2, <4>3 DEF Replica
      <4> QED
        BY <3>3, <4>4 DEF BecomesLeader, w
    <3> QED
      BY <3>1, <3>2, <3>3
  <2> HIDE DEF led, q
  <2>3. /\ q \in Replica /\ q.role = led.role /\ q.epoch = led.epoch /\ SameData(q, led)
        /\ q.prevEpoch = led.prevEpoch /\ q.promotedSeq = led.promotedSeq
    BY <2>1, <2>2 DEF Replica, SameData
  <2>4. BecomesLeader(q, r, e)
    BY <2>2, <2>3 DEF BecomesLeader, SameData
  <2>5. l.part.leader = n /\ l.members[n] = inc[n]
    BY <1>3 DEF Desired
  <2> QED
    BY <2>3, <2>4, <2>5 DEF q
<1>4. CASE Desired(n, l) /\ l.part.leader # n
  <2> DEFINE k == IF r.role = "none" THEN NewPartition ELSE r
             z == IF k.role = "leader" THEN resetLocked(k) ELSE k
  <2>1. q = Follow(k, e)
    BY <1>4 DEF Reconciled
  <2>2. q = [z EXCEPT !.role = "follower", !.epoch = e, !.sealed = FALSE]
    BY <2>1 DEF Follow
  <2>3. /\ z \in Replica
        /\ IF r.role = "follower" THEN z = r ELSE z.hist = <<>> /\ ~z.synced
    BY <1>1, NoReplicaType, resetType DEF Replica
  <2> HIDE DEF z, q
  <2>4. q \in Replica /\ q.role = "follower" /\ SameData(q, z)
    BY <1>1, <2>2, <2>3 DEF Replica, SameData
  <2>5. BecomesOther(q, r)
    BY <2>3, <2>4 DEF BecomesOther, SameData
  <2> QED
    BY <1>4, <2>4, <2>5 DEF q
<1> QED
  BY <1>2, <1>3, <1>4

\* Requests and writes change neither roles nor epochs; and a replica that is
\* not the leader of a write keeps what it leads with.
LEMMA RolesKept ==
  ASSUME TypeOK, NEW n \in Node, ReplicaOnly(n), NEW m \in Node
  PROVE  rep'[m].role = rep[m].role /\ rep'[m].epoch = rep[m].epoch
<1>1. rep \in [Node -> Replica] /\ rep[m] \in Replica
  BY DEF TypeOK
<1>2. CASE rep' = rep
  BY <1>2
<1>3. ASSUME NEW k \in Node, NEW h, rep' = [rep EXCEPT ![k].hist = h]
      PROVE  rep'[m].role = rep[m].role /\ rep'[m].epoch = rep[m].epoch
  BY <1>1, <1>3 DEF Replica
<1>4. CASE ApplyLog(n)
  BY <1>1, <1>4 DEF ApplyLog, Replica
<1>5. CASE LoadSnapshot(n)
  BY <1>1, <1>5 DEF LoadSnapshot, Replica
<1>6. CASE StartOver(n)
  <2>1. rep' = [rep EXCEPT ![n] = resetLocked(rep[n])]
    BY <1>6 DEF StartOver
  <2>2. rep'[m] = rep[m] \/ rep'[m] = resetLocked(rep[m])
    BY <1>1, <2>1
  <2> QED
    BY <1>1, <2>2, resetType
<1> QED
  BY <1>2, <1>3, <1>4, <1>5, <1>6
    DEF ReplicaOnly, Write, AskLog, AskSnapshot, ServeLog, CallFails, Log

\* Epochs of known layouts fit the bound.
LEMMA KnownEpoch ==
  ASSUME Types, Order, NEW a \in Known
  PROVE  a.part.epoch \in 0..MaxEpoch /\ a.part.epoch <= layout.part.epoch
<1>1. a \in Lay /\ Precedes(a, layout) /\ layout.part.epoch \in 1..MaxEpoch
  BY KnownLay DEF Order, Epoch
<1>2. a.part.epoch \in Nat
  BY <1>1 DEF Lay, Part
<1> QED
  BY <1>1, <1>2, ReplicationBounds DEF Precedes

\* What a node makes of the layout it applies.
LEMMA ApplyIs ==
  ASSUME Types, TypeOK, Order, Calls, NEW n \in Node, NEW i \in 1..Len(pending[n]), ApplyLayout(n, i)
  PROVE  LET l == pending[n][i]
             q == Reconciled(n, l)
         IN /\ l \in Known /\ l \in Lay /\ l.part.epoch \in Epoch
            /\ q \in Replica /\ SetReplica(n, q) /\ rep'[n] = q /\ view'[n] = l
            /\ \A m \in Node : m # n => rep'[m] = rep[m] /\ view'[m] = view[m]
            /\ IF l.part.leader = n /\ l.members[n] = inc[n]
                 THEN BecomesLeader(q, rep[n], l.part.epoch) ELSE BecomesOther(q, rep[n])
<1> DEFINE l == pending[n][i]
           q == Reconciled(n, l)
<1>1. l \in Known /\ l \in Lay
  BY KnownIs, KnownLay
<1>2. l.part.epoch \in 0..MaxEpoch /\ l.part.epoch \in Epoch
  BY <1>1, KnownEpoch DEF Order, Epoch
<1>3. rep \in [Node -> Replica] /\ view \in [Node -> Lay] /\ Len(rep[n].hist) <= MaxSeq
  BY DEF TypeOK, Types, Calls
<1>4. SetReplica(n, q) /\ view' = [view EXCEPT ![n] = l] /\ rep' = [rep EXCEPT ![n] = q]
  BY DEF ApplyLayout, SetReplica
<1>5. /\ q \in Replica
      /\ IF l.part.leader = n /\ l.members[n] = inc[n]
           THEN BecomesLeader(q, rep[n], l.part.epoch) ELSE BecomesOther(q, rep[n])
  BY <1>2, <1>3, ReconciledIs
<1> HIDE DEF q, l
<1>6. /\ rep'[n] = q /\ view'[n] = l
      /\ \A m \in Node : m # n => rep'[m] = rep[m] /\ view'[m] = view[m]
  BY <1>3, <1>4
<1> QED
  BY <1>1, <1>2, <1>4, <1>5, <1>6 DEF q, l

LEMMA RestartIs ==
  ASSUME Types, TypeOK, NEW n \in Node, LeaseLost(n) \/ Crash(n)
  PROVE  /\ SetReplica(n, NoReplica) /\ rep'[n] = NoReplica /\ inc'[n] = inc[n] + 1
         /\ view'[n] = view[n] \/ view'[n] = NoLayout
         /\ pending'[n] = pending[n] \/ pending'[n] = <<layout>>
         /\ \A m \in Node : m # n => /\ rep'[m] = rep[m] /\ view'[m] = view[m]
                                     /\ inc'[m] = inc[m] /\ pending'[m] = pending[m]
         /\ layout' = layout
  BY DEF LeaseLost, Crash, SetReplica, Types, TypeOK, etcd

\* A node leads when, and for as long as, the layout it follows says so.
LEMMA LeadersStep ==
  ASSUME Types, TypeOK, Order, Leaders, Calls, [Next]_vars
  PROVE  Leaders'
<1>1. ASSUME UNCHANGED <<view, inc>>,
             \A m \in Node : rep'[m].role = rep[m].role /\ rep'[m].epoch = rep[m].epoch
      PROVE  Leaders'
  BY <1>1 DEF Leaders, Leads, Epoch
<1>2. CASE UNCHANGED <<view, inc, rep>>
  BY <1>1, <1>2
<1>3. ASSUME NEW n \in Node, ReplicaOnly(n)
      PROVE  Leaders'
  BY <1>1, <1>3, RolesKept, ReplicaOnlyLayouts
<1>4. ASSUME NEW n \in Node, NEW i \in 1..Len(pending[n]), ApplyLayout(n, i)
      PROVE  Leaders'
  <2> DEFINE l == pending[n][i]
             q == Reconciled(n, l)
  <2>1. /\ l.part.epoch \in Epoch /\ rep'[n] = q /\ view'[n] = l
        /\ \A m \in Node : m # n => rep'[m] = rep[m] /\ view'[m] = view[m]
        /\ IF l.part.leader = n /\ l.members[n] = inc[n]
             THEN BecomesLeader(q, rep[n], l.part.epoch) ELSE BecomesOther(q, rep[n])
    BY <1>4, ApplyIs
  <2>2. inc' = inc
    BY <1>4 DEF ApplyLayout
  <2> HIDE DEF q, l
  <2>3. /\ q.role = "leader" <=> (l.part.leader = n /\ l.members[n] = inc[n])
        /\ q.role = "leader" => q.epoch = l.part.epoch
    BY <2>1, NoReplicaType DEF BecomesLeader, BecomesOther
  <2> QED
    BY <2>1, <2>2, <2>3 DEF Leaders, Leads, Epoch
<1>5. ASSUME NEW n \in Node, LeaseLost(n) \/ Crash(n)
      PROVE  Leaders'
  <2>1. /\ rep'[n] = NoReplica /\ inc'[n] = inc[n] + 1
        /\ view'[n] = view[n] \/ view'[n] = NoLayout
        /\ \A m \in Node : m # n => rep'[m] = rep[m] /\ view'[m] = view[m] /\ inc'[m] = inc[m]
    BY <1>5, RestartIs
  <2>2. view[n] \in Known /\ view[n].members[n] \in Nat /\ inc[n] \in Nat
    BY KnownIs DEF Types, Lay
  <2>3. view[n].members[n] <= inc[n]
    BY <2>2 DEF Order
  <2>4. NoLayout.part.leader # n
    BY NodeAssumption DEF NoLayout
  <2>5. ~(view'[n].part.leader = n /\ view'[n].members[n] = inc'[n])
    BY <2>1, <2>2, <2>3, <2>4
  <2> QED
    BY <2>1, <2>5, NoReplicaType DEF Leaders, Leads, Epoch
<1> QED
  BY <1>2, <1>3, <1>4, <1>5
    DEF Next, ReplicaStep, MemberStep, AdminStep, ReplicaOnly, LeaseExpires, Register, PollStatus,
        SetDrained, TransferLeader, BeginRound, FinishRound, AbandonRound, vars

\* Two leaders in one epoch would both be the leader of it in known layouts.
LEMMA OneLeader ==
  ASSUME Types, Order, Leaders
  PROVE  OneLeaderPerEpoch
<1> SUFFICES ASSUME NEW m \in Node, NEW n \in Node, rep[m].role = "leader", rep[n].role = "leader",
                    rep[m].epoch = rep[n].epoch
             PROVE  m = n
  BY DEF OneLeaderPerEpoch
<1>1. /\ view[m].part.leader = m /\ view[n].part.leader = n
      /\ view[m].part.epoch = view[n].part.epoch
  BY DEF Leaders, Leads
<1>2. view[m] \in Known /\ view[n] \in Known /\ m # NoNode /\ n # NoNode
  BY KnownIs, NodeAssumption
<1>3. SameLeader(view[m], view[n])
  BY <1>2 DEF Order
<1> QED
  BY <1>1, <1>2, <1>3 DEF SameLeader

----------------------------------------------------------------------------
(* Histories: the log of an epoch only grows.                              *)

LEMMA BeginsItself ==
  ASSUME NEW S, NEW s \in Seq(S)
  PROVE  Begins(s, s) /\ Begins(<<>>, s)
<1>1. Len(s) \in Nat /\ Len(<<>>) = 0
  OBVIOUS
<1> QED
  BY <1>1 DEF Begins

LEMMA BeginsAll ==
  ASSUME NEW S, NEW a \in Seq(S), NEW b \in Seq(S), NEW c \in Seq(S), Begins(a, b), Begins(b, c)
  PROVE  Begins(a, c)
<1>1. Len(a) \in Nat /\ Len(b) \in Nat /\ Len(c) \in Nat
  OBVIOUS
<1> QED
  BY <1>1 DEF Begins

LEMMA BeginsMore ==
  ASSUME NEW S, NEW a \in Seq(S), NEW b \in Seq(S)
  PROVE  /\ Begins(a, a \o b) /\ a \o b \in Seq(S) /\ Len(a \o b) = Len(a) + Len(b)
<1>1. /\ a \o b \in Seq(S) /\ Len(a \o b) = Len(a) + Len(b)
      /\ \A i \in 1..Len(a) : (a \o b)[i] = a[i]
  OBVIOUS
<1>2. Len(a) \in Nat /\ Len(b) \in Nat
  OBVIOUS
<1> QED
  BY <1>1, <1>2 DEF Begins

Grows == \A e \in Epoch : Begins(lineage[e], lineage'[e])

\* What a leader logs.
LEMMA LogIs ==
  ASSUME TypeOK, Leaders, Lineage, NEW n \in Node, rep[n].role = "leader",
         NEW kinds \in Seq({"write", "checkpoint"}), Log(n, kinds)
  PROVE  LET e == rep[n].epoch
             h == rep'[n].hist
         IN /\ e \in Epoch /\ h \in Seq(Entry) /\ Len(h) <= MaxSeq
            /\ Begins(rep[n].hist, h) /\ Begins(lineage[e], h)
            /\ rep' = [rep EXCEPT ![n].hist = h] /\ lineage' = [lineage EXCEPT ![e] = h]
            /\ Len(h) = Len(rep[n].hist) + Len(kinds)
            /\ rep'[n] = [rep[n] EXCEPT !.hist = h]
            /\ \A m \in Node : m # n => rep'[m] = rep[m]
            /\ lineage'[e] = h /\ \A g \in Epoch : g # e => lineage'[g] = lineage[g]
<1> DEFINE e == rep[n].epoch
           new == [i \in 1..Len(kinds) |-> <<e, kinds[i]>>]
           h == rep[n].hist \o new
<1>1. e \in Epoch /\ rep[n].hist = lineage[e] /\ rep[n] \in Replica /\ rep[n].hist \in Seq(Entry)
  BY DEF Leaders, Lineage, TypeOK, Replica, Entry
<1>2. Len(kinds) \in Nat /\ \A i \in 1..Len(kinds) : kinds[i] \in {"write", "checkpoint"}
  OBVIOUS
<1>3. \A i \in 1..Len(kinds) : <<e, kinds[i]>> \in Entry
  BY <1>1, <1>2 DEF Entry
<1>4. new \in Seq(Entry) /\ Len(new) = Len(kinds)
  BY <1>2, <1>3
<1>5. Len(h) <= MaxSeq /\ rep' = [rep EXCEPT ![n].hist = h] /\ lineage' = [lineage EXCEPT ![e] = h]
  BY DEF Log
<1> HIDE DEF new
<1>6. Begins(rep[n].hist, h) /\ h \in Seq(Entry) /\ Len(h) = Len(rep[n].hist) + Len(kinds)
  <2> DEFINE old == rep[n].hist
  <2>1. old \in Seq(Entry)
    BY <1>1
  <2> HIDE DEF old
  <2>2. Begins(old, old \o new) /\ old \o new \in Seq(Entry) /\ Len(old \o new) = Len(old) + Len(new)
    BY <1>4, <2>1, BeginsMore, Zenon
  <2> QED
    BY <1>4, <2>2 DEF old
<1> HIDE DEF h, e
<1>7. /\ rep'[n] = [rep[n] EXCEPT !.hist = h] /\ rep'[n].hist = h
      /\ \A m \in Node : m # n => rep'[m] = rep[m]
  BY <1>1, <1>5 DEF TypeOK, Replica
<1>8. lineage'[e] = h /\ \A g \in Epoch : g # e => lineage'[g] = lineage[g]
  BY <1>1, <1>5 DEF Lineage
<1> QED
  BY <1>1, <1>5, <1>6, <1>7, <1>8 DEF e

\* The layouts of which n may become leader.
Coming(n) == {layout} \cup {pending[n][i] : i \in 1..Len(pending[n])}

LEMMA ComingKnown ==
  ASSUME NEW n \in Node, NEW a \in Coming(n)
  PROVE  a \in Known
  BY KnownIs DEF Coming

LineageOf(n) ==
  \A a \in Coming(n) :
    a.part.leader = n /\ a.members[n] = inc[n] /\ a.part.epoch \in Epoch
      /\ lineage[a.part.epoch] # <<>> =>
    rep[n].role = "leader" /\ rep[n].epoch = a.part.epoch

LeaderData(n) ==
  rep[n].role = "leader" => rep[n].hist = lineage[rep[n].epoch] /\ rep[n].dataEpoch = rep[n].epoch

LEMMA LineageIs ==
  /\ Lineage <=> /\ lineage \in [Epoch -> Seq(Entry)]
                 /\ \A e \in Epoch : e > layout.part.epoch => lineage[e] = <<>>
                 /\ \A n \in Node : LeaderData(n) /\ LineageOf(n)
  /\ Lineage' <=> /\ lineage' \in [Epoch -> Seq(Entry)]
                  /\ \A e \in Epoch : e > layout'.part.epoch => lineage'[e] = <<>>
                  /\ \A n \in Node : LeaderData(n)' /\ LineageOf(n)'
<1>1. Lineage <=> /\ lineage \in [Epoch -> Seq(Entry)]
                  /\ \A e \in Epoch : e > layout.part.epoch => lineage[e] = <<>>
                  /\ \A n \in Node : LeaderData(n) /\ LineageOf(n)
  BY DEF Lineage, LeaderData, LineageOf, Coming
<1>2. Lineage' <=> /\ lineage' \in [Epoch -> Seq(Entry)]
                   /\ \A e \in Epoch : e > layout'.part.epoch => lineage'[e] = <<>>
                   /\ \A n \in Node : LeaderData(n)' /\ LineageOf(n)'
  BY DEF Lineage, LeaderData, LineageOf, Coming, Epoch, Entry
<1> QED
  BY <1>1, <1>2

\* A leader extends the log of its epoch, which nobody else leads.
LEMMA LineageLog ==
  ASSUME Types, TypeOK, Order, Leaders, Lineage, NEW n \in Node, rep[n].role = "leader",
         NEW kinds \in Seq({"write", "checkpoint"}), Log(n, kinds),
         UNCHANGED <<layout, pending, view, inc>>
  PROVE  Lineage' /\ Grows
<1> DEFINE e == rep[n].epoch
           h == rep'[n].hist
<1>1. /\ e \in Epoch /\ h \in Seq(Entry) /\ Begins(lineage[e], h)
      /\ lineage' = [lineage EXCEPT ![e] = h]
      /\ rep'[n] = [rep[n] EXCEPT !.hist = h] /\ \A m \in Node : m # n => rep'[m] = rep[m]
      /\ lineage'[e] = h /\ \A g \in Epoch : g # e => lineage'[g] = lineage[g]
  BY LogIs
<1>2. lineage \in [Epoch -> Seq(Entry)] /\ \A m \in Node : LeaderData(m) /\ LineageOf(m)
  BY LineageIs
<1>3. lineage' \in [Epoch -> Seq(Entry)]
  BY <1>1, <1>2
<1>4. Grows
  <2>1. \A g \in Epoch : Begins(lineage[g], lineage[g])
    BY <1>2, BeginsItself
  <2> QED
    BY <1>1, <2>1 DEF Grows
<1>5. rep[n] \in Replica
  BY DEF TypeOK
<1>6. rep'[n].role = "leader" /\ rep'[n].epoch = e /\ rep'[n].dataEpoch = rep[n].dataEpoch
  BY <1>1, <1>5 DEF Replica
<1>7. /\ view[n] \in Known /\ view[n].part.leader = n /\ view[n].part.epoch = e
      /\ e <= layout.part.epoch
  <2>1. view[n] \in Known
    BY KnownIs
  <2>2. view[n].part.leader = n /\ view[n].part.epoch = e
    BY DEF Leaders, Leads
  <2> QED
    BY <2>1, <2>2, KnownEpoch
<1>8. \A g \in Epoch : g > layout'.part.epoch => lineage'[g] = <<>>
  <2>1. \A g \in Epoch : g > layout.part.epoch => g # e
    BY <1>7, <1>1 DEF Epoch, Order
  <2> QED
    BY <1>1, <2>1, LineageIs
<1>9. ASSUME NEW m \in Node
      PROVE  LeaderData(m)'
  <2>1. CASE m = n
    BY <1>1, <1>2, <1>6, <2>1 DEF LeaderData
  <2>2. CASE m # n
    <3>1. rep[m].role = "leader" => rep[m].epoch # e /\ rep[m].epoch \in Epoch
      BY <2>2, OneLeader DEF OneLeaderPerEpoch, Leaders
    <3> QED
      BY <1>1, <1>2, <2>2, <3>1 DEF LeaderData
  <2> QED
    BY <2>1, <2>2
<1>10. ASSUME NEW m \in Node
       PROVE  LineageOf(m)'
  <2>1. Coming(m)' = Coming(m) /\ inc' = inc /\ Epoch' = Epoch
    BY DEF Coming, Epoch
  <2> SUFFICES ASSUME NEW a \in Coming(m), a.part.leader = m, a.members[m] = inc[m],
                      a.part.epoch \in Epoch, lineage'[a.part.epoch] # <<>>
               PROVE  rep'[m].role = "leader" /\ rep'[m].epoch = a.part.epoch
    BY <2>1 DEF LineageOf
  <2>2. CASE a.part.epoch # e
    <3>1. rep[m].role = "leader" /\ rep[m].epoch = a.part.epoch
      BY <1>1, <1>2, <2>2 DEF LineageOf
    <3> QED
      BY <1>1, <2>2, <3>1
  <2>3. CASE a.part.epoch = e
    <3>1. SameLeader(a, view[n])
      BY <1>7, ComingKnown DEF Order
    <3>2. m = n
      BY <1>7, <2>3, <3>1, NodeAssumption DEF SameLeader
    <3> QED
      BY <1>6, <2>3, <3>2
  <2> QED
    BY <2>2, <2>3
<1> QED
  BY <1>3, <1>4, <1>8, <1>9, <1>10, LineageIs

\* A layout is written; the epochs after the latest are empty.
LEMMA LineagePut ==
  ASSUME Types, Order, Lineage, layout' \in Lay, Precedes(layout, layout'),
         pending' = [n \in Node |-> Append(pending[n], layout')],
         UNCHANGED <<inc, rep, lineage>>
  PROVE  Lineage'
<1>1. layout \in Lay /\ layout.part.epoch \in Nat /\ layout'.part.epoch \in Nat
  BY DEF Types, Lay, Part
<1>2. layout.part.epoch <= layout'.part.epoch
  BY DEF Precedes
<1>3. \A e \in Epoch : e > layout'.part.epoch => lineage'[e] = <<>>
  <2>1. \A e \in Epoch : e > layout'.part.epoch => e > layout.part.epoch
    BY <1>1, <1>2 DEF Epoch
  <2> QED
    BY <2>1, LineageIs
<1>4. ASSUME NEW n \in Node
      PROVE  LineageOf(n)'
  <2>1. \A a \in Coming(n)' : a \in Coming(n) \/ a = layout'
    <3>1. pending[n] \in Seq(Lay) /\ pending'[n] = Append(pending[n], layout')
      BY DEF Types
    <3>2. \A i \in 1..Len(pending'[n]) :
            pending'[n][i] = layout' \/ (i \in 1..Len(pending[n]) /\ pending'[n][i] = pending[n][i])
      BY <3>1
    <3> QED
      BY <3>2 DEF Coming
  <2> SUFFICES ASSUME NEW a \in Coming(n)', a.part.leader = n, a.members[n] = inc[n],
                      a.part.epoch \in Epoch, lineage[a.part.epoch] # <<>>
               PROVE  rep[n].role = "leader" /\ rep[n].epoch = a.part.epoch
    BY DEF LineageOf, Epoch
  <2>2. LineageOf(n)
    BY LineageIs
  <2>3. CASE a \in Coming(n)
    BY <2>2, <2>3 DEF LineageOf
  <2>4. CASE a = layout'
    <3>1. ~(a.part.epoch > layout.part.epoch)
      BY LineageIs
    <3>2. a.part.epoch = layout.part.epoch
      BY <1>1, <1>2, <2>4, <3>1
    <3>3. layout.part.leader = n /\ layout.members[n] = inc[n]
      BY <2>4, <3>2, NodeAssumption DEF Precedes
    <3>4. layout \in Coming(n)
      BY DEF Coming
    <3> QED
      BY <2>2, <3>2, <3>3, <3>4 DEF LineageOf
  <2> QED
    BY <2>1, <2>3, <2>4
<1>5. \A n \in Node : LeaderData(n)'
  BY LineageIs DEF LeaderData
<1>6. lineage' \in [Epoch -> Seq(Entry)]
  BY LineageIs
<1> QED
  BY <1>3, <1>4, <1>5, <1>6, LineageIs

LEMMA ComingApply ==
  ASSUME Types, NEW n \in Node, NEW i \in 1..Len(pending[n]), ApplyLayout(n, i), NEW m \in Node
  PROVE  /\ \A a \in Coming(m)' : a \in Coming(m)
         /\ \A a \in Coming(n)' : a = layout \/ \E j \in i..Len(pending[n]) : a = pending[n][j]
<1>1. /\ pending' = [pending EXCEPT ![n] = SubSeq(pending[n], i + 1, Len(pending[n]))]
      /\ layout' = layout
  BY DEF ApplyLayout, etcd
<1>2. pending[n] \in Seq(Lay) /\ Len(pending[n]) \in Nat /\ pending \in [Node -> Seq(Lay)]
  BY DEF Types
<1>3. /\ pending'[n] = SubSeq(pending[n], i + 1, Len(pending[n]))
      /\ m # n => pending'[m] = pending[m]
  BY <1>1, <1>2
<1>4. \A j \in 1..Len(pending'[n]) :
        /\ i + j \in i..Len(pending[n]) /\ i + j \in 1..Len(pending[n])
        /\ pending'[n][j] = pending[n][i + j]
  BY <1>2, <1>3
<1>5. \A a \in Coming(n)' : a = layout \/ \E j \in i..Len(pending[n]) : a = pending[n][j]
  BY <1>1, <1>4 DEF Coming
<1>6. \A a \in Coming(n)' : a \in Coming(n)
  BY <1>1, <1>4 DEF Coming
<1>7. m # n => Coming(m)' = Coming(m)
  BY <1>1, <1>3 DEF Coming
<1> QED
  BY <1>5, <1>6, <1>7

\* A node begins to lead an epoch whose log is empty, or goes on leading it.
LEMMA LineageApply ==
  ASSUME Types, TypeOK, Order, Leaders, Calls, Lineage,
         NEW n \in Node, NEW i \in 1..Len(pending[n]), ApplyLayout(n, i)
  PROVE  Lineage' /\ Grows
<1> DEFINE l == pending[n][i]
           e == l.part.epoch
           r == rep[n]
           q == Reconciled(n, l)
           leads == l.part.leader = n /\ l.members[n] = inc[n]
<1>1. /\ l \in Known /\ l \in Lay /\ e \in Epoch
      /\ q \in Replica /\ SetReplica(n, q) /\ rep'[n] = q
      /\ \A m \in Node : m # n => rep'[m] = rep[m]
      /\ IF leads THEN BecomesLeader(q, r, e) ELSE BecomesOther(q, r)
  BY ApplyIs
<1>2. layout' = layout /\ inc' = inc
  BY DEF ApplyLayout, etcd
<1>3. /\ lineage \in [Epoch -> Seq(Entry)] /\ \A m \in Node : LeaderData(m) /\ LineageOf(m)
      /\ \A g \in Epoch : g > layout.part.epoch => lineage[g] = <<>>
  BY LineageIs
<1>4. /\ \A m \in Node : \A a \in Coming(m)' : a \in Coming(m)
      /\ \A a \in Coming(n)' : Precedes(l, a)
  <2>1. \A j \in i..Len(pending[n]) : Precedes(l, pending[n][j])
    BY DEF Order
  <2>2. Precedes(l, layout)
    BY <1>1 DEF Order
  <2> QED
    BY <2>1, <2>2, ComingApply
<1>5. r.role = "leader" => r.epoch <= e /\ r.epoch \in Epoch
  <2>1. Precedes(view[n], l)
    BY DEF Order
  <2>2. r.role = "leader" => r.epoch = view[n].part.epoch /\ r.epoch \in Epoch
    BY DEF Leaders
  <2> QED
    BY <2>1, <2>2 DEF Precedes
<1>6. l \in Coming(n)
  BY DEF Coming
<1>7. \A m \in Node : \A a \in Coming(m)' : a \in Lay /\ a.part.epoch \in Nat
  <2>1. \A m \in Node : \A a \in Coming(m)' : a \in Lay
    BY <1>4, ComingKnown, KnownLay
  <2> QED
    BY <2>1 DEF Lay, Part
<1>8. q.role = "leader" <=> leads
  BY <1>1, NoReplicaType DEF BecomesLeader, BecomesOther
<1>9. lineage' = IF q.role = "leader" THEN [lineage EXCEPT ![q.epoch] = q.hist] ELSE lineage
  BY <1>1 DEF SetReplica
<1> HIDE DEF q, l, e
<1>10. CASE leads
  <2>1. BecomesLeader(q, r, e) /\ q.role = "leader" /\ q.epoch = e
    BY <1>1, <1>10 DEF BecomesLeader
  <2>2. lineage' = [lineage EXCEPT ![e] = q.hist] /\ q.hist \in Seq(Entry)
    BY <1>1, <1>9, <2>1 DEF Replica, Entry
  <2>3. lineage' \in [Epoch -> Seq(Entry)] /\ lineage'[e] = q.hist
    BY <1>1, <1>3, <2>2
  <2>4. \A g \in Epoch : g # e => lineage'[g] = lineage[g]
    BY <1>3, <2>2
  <2>5. Begins(lineage[e], q.hist)
    <3>1. CASE r.role = "leader" /\ r.epoch = e
      <4>1. q.hist = r.hist /\ r.hist = lineage[e]
        BY <1>3, <2>1, <3>1 DEF BecomesLeader, SameData, LeaderData
      <4> QED
        BY <2>2, <4>1, BeginsItself
    <3>2. CASE ~(r.role = "leader" /\ r.epoch = e)
      <4>1. lineage[e] = <<>>
        BY <1>1, <1>3, <1>6, <1>10, <3>2 DEF LineageOf, e
      <4> QED
        BY <2>2, <4>1, BeginsItself
    <3> QED
      BY <3>1, <3>2
  <2>6. Grows
    <3>1. \A g \in Epoch : Begins(lineage[g], lineage[g])
      BY <1>3, BeginsItself
    <3> QED
      BY <2>3, <2>4, <2>5, <3>1 DEF Grows
  <2>7. \A g \in Epoch : g > layout'.part.epoch => lineage'[g] = <<>>
    <3>1. e <= layout.part.epoch
      BY <1>1, KnownEpoch DEF e
    <3>2. \A g \in Epoch : g > layout.part.epoch => g # e
      BY <1>1, <3>1 DEF Epoch, Order
    <3> QED
      BY <1>2, <1>3, <2>4, <3>2
  <2>8. ASSUME NEW m \in Node
        PROVE  LeaderData(m)'
    <3>1. CASE m = n
      <4>1. q.dataEpoch = e
        BY <1>3, <2>1 DEF BecomesLeader, SameData, LeaderData
      <4> QED
        BY <1>1, <2>1, <2>3, <3>1, <4>1 DEF LeaderData
    <3>2. CASE m # n
      <4>1. ASSUME rep[m].role = "leader"
            PROVE  rep[m].epoch # e /\ rep[m].epoch \in Epoch
        <5>1. /\ view[m].part.leader = m /\ view[m].part.epoch = rep[m].epoch /\ view[m] \in Known
              /\ rep[m].epoch \in Epoch
          BY <4>1, KnownIs DEF Leaders, Leads
        <5>2. SameLeader(view[m], l)
          BY <1>1, <5>1 DEF Order
        <5> QED
          BY <1>10, <3>2, <5>1, <5>2, NodeAssumption DEF SameLeader, e
      <4> QED
        BY <1>1, <1>3, <2>4, <3>2, <4>1 DEF LeaderData
    <3> QED
      BY <3>1, <3>2
  <2>9. ASSUME NEW m \in Node
        PROVE  LineageOf(m)'
    <3> SUFFICES ASSUME NEW a \in Coming(m)', a.part.leader = m, a.members[m] = inc[m],
                        a.part.epoch \in Epoch, lineage'[a.part.epoch] # <<>>
                 PROVE  rep'[m].role = "leader" /\ rep'[m].epoch = a.part.epoch
      BY <1>2 DEF LineageOf, Epoch
    <3>1. a \in Coming(m) /\ a \in Known
      BY <1>4, ComingKnown
    <3>2. CASE a.part.epoch = e
      <4>1. SameLeader(a, l)
        BY <1>1, <3>1 DEF Order
      <4>2. m = n
        BY <1>10, <3>2, <4>1, NodeAssumption DEF SameLeader, e
      <4> QED
        BY <1>1, <2>1, <3>2, <4>2
    <3>3. CASE a.part.epoch # e
      <4>1. rep[m].role = "leader" /\ rep[m].epoch = a.part.epoch
        BY <1>3, <2>4, <3>1, <3>3 DEF LineageOf
      <4>2. CASE m = n
        <5>1. Precedes(l, a)
          BY <1>4, <4>2
        <5>2. e <= a.part.epoch /\ a.part.epoch <= e
          BY <1>5, <4>1, <4>2, <5>1 DEF Precedes, e
        <5> QED
          BY <1>1, <3>3, <5>2 DEF Epoch
      <4>3. CASE m # n
        BY <1>1, <4>1, <4>3
      <4> QED
        BY <4>2, <4>3
    <3> QED
      BY <3>2, <3>3
  <2> QED
    BY <2>3, <2>6, <2>7, <2>8, <2>9, LineageIs
<1>11. CASE ~leads
  <2>1. lineage' = lineage /\ q.role # "leader"
    BY <1>8, <1>9, <1>11
  <2>2. Grows
    <3>1. \A g \in Epoch : Begins(lineage[g], lineage[g])
      BY <1>3, BeginsItself
    <3> QED
      BY <2>1, <3>1 DEF Grows
  <2>3. ASSUME NEW m \in Node
        PROVE  LeaderData(m)'
    BY <1>1, <1>3, <2>1 DEF LeaderData
  <2>4. ASSUME NEW m \in Node
        PROVE  LineageOf(m)'
    <3> SUFFICES ASSUME NEW a \in Coming(m)', a.part.leader = m, a.members[m] = inc[m],
                        a.part.epoch \in Epoch, lineage[a.part.epoch] # <<>>
                 PROVE  rep'[m].role = "leader" /\ rep'[m].epoch = a.part.epoch
      BY <1>2, <2>1 DEF LineageOf, Epoch
    <3>1. rep[m].role = "leader" /\ rep[m].epoch = a.part.epoch
      BY <1>3, <1>4 DEF LineageOf
    <3>2. CASE m = n
      <4>1. Precedes(l, a)
        BY <1>4, <3>2
      <4>2. e <= a.part.epoch /\ a.part.epoch <= e
        BY <1>5, <3>1, <3>2, <4>1 DEF Precedes, e
      <4>3. l.part.epoch = a.part.epoch
        BY <1>1, <4>2 DEF Epoch, e
      <4> QED
        BY <1>11, <3>2, <4>1, <4>3, NodeAssumption DEF Precedes
    <3>3. CASE m # n
      BY <1>1, <3>1, <3>3
    <3> QED
      BY <3>2, <3>3
  <2> QED
    BY <1>2, <1>3, <2>1, <2>2, <2>3, <2>4, LineageIs
<1> QED
  BY <1>10, <1>11

\* Nothing is logged, and no node begins to lead.
LEMMA LineageKept ==
  ASSUME Lineage, lineage' = lineage, layout' = layout,
         \A m \in Node : \A a \in Coming(m)' : a \in Coming(m),
         \A m \in Node : \/ /\ inc'[m] = inc[m] /\ rep'[m].role = rep[m].role
                            /\ rep'[m].role = "leader" =>
                                 /\ rep'[m].epoch = rep[m].epoch /\ rep'[m].hist = rep[m].hist
                                 /\ rep'[m].dataEpoch = rep[m].dataEpoch
                         \/ /\ rep'[m].role # "leader"
                            /\ \A a \in Coming(m) : a.members[m] # inc'[m]
  PROVE  Lineage' /\ Grows
<1>1. /\ lineage \in [Epoch -> Seq(Entry)] /\ \A m \in Node : LeaderData(m) /\ LineageOf(m)
      /\ \A g \in Epoch : g > layout.part.epoch => lineage[g] = <<>>
  BY LineageIs
<1>2. \A m \in Node : LeaderData(m)'
  BY <1>1 DEF LeaderData
<1>3. \A m \in Node : LineageOf(m)'
  BY <1>1 DEF LineageOf, Epoch
<1>4. Grows
  BY <1>1, BeginsItself DEF Grows
<1> QED
  BY <1>1, <1>2, <1>3, <1>4, LineageIs

LEMMA LineageRestart ==
  ASSUME Types, TypeOK, Order, Lineage, NEW n \in Node, LeaseLost(n) \/ Crash(n)
  PROVE  Lineage' /\ Grows
<1>1. /\ SetReplica(n, NoReplica) /\ rep'[n] = NoReplica /\ inc'[n] = inc[n] + 1
      /\ pending'[n] = pending[n] \/ pending'[n] = <<layout>>
      /\ \A m \in Node : m # n => rep'[m] = rep[m] /\ inc'[m] = inc[m] /\ pending'[m] = pending[m]
      /\ layout' = layout
  BY RestartIs
<1>2. lineage' = lineage
  BY <1>1, NoReplicaType DEF SetReplica
<1>3. \A m \in Node : \A a \in Coming(m)' : a \in Coming(m)
  <2> SUFFICES ASSUME NEW m \in Node, NEW a \in Coming(m)'
               PROVE  a \in Coming(m)
    OBVIOUS
  <2>1. CASE pending'[m] = pending[m]
    BY <1>1, <2>1 DEF Coming
  <2>2. CASE pending'[m] = <<layout>>
    <3>1. Len(<<layout>>) = 1 /\ <<layout>>[1] = layout
      OBVIOUS
    <3> QED
      BY <1>1, <2>2, <3>1 DEF Coming
  <2> QED
    BY <1>1, <2>1, <2>2
<1>4. \A a \in Coming(n) : a.members[n] # inc'[n]
  <2> SUFFICES ASSUME NEW a \in Coming(n)
               PROVE  a.members[n] # inc'[n]
    OBVIOUS
  <2>1. a \in Known /\ a \in Lay
    BY ComingKnown, KnownLay
  <2>2. a.members[n] \in Nat /\ inc[n] \in Nat /\ a.members[n] <= inc[n]
    BY <2>1 DEF Lay, Types, Order
  <2> QED
    BY <1>1, <2>2
<1>5. rep'[n].role # "leader"
  BY <1>1, NoReplicaType
<1> QED
  BY <1>1, <1>2, <1>3, <1>4, <1>5, LineageKept

\* Answers to requests only change followers.
LEMMA LeadersKept ==
  ASSUME TypeOK, Calls, NEW n \in Node,
         ServeLog(n) \/ ApplyLog(n) \/ LoadSnapshot(n) \/ StartOver(n) \/ CallFails(n)
           \/ \E m \in Node : AskLog(n, m)
  PROVE  /\ \A m \in Node : m # n \/ rep[n].role = "leader" => rep'[m] = rep[m]
         /\ lineage' = lineage
<1>1. rep \in [Node -> Replica]
  BY DEF TypeOK
<1>2. call[n].stage # "none" => rep[n].role = "follower"
  BY DEF Calls
<1>3. CASE ServeLog(n) \/ CallFails(n) \/ \E m \in Node : AskLog(n, m)
  BY <1>3 DEF ServeLog, CallFails, AskLog, ghost
<1>4. CASE ApplyLog(n)
  BY <1>1, <1>2, <1>4 DEF ApplyLog, ghost
<1>5. CASE LoadSnapshot(n)
  BY <1>1, <1>2, <1>5 DEF LoadSnapshot, ghost
<1>6. CASE StartOver(n)
  BY <1>1, <1>2, <1>6 DEF StartOver, ghost
<1> QED
  BY <1>3, <1>4, <1>5, <1>6

LEMMA WriteKinds ==
  ASSUME NEW b \in BOOLEAN
  PROVE  /\ (IF b THEN <<"write", "checkpoint">> ELSE <<"write">>) \in Seq({"write", "checkpoint"})
         /\ <<"checkpoint">> \in Seq({"write", "checkpoint"})
<1>1. /\ <<"write", "checkpoint">> \in Seq({"write", "checkpoint"})
      /\ <<"write">> \in Seq({"write", "checkpoint"})
      /\ <<"checkpoint">> \in Seq({"write", "checkpoint"})
  OBVIOUS
<1> QED
  BY <1>1

LEMMA LineageStep ==
  ASSUME Types, TypeOK, Order, Leaders, Calls, Lineage, [Next]_vars
  PROVE  Lineage' /\ Grows
<1>1. ASSUME UNCHANGED <<layout, pending, inc, rep, lineage>>
      PROVE  Lineage' /\ Grows
  <2>1. \A m \in Node : \A a \in Coming(m)' : a \in Coming(m)
    BY <1>1 DEF Coming
  <2> QED
    BY <1>1, <2>1, LineageKept
<1>2. ASSUME NEW n \in Node, Write(n)
      PROVE  Lineage' /\ Grows
  <2>1. rep[n].role = "leader" /\ UNCHANGED <<layout, pending, view, inc>>
    BY <1>2 DEF Write, etcd
  <2>2. PICK kinds \in Seq({"write", "checkpoint"}) : Log(n, kinds)
    BY <1>2, WriteKinds DEF Write
  <2> QED
    BY <2>1, <2>2, LineageLog
<1>3. ASSUME NEW n \in Node, NEW m \in Node, AskSnapshot(n, m)
      PROVE  Lineage' /\ Grows
  <2>1. rep[m].role = "leader" /\ UNCHANGED <<layout, pending, view, inc>> /\ Log(m, <<"checkpoint">>)
    BY <1>3 DEF AskSnapshot, CanAsk, etcd
  <2> QED
    BY <2>1, WriteKinds, LineageLog
<1>4. ASSUME NEW n \in Node, ServeLog(n) \/ ApplyLog(n) \/ LoadSnapshot(n) \/ StartOver(n)
                               \/ CallFails(n) \/ \E m \in Node : AskLog(n, m)
      PROVE  Lineage' /\ Grows
  <2>1. ReplicaOnly(n)
    BY <1>4 DEF ReplicaOnly
  <2>2. UNCHANGED <<layout, pending, inc>>
    BY <2>1, ReplicaOnlyLayouts
  <2>3. \A m \in Node : \A a \in Coming(m)' : a \in Coming(m)
    BY <2>2 DEF Coming
  <2>4. \A m \in Node : /\ rep'[m].role = rep[m].role
                        /\ rep'[m].role = "leader" => rep'[m] = rep[m]
    BY <1>4, <2>1, RolesKept, LeadersKept
  <2>5. lineage' = lineage
    BY <1>4, LeadersKept
  <2> QED
    BY <2>2, <2>3, <2>4, <2>5, LineageKept
<1>5. ASSUME NEW n \in Node, NEW i \in 1..Len(pending[n]), ApplyLayout(n, i)
      PROVE  Lineage' /\ Grows
  BY <1>5, LineageApply
<1>6. ASSUME NEW n \in Node, LeaseLost(n) \/ Crash(n)
      PROVE  Lineage' /\ Grows
  BY <1>6, LineageRestart
<1>7. ASSUME layout' \in Lay, Precedes(layout, layout'),
             pending' = [n \in Node |-> Append(pending[n], layout')],
             UNCHANGED <<inc, rep, lineage>>
      PROVE  Lineage' /\ Grows
  <2>1. Grows
    BY <1>7, BeginsItself DEF Grows, Lineage
  <2> QED
    BY <1>7, <2>1, LineagePut
<1>8. CASE FinishRound
  <2>1. layout' \in Lay
    BY <1>8, OrderFinish DEF Types
  <2>2. UNCHANGED <<inc, rep, lineage>>
    BY <1>8 DEF FinishRound
  <2> QED
    BY <1>1, <1>7, <1>8, <2>1, <2>2, OrderFinish
<1>9. ASSUME NEW n \in Node, TransferLeader(n)
      PROVE  Lineage' /\ Grows
  <2>1. layout' \in Lay
    BY <1>9, OrderTransfer DEF Types
  <2>2. UNCHANGED <<inc, rep, lineage>>
    BY <1>9 DEF TransferLeader, ghost
  <2> QED
    BY <1>7, <1>9, <2>1, <2>2, OrderTransfer
<1>10. CASE \/ \E n \in Node : LeaseExpires(n) \/ Register(n) \/ PollStatus(n) \/ SetDrained(n)
            \/ BeginRound \/ AbandonRound \/ UNCHANGED vars
  BY <1>1, <1>10 DEF LeaseExpires, Register, PollStatus, SetDrained, BeginRound, AbandonRound,
                     etcd, ghost, vars
<1> QED
  BY <1>2, <1>3, <1>4, <1>5, <1>6, <1>8, <1>9, <1>10
    DEF Next, ReplicaStep, MemberStep, AdminStep

----------------------------------------------------------------------------
(* Requests: the types of replicas and calls, and how they fit together.   *)

Call == [stage : {"none", "checked", "entries", "snapshot", "gone"},
         to : Node \cup {NoNode}, epoch : 0..MaxEpoch, after : 0..MaxSeq,
         data : Seq(Epoch \X {"write", "checkpoint"})]

DataTypes == rep \in [Node -> Replica] /\ call \in [Node -> Call]

LEMMA TypeOKIs ==
  /\ TypeOK => DataTypes
  /\ Types' /\ Order' /\ DataTypes' => TypeOK'
<1>1. TypeOK => DataTypes
  BY DEF TypeOK, DataTypes, Call
<1>2. ASSUME Types', Order', DataTypes'
      PROVE  TypeOK'
  <2>1. (rep \in [Node -> Replica])'
    BY <1>2 DEF DataTypes
  <2>2. (call \in [Node -> [stage : {"none", "checked", "entries", "snapshot", "gone"},
                            to : Node \cup {NoNode}, epoch : 0..MaxEpoch, after : 0..MaxSeq,
                            data : Seq(Epoch \X {"write", "checkpoint"})]])'
    BY <1>2 DEF DataTypes, Call
  <2>3. \A n \in Node : inc'[n] \in Nat \ {0} /\ lease'[n] \in 0..inc'[n]
    <3>1. \A n \in Node : inc'[n] \in Nat /\ lease'[n] \in Nat
      BY <1>2 DEF Types
    <3>2. \A n \in Node : inc'[n] # 0 /\ lease'[n] <= inc'[n]
      BY <1>2 DEF Order
    <3> QED
      BY <3>1, <3>2
  <2>4. /\ (layout.version \in 2..MaxVersion /\ layout.part.epoch \in Epoch)'
        /\ (layout.part.leader \notin layout.part.followers \cup layout.part.joining)'
        /\ (layout.part.followers \cap layout.part.joining = {})'
    BY <1>2 DEF Order, Placement
  <2> QED
    BY <2>1, <2>2, <2>3, <2>4 DEF TypeOK
<1> QED
  BY <1>1, <1>2

CallsOf(n) ==
  /\ Len(rep[n].hist) <= MaxSeq
  /\ call[n].stage # "none" =>
       rep[n].role = "follower" /\ call[n].epoch \in Epoch /\ call[n].to \in Node
  /\ call[n].stage \in {"checked", "entries"} => call[n].after = Len(rep[n].hist)
  /\ call[n].stage = "checked" => call[n].after <= Len(lineage[call[n].epoch])
  /\ call[n].stage = "entries" => call[n].after + Len(call[n].data) <= MaxSeq
  /\ call[n].stage = "snapshot" => Len(call[n].data) <= MaxSeq

LEMMA CallsIs ==
  /\ Calls <=> \A n \in Node : CallsOf(n)
  /\ Calls' <=> \A n \in Node : CallsOf(n)'
<1>1. Calls <=> \A n \in Node : CallsOf(n)
  BY DEF Calls, CallsOf
<1>2. Calls' <=> \A n \in Node : CallsOf(n)'
  BY DEF Calls, CallsOf, Epoch
<1> QED
  BY <1>1, <1>2

\* A replica and its request stay as they are, or the request ends.
LEMMA CallsFrame ==
  ASSUME DataTypes, Lineage, Lineage', Grows, NEW m \in Node, CallsOf(m),
         \/ call'[m] = NoCall /\ Len(rep'[m].hist) <= MaxSeq
         \/ call'[m] = call[m] /\ rep'[m].role = rep[m].role /\ rep'[m].hist = rep[m].hist
         \/ call'[m] = call[m] /\ call[m].stage = "none" /\ Len(rep'[m].hist) <= MaxSeq
  PROVE  CallsOf(m)'
<1>1. CASE call'[m].stage = "none" /\ Len(rep'[m].hist) <= MaxSeq
  BY <1>1 DEF CallsOf
<1>2. CASE call'[m] = call[m] /\ rep'[m].role = rep[m].role /\ rep'[m].hist = rep[m].hist
  <2>1. ASSUME call[m].stage = "checked"
        PROVE  call[m].after <= Len(lineage'[call[m].epoch])
    <3>1. call[m].epoch \in Epoch /\ call[m].after <= Len(lineage[call[m].epoch])
      BY <2>1 DEF CallsOf
    <3>2. Len(lineage[call[m].epoch]) <= Len(lineage'[call[m].epoch])
      BY <3>1 DEF Grows, Begins
    <3>3. /\ Len(lineage[call[m].epoch]) \in Nat /\ Len(lineage'[call[m].epoch]) \in Nat
          /\ call[m].after \in Nat
      BY <3>1 DEF Lineage, DataTypes, Call, Epoch
    <3> QED
      BY <3>1, <3>2, <3>3
  <2> QED
    BY <1>2, <2>1 DEF CallsOf, Epoch
<1> QED
  BY <1>1, <1>2 DEF NoCall

LEMMA NoCallType == NoCall \in Call /\ NoCall.stage = "none"
<1>1. 0 \in 0..MaxEpoch /\ 0 \in 0..MaxSeq /\ <<>> \in Seq(Epoch \X {"write", "checkpoint"})
  BY ReplicationBounds
<1> QED
  BY <1>1 DEF NoCall, Call

\* Reconciling, and dropping the replica.
LEMMA CallsSet ==
  ASSUME DataTypes, Calls, Lineage, Lineage', Grows, NEW n \in Node, NEW q \in Replica,
         SetReplica(n, q), Len(q.hist) <= MaxSeq,
         q.role = "follower" /\ rep[n].role = "follower" => q.hist = rep[n].hist
  PROVE  DataTypes' /\ Calls'
<1>1. /\ rep' = [rep EXCEPT ![n] = q]
      /\ call' = [m \in Node |->
           CASE m = n /\ q.role # "follower" -> NoCall
             [] m # n /\ q.role = "none" /\ call[m].to = n /\ call[m].stage = "checked" -> NoCall
             [] OTHER -> call[m]]
  BY DEF SetReplica
<1>2. \A m \in Node : /\ call'[m] = NoCall \/ call'[m] = call[m]
                      /\ m = n /\ q.role # "follower" => call'[m] = NoCall
  BY <1>1
<1>3. DataTypes'
  <2>1. rep' \in [Node -> Replica]
    BY <1>1 DEF DataTypes
  <2>2. \A m \in Node : call'[m] \in Call
    BY <1>2, NoCallType DEF DataTypes
  <2>3. call' = [m \in Node |-> call'[m]]
    BY <1>1
  <2>4. call' \in [Node -> Call]
    BY <2>2, <2>3
  <2> QED
    BY <2>1, <2>4 DEF DataTypes, Replica, Call, Epoch
<1>4. rep'[n] = q /\ \A m \in Node : m # n => rep'[m] = rep[m]
  BY <1>1 DEF DataTypes
<1>5. ASSUME NEW m \in Node
      PROVE  CallsOf(m)'
  <2>1. CallsOf(m) /\ Len(rep[m].hist) <= MaxSeq
    BY CallsIs DEF CallsOf
  <2>2. CASE m # n
    BY <1>2, <1>4, <2>1, <2>2, CallsFrame
  <2>3. CASE m = n /\ call[n].stage = "none"
    BY <1>2, <1>4, <2>1, <2>3, CallsFrame
  <2>4. CASE m = n /\ call[n].stage # "none"
    <3>1. rep[n].role = "follower"
      BY <2>1, <2>4 DEF CallsOf
    <3> QED
      BY <1>2, <1>4, <2>1, <2>4, <3>1, CallsFrame
  <2> QED
    BY <2>2, <2>3, <2>4
<1> QED
  BY <1>3, <1>5, CallsIs

LEMMA HistIs ==
  ASSUME NEW r \in Replica
  PROVE  r.hist \in Seq(Entry) /\ Len(r.hist) \in Nat
         /\ \A h \in Seq(Entry) : [r EXCEPT !.hist = h] \in Replica
<1>1. r.hist \in Seq(Entry)
  BY DEF Replica, Entry
<1>2. \A h \in Seq(Entry) : [r EXCEPT !.hist = h] \in Replica
  BY DEF Replica, Entry
<1> QED
  BY <1>1, <1>2

LEMMA CallsLog ==
  ASSUME DataTypes, TypeOK, Leaders, Calls, Lineage, Lineage', Grows,
         NEW n \in Node, rep[n].role = "leader",
         NEW kinds \in Seq({"write", "checkpoint"}), Log(n, kinds)
  PROVE  /\ rep' \in [Node -> Replica] /\ Len(rep'[n].hist) <= MaxSeq
         /\ \A m \in Node : call'[m] = call[m] => CallsOf(m)'
<1> DEFINE h == rep'[n].hist
<1>1. /\ h \in Seq(Entry) /\ Len(h) <= MaxSeq /\ rep' = [rep EXCEPT ![n].hist = h]
      /\ \A m \in Node : m # n => rep'[m] = rep[m]
  BY LogIs
<1> HIDE DEF h
<1>2. rep' \in [Node -> Replica]
  <2>1. rep \in [Node -> Replica] /\ [rep[n] EXCEPT !.hist = h] \in Replica
    BY <1>1, HistIs DEF DataTypes
  <2>2. rep' = [rep EXCEPT ![n] = [rep[n] EXCEPT !.hist = h]]
    BY <1>1
  <2> QED
    BY <2>1, <2>2
<1>3. call[n].stage = "none"
  BY DEF Calls
<1>4. ASSUME NEW m \in Node, call'[m] = call[m]
      PROVE  CallsOf(m)'
  <2>1. CallsOf(m)
    BY CallsIs
  <2>2. CASE m = n
    BY <1>1, <1>3, <1>4, <2>1, <2>2, CallsFrame DEF h
  <2>3. CASE m # n
    BY <1>1, <1>4, <2>1, <2>3, CallsFrame
  <2> QED
    BY <2>2, <2>3
<1> QED
  BY <1>1, <1>2, <1>4 DEF h

\* A step that changes the request of n, and at most n's replica.
LEMMA CallsOne ==
  ASSUME DataTypes, Calls, Lineage, Lineage', Grows, NEW n \in Node,
         NEW c \in Call, call' = [call EXCEPT ![n] = c], NEW q \in Replica,
         rep' = [rep EXCEPT ![n] = q], CallsOf(n)'
  PROVE  DataTypes' /\ Calls'
<1>1. DataTypes'
  <2>1. rep' \in [Node -> Replica] /\ call' \in [Node -> Call]
    BY DEF DataTypes
  <2> QED
    BY <2>1 DEF DataTypes, Replica, Call, Epoch
<1>2. ASSUME NEW m \in Node, m # n
      PROVE  CallsOf(m)'
  <2>1. CallsOf(m) /\ call'[m] = call[m] /\ rep'[m] = rep[m]
    BY <1>2, CallsIs DEF DataTypes
  <2> QED
    BY <2>1, CallsFrame
<1> QED
  BY <1>1, <1>2, CallsIs

LEMMA CallsAskLog ==
  ASSUME TypeOK, Leaders, Calls, Lineage, Lineage', Grows,
         NEW n \in Node, NEW m \in Node, AskLog(n, m)
  PROVE  DataTypes' /\ Calls'
<1> DEFINE c == [stage |-> IF CanServe(rep[m], rep[n].dataEpoch, Seq0(rep[n])) THEN "checked" ELSE "gone",
                 to |-> m, epoch |-> rep[n].epoch, after |-> Seq0(rep[n]), data |-> <<>>]
<1>1. /\ call' = [call EXCEPT ![n] = c] /\ rep' = rep /\ lineage' = lineage
      /\ rep[n].role = "follower" /\ rep[m].role = "leader" /\ rep[m].epoch = rep[n].epoch
  BY DEF AskLog, CanAsk, ghost
<1>2. /\ rep \in [Node -> Replica] /\ call \in [Node -> Call] /\ DataTypes
      /\ rep[n] \in Replica /\ rep[m] \in Replica
  BY TypeOKIs DEF DataTypes
<1>3. rep[n].epoch \in Epoch /\ rep[n].epoch \in 0..MaxEpoch /\ rep[m].hist = lineage[rep[n].epoch]
  BY <1>1, <1>2 DEF Leaders, Lineage, Replica
<1>4. Len(rep[n].hist) \in 0..MaxSeq
  BY <1>2 DEF Calls, Replica
<1>5. c \in Call
  <2>1. <<>> \in Seq(Epoch \X {"write", "checkpoint"})
    OBVIOUS
  <2>2. c.stage \in {"none", "checked", "entries", "snapshot", "gone"}
    OBVIOUS
  <2> QED
    BY <1>3, <1>4, <2>1, <2>2 DEF Call, Seq0
<1>6. c.stage = "checked" => Len(rep[n].hist) <= Len(lineage[rep[n].epoch])
  BY <1>3 DEF CanServe, Seq0
<1>7. c.stage \in {"checked", "gone"} /\ c.to = m /\ c.epoch = rep[n].epoch /\ c.after = Len(rep[n].hist)
  BY DEF Seq0
<1> HIDE DEF c
<1>8. call'[n] = c
  BY <1>1, <1>2
<1>9. Len(rep[n].hist) <= MaxSeq
  BY DEF Calls
<1>10. CallsOf(n)'
  BY <1>1, <1>3, <1>6, <1>7, <1>8, <1>9 DEF CallsOf, Epoch
<1>11. rep' = [rep EXCEPT ![n] = rep[n]]
  BY <1>1, <1>2
<1> QED
  BY <1>1, <1>2, <1>5, <1>10, <1>11, CallsOne

\* What the handler reads.
LEMMA ServeIs ==
  ASSUME TypeOK, Calls, Lineage, NEW n \in Node, ServeLog(n), call'[n].stage = "entries"
  PROVE  LET c == call[n]
             r == rep[c.to]
         IN /\ call' = [call EXCEPT ![n] = [c EXCEPT !.stage = "entries", !.data = call'[n].data]]
            /\ c.epoch \in Epoch /\ c.to \in Node /\ call'[n].data \in Seq(Entry)
            /\ call'[n].after = c.after /\ call'[n].epoch = c.epoch /\ call'[n].to = c.to
            /\ c.after + Len(call'[n].data) <= Len(r.hist)
            /\ \A i \in 1..Len(call'[n].data) : call'[n].data[i] = r.hist[c.after + i]
            /\ PromptServe => r.role = "leader" /\ r.epoch = c.epoch
<1> DEFINE c == call[n]
           r == rep[c.to]
           leads == r.role = "leader" /\ r.epoch = c.epoch
           end == IF Len(r.hist) - c.after > Batch THEN c.after + Batch ELSE Len(r.hist)
           d == SubSeq(r.hist, c.after + 1, end)
<1>1. c.stage = "checked" /\ (PromptServe => leads)
  BY DEF ServeLog
<1>2. call \in [Node -> Call] /\ c \in Call /\ c.after \in Nat
  BY TypeOKIs DEF DataTypes, Call
<1>3. c.epoch \in Epoch /\ c.to \in Node /\ c.after <= Len(lineage[c.epoch])
  BY <1>1 DEF Calls
<1>4. /\ leads \/ c.after < Len(r.hist)
      /\ call' = [call EXCEPT ![n].stage = "entries", ![n].data = d]
  <2>1. \/ call' = [call EXCEPT ![n].stage = "gone"]
        \/ /\ leads \/ c.after < Len(r.hist)
           /\ call' = [call EXCEPT ![n].stage = "entries", ![n].data = d]
    BY DEF ServeLog, Seq0
  <2>2. call' # [call EXCEPT ![n].stage = "gone"]
    <3> SUFFICES ASSUME call' = [call EXCEPT ![n].stage = "gone"]
                 PROVE  FALSE
      OBVIOUS
    <3>1. call'[n].stage = "gone"
      BY <1>2 DEF Call
    <3> QED
      BY <3>1
  <2> QED
    BY <2>1, <2>2
<1>5. r \in Replica /\ r.hist \in Seq(Entry) /\ Len(r.hist) \in Nat
  <2>1. r \in Replica
    BY <1>3 DEF TypeOK
  <2> QED
    BY <2>1, HistIs
<1>6. leads => r.hist = lineage[c.epoch]
  BY <1>3 DEF Lineage
<1>7. c.after <= Len(r.hist)
  BY <1>2, <1>3, <1>4, <1>5, <1>6
<1>8. end \in Nat /\ c.after <= end /\ end <= Len(r.hist)
  BY <1>2, <1>5, <1>7, RetainAssumption
<1> HIDE DEF end, r, leads
<1>9. /\ d \in Seq(Entry) /\ Len(d) = end - c.after
      /\ \A i \in 1..Len(d) : d[i] = r.hist[c.after + i]
  <2> DEFINE a == c.after
             h == r.hist
  <2>1. a \in Nat /\ h \in Seq(Entry) /\ end \in Nat /\ a <= end /\ end <= Len(h)
    BY <1>2, <1>5, <1>8
  <2> HIDE DEF a, h
  <2>2. /\ SubSeq(h, a + 1, end) \in Seq(Entry) /\ Len(SubSeq(h, a + 1, end)) = end - a
        /\ \A i \in 1..(end - a) : SubSeq(h, a + 1, end)[i] = h[a + i]
    BY <2>1
  <2> QED
    BY <2>2 DEF a, h
<1> HIDE DEF d
<1>10. /\ call' = [call EXCEPT ![n] = [c EXCEPT !.stage = "entries", !.data = d]]
       /\ call'[n].data = d
       /\ call'[n].after = c.after /\ call'[n].epoch = c.epoch /\ call'[n].to = c.to
  BY <1>2, <1>4 DEF Call
<1>11. c.after + Len(d) <= Len(r.hist)
  BY <1>2, <1>5, <1>8, <1>9
<1> QED
  BY <1>1, <1>3, <1>9, <1>10, <1>11 DEF r, leads

LEMMA CallsServe ==
  ASSUME TypeOK, Calls, Lineage, Lineage', Grows, NEW n \in Node, ServeLog(n)
  PROVE  DataTypes' /\ Calls'
<1> DEFINE c == call[n]
<1>1. /\ c.stage = "checked" /\ rep' = rep /\ lineage' = lineage
  BY DEF ServeLog, ghost
<1>2. /\ rep \in [Node -> Replica] /\ call \in [Node -> Call] /\ DataTypes
      /\ rep[n] \in Replica /\ c \in Call
  BY TypeOKIs DEF DataTypes
<1>3. rep' = [rep EXCEPT ![n] = rep[n]]
  BY <1>1, <1>2
<1>4. CallsOf(n)
  BY CallsIs
<1>5. CASE call' = [call EXCEPT ![n].stage = "gone"]
  <2> DEFINE k == [c EXCEPT !.stage = "gone"]
  <2>1. /\ call' = [call EXCEPT ![n] = k] /\ k \in Call /\ k.stage = "gone"
        /\ k.to = c.to /\ k.epoch = c.epoch
    BY <1>2, <1>5 DEF Call
  <2> HIDE DEF k
  <2>2. call'[n] = k
    BY <1>2, <2>1
  <2>3. CallsOf(n)'
    BY <1>1, <1>4, <2>1, <2>2 DEF CallsOf, Epoch
  <2> QED
    BY <1>2, <1>3, <2>1, <2>3, CallsOne
<1>6. CASE call'[n].stage = "entries"
  <2> DEFINE d == call'[n].data
             k == [c EXCEPT !.stage = "entries", !.data = d]
  <2>1. /\ call' = [call EXCEPT ![n] = k] /\ c.to \in Node /\ d \in Seq(Entry)
        /\ c.after + Len(d) <= Len(rep[c.to].hist) /\ c.epoch \in Epoch
    BY <1>6, ServeIs
  <2> HIDE DEF d
  <2>2. k \in Call /\ k.stage = "entries" /\ k.to = c.to /\ k.epoch = c.epoch /\ k.after = c.after /\ k.data = d
    BY <1>2, <2>1 DEF Call, Entry
  <2> HIDE DEF k
  <2>3. call'[n] = k
    BY <1>2, <2>1
  <2>4. c.after + Len(d) <= MaxSeq
    <3>1. Len(rep[c.to].hist) <= MaxSeq /\ rep[c.to] \in Replica
      BY <1>2, <2>1 DEF Calls
    <3>2. Len(rep[c.to].hist) \in Nat /\ c.after \in Nat /\ Len(d) \in Nat
      BY <1>2, <2>1, <3>1, HistIs DEF Call
    <3> QED
      BY <2>1, <3>1, <3>2, ReplicationBounds
  <2>5. CallsOf(n)'
    BY <1>1, <1>4, <2>1, <2>2, <2>3, <2>4 DEF CallsOf, Epoch
  <2> QED
    BY <1>2, <1>3, <2>1, <2>2, <2>5, CallsOne
<1>7. call' = [call EXCEPT ![n].stage = "gone"] \/ call'[n].stage = "entries"
  <2>1. ASSUME NEW d, call' = [call EXCEPT ![n].stage = "entries", ![n].data = d]
        PROVE  call'[n].stage = "entries"
    BY <1>2, <2>1 DEF Call
  <2> QED
    BY <2>1 DEF ServeLog
<1> QED
  BY <1>5, <1>6, <1>7

LEMMA CallsAskSnapshot ==
  ASSUME TypeOK, Leaders, Calls, Lineage, Lineage', Grows,
         NEW n \in Node, NEW m \in Node, AskSnapshot(n, m)
  PROVE  DataTypes' /\ Calls'
<1> DEFINE h == rep'[m].hist
           c == [stage |-> "snapshot", to |-> m, epoch |-> rep[m].epoch, after |-> 0, data |-> h]
<1>1. /\ Log(m, <<"checkpoint">>) /\ call' = [call EXCEPT ![n] = c]
      /\ rep[n].role = "follower" /\ rep[m].role = "leader"
  BY DEF AskSnapshot, CanAsk
<1>2. DataTypes /\ call \in [Node -> Call]
  BY TypeOKIs DEF DataTypes
<1>3. /\ rep' \in [Node -> Replica] /\ Len(h) <= MaxSeq
      /\ \A k \in Node : call'[k] = call[k] => CallsOf(k)'
  BY <1>1, <1>2, WriteKinds, CallsLog
<1>4. /\ rep[m].epoch \in Epoch /\ h \in Seq(Entry)
      /\ \A k \in Node : k # m => rep'[k] = rep[k]
  BY <1>1, WriteKinds, LogIs
<1> HIDE DEF h
<1>5. c \in Call
  <2>1. rep[m].epoch \in 0..MaxEpoch /\ 0 \in 0..MaxSeq
    BY <1>4, ReplicationBounds DEF Epoch
  <2> QED
    BY <1>4, <2>1 DEF Call, Entry
<1>6. c.stage = "snapshot" /\ c.to = m /\ c.epoch = rep[m].epoch /\ c.data = h
  OBVIOUS
<1> HIDE DEF c
<1>7. call' \in [Node -> Call] /\ call'[n] = c /\ \A k \in Node : k # n => call'[k] = call[k]
  BY <1>1, <1>2, <1>5
<1>8. rep'[n] = rep[n] /\ Len(rep[n].hist) <= MaxSeq
  BY <1>1, <1>4 DEF Calls
<1>9. CallsOf(n)'
  BY <1>1, <1>3, <1>4, <1>6, <1>7, <1>8 DEF CallsOf, Epoch
<1>10. DataTypes'
  BY <1>3, <1>7 DEF DataTypes, Replica, Call, Epoch
<1> QED
  BY <1>3, <1>7, <1>9, <1>10, CallsIs

\* The request of n ends, and n's replica becomes q.
LEMMA CallsEnd ==
  ASSUME DataTypes, Calls, Lineage, Lineage', Grows, NEW n \in Node,
         call' = [call EXCEPT ![n] = NoCall], NEW q \in Replica, rep' = [rep EXCEPT ![n] = q],
         Len(q.hist) <= MaxSeq
  PROVE  DataTypes' /\ Calls'
<1>1. call'[n] = NoCall /\ rep'[n] = q
  BY DEF DataTypes
<1>2. CallsOf(n)'
  BY <1>1, CallsIs, CallsFrame
<1> QED
  BY <1>2, NoCallType, CallsOne

\* What an answer makes of a follower.
LEMMA AppliedIs ==
  ASSUME TypeOK, Calls, NEW n \in Node, ApplyLog(n)
  PROVE  LET c == call[n]
             q == rep'[n]
         IN /\ q \in Replica /\ rep' = [rep EXCEPT ![n] = q]
            /\ q.role = rep[n].role /\ q.synced = rep[n].synced /\ q.dataEpoch = c.epoch
            /\ q.hist = rep[n].hist \o c.data /\ Len(q.hist) <= MaxSeq
            /\ c.stage = "entries" /\ c.epoch \in Epoch /\ call' = [call EXCEPT ![n] = NoCall]
            /\ rep[n].role = "follower"
<1> DEFINE c == call[n]
           r == rep[n]
           h == r.hist \o c.data
           q == [r EXCEPT !.hist = h, !.dataEpoch = c.epoch]
<1>1. /\ c.stage = "entries" /\ call' = [call EXCEPT ![n] = NoCall]
      /\ rep' = [rep EXCEPT ![n].hist = h, ![n].dataEpoch = c.epoch]
  BY DEF ApplyLog
<1>2. rep \in [Node -> Replica] /\ c \in Call /\ r \in Replica
  BY TypeOKIs DEF DataTypes
<1>3. r.hist \in Seq(Entry) /\ c.data \in Seq(Entry) /\ c.epoch \in 0..MaxEpoch
  BY <1>2, HistIs DEF Call, Entry
<1>4. h \in Seq(Entry) /\ Len(h) = Len(r.hist) + Len(c.data)
  <2> DEFINE a == r.hist
             b == c.data
  <2>1. a \in Seq(Entry) /\ b \in Seq(Entry)
    BY <1>3
  <2> HIDE DEF a, b
  <2>2. a \o b \in Seq(Entry) /\ Len(a \o b) = Len(a) + Len(b)
    BY <2>1
  <2> QED
    BY <2>2 DEF a, b
<1>5. /\ c.after = Len(r.hist) /\ c.after + Len(c.data) <= MaxSeq /\ c.epoch \in Epoch
      /\ r.role = "follower"
  BY <1>1 DEF Calls
<1> HIDE DEF h, c
<1>6. Len(h) <= MaxSeq
  BY <1>4, <1>5
<1>7. rep' = [rep EXCEPT ![n] = q]
  BY <1>1, <1>2 DEF Replica
<1>8. /\ q \in Replica /\ q.role = r.role /\ q.synced = r.synced /\ q.dataEpoch = c.epoch /\ q.hist = h
  BY <1>2, <1>3, <1>4 DEF Replica, Entry
<1> HIDE DEF q
<1>9. rep'[n] = q
  BY <1>2, <1>7
<1> QED
  BY <1>1, <1>5, <1>6, <1>7, <1>8, <1>9 DEF h, c

LEMMA LoadedIs ==
  ASSUME TypeOK, Calls, NEW n \in Node, LoadSnapshot(n)
  PROVE  LET c == call[n]
             q == rep'[n]
         IN /\ q \in Replica /\ rep' = [rep EXCEPT ![n] = q]
            /\ q.role = rep[n].role /\ q.synced /\ q.dataEpoch = c.epoch
            /\ q.hist = c.data /\ Len(q.hist) <= MaxSeq
            /\ c.stage = "snapshot" /\ c.epoch \in Epoch /\ call' = [call EXCEPT ![n] = NoCall]
            /\ rep[n].role = "follower"
<1> DEFINE c == call[n]
           r == rep[n]
           q == [r EXCEPT !.hist = c.data, !.origin = Len(c.data), !.dataEpoch = c.epoch, !.synced = TRUE]
<1>1. /\ c.stage = "snapshot" /\ call' = [call EXCEPT ![n] = NoCall]
      /\ rep' = [rep EXCEPT ![n].hist = c.data, ![n].origin = Len(c.data),
                            ![n].dataEpoch = c.epoch, ![n].synced = TRUE]
  BY DEF LoadSnapshot
<1>2. rep \in [Node -> Replica] /\ c \in Call /\ r \in Replica
  BY TypeOKIs DEF DataTypes
<1>3. c.data \in Seq(Entry) /\ c.epoch \in 0..MaxEpoch /\ Len(c.data) \in Nat
  BY <1>2 DEF Call, Entry
<1>4. Len(c.data) <= MaxSeq /\ c.epoch \in Epoch /\ r.role = "follower"
  BY <1>1 DEF Calls
<1>5. Len(c.data) \in 0..MaxSeq
  BY <1>3, <1>4, ReplicationBounds
<1> HIDE DEF c
<1>6. rep' = [rep EXCEPT ![n] = q]
  BY <1>1, <1>2 DEF Replica
<1>7. q \in Replica /\ q.role = r.role /\ q.synced /\ q.dataEpoch = c.epoch /\ q.hist = c.data
  BY <1>2, <1>3, <1>5 DEF Replica, Entry
<1> HIDE DEF q
<1>8. rep'[n] = q
  BY <1>2, <1>6
<1> QED
  BY <1>1, <1>4, <1>6, <1>7, <1>8 DEF c

LEMMA CallsAnswer ==
  ASSUME TypeOK, Calls, Lineage, Lineage', Grows, NEW n \in Node,
         ApplyLog(n) \/ LoadSnapshot(n) \/ StartOver(n) \/ CallFails(n)
  PROVE  DataTypes' /\ Calls'
<1>1. DataTypes /\ rep \in [Node -> Replica] /\ Len(rep[n].hist) <= MaxSeq
  BY TypeOKIs DEF DataTypes, Calls
<1>2. CASE ApplyLog(n)
  <2> DEFINE q == rep'[n]
  <2>1. /\ q \in Replica /\ rep' = [rep EXCEPT ![n] = q] /\ Len(q.hist) <= MaxSeq
        /\ call' = [call EXCEPT ![n] = NoCall]
    BY <1>2, AppliedIs
  <2> HIDE DEF q
  <2> QED
    BY <1>1, <2>1, CallsEnd
<1>3. CASE LoadSnapshot(n)
  BY <1>1, <1>3, LoadedIs, CallsEnd
<1>4. CASE StartOver(n)
  <2> DEFINE q == resetLocked(rep[n])
  <2>1. q \in Replica /\ q.hist = <<>>
    BY <1>1, resetType
  <2>2. rep' = [rep EXCEPT ![n] = q] /\ call' = [call EXCEPT ![n] = NoCall]
    BY <1>4 DEF StartOver
  <2> HIDE DEF q
  <2>3. Len(q.hist) <= MaxSeq
    BY <2>1, ReplicationBounds
  <2> QED
    BY <1>1, <2>1, <2>2, <2>3, CallsEnd
<1>5. CASE CallFails(n)
  <2>1. call' = [call EXCEPT ![n] = NoCall] /\ rep' = [rep EXCEPT ![n] = rep[n]] /\ rep[n] \in Replica
    BY <1>1, <1>5 DEF CallFails
  <2> QED
    BY <1>1, <2>1, CallsEnd
<1> QED
  BY <1>2, <1>3, <1>4, <1>5

LEMMA CallsStep ==
  ASSUME Types, TypeOK, Order, Leaders, Calls, Lineage, Lineage', Grows, [Next]_vars
  PROVE  DataTypes' /\ Calls'
<1>1. DataTypes /\ rep \in [Node -> Replica]
  BY TypeOKIs DEF DataTypes
<1>2. ASSUME UNCHANGED <<rep, call>>
      PROVE  DataTypes' /\ Calls'
  <2>1. \A m \in Node : CallsOf(m)'
    BY <1>1, <1>2, CallsIs, CallsFrame
  <2> QED
    BY <1>1, <1>2, <2>1, CallsIs DEF DataTypes, Replica, Call, Epoch
<1>3. ASSUME NEW n \in Node, Write(n)
      PROVE  DataTypes' /\ Calls'
  <2>1. rep[n].role = "leader" /\ call' = call
    BY <1>3 DEF Write
  <2>2. PICK kinds \in Seq({"write", "checkpoint"}) : Log(n, kinds)
    BY <1>3, WriteKinds DEF Write
  <2>3. rep' \in [Node -> Replica] /\ \A m \in Node : CallsOf(m)'
    BY <1>1, <2>1, <2>2, CallsLog
  <2> QED
    BY <1>1, <2>1, <2>3, CallsIs DEF DataTypes, Replica, Call, Epoch
<1>4. ASSUME NEW n \in Node, NEW i \in 1..Len(pending[n]), ApplyLayout(n, i)
      PROVE  DataTypes' /\ Calls'
  <2> DEFINE l == pending[n][i]
             q == Reconciled(n, l)
  <2>1. /\ q \in Replica /\ SetReplica(n, q)
        /\ BecomesLeader(q, rep[n], l.part.epoch) \/ BecomesOther(q, rep[n])
    BY <1>4, ApplyIs
  <2> HIDE DEF q
  <2>2. q.hist = <<>> \/ q.hist = rep[n].hist
    BY <2>1, NoReplicaType DEF BecomesLeader, BecomesOther, SameData
  <2>3. Len(q.hist) <= MaxSeq
    <3>1. Len(rep[n].hist) <= MaxSeq /\ Len(<<>>) = 0
      BY DEF Calls
    <3> QED
      BY <2>2, <3>1, ReplicationBounds
  <2>4. q.role = "follower" /\ rep[n].role = "follower" => q.hist = rep[n].hist
    BY <2>1, NoReplicaType DEF BecomesLeader, BecomesOther, SameData
  <2> QED
    BY <1>1, <2>1, <2>3, <2>4, CallsSet
<1>5. ASSUME NEW n \in Node, LeaseLost(n) \/ Crash(n)
      PROVE  DataTypes' /\ Calls'
  <2>1. SetReplica(n, NoReplica)
    BY <1>5, RestartIs
  <2>2. Len(NoReplica.hist) <= MaxSeq
    BY NoReplicaType, ReplicationBounds
  <2> QED
    BY <1>1, <2>1, <2>2, NoReplicaType, CallsSet
<1>6. CASE \/ \E n \in Node : LeaseExpires(n) \/ Register(n) \/ PollStatus(n) \/ SetDrained(n)
                                \/ TransferLeader(n)
           \/ BeginRound \/ AbandonRound \/ FinishRound \/ UNCHANGED vars
  BY <1>2, <1>6 DEF LeaseExpires, Register, PollStatus, SetDrained, TransferLeader, BeginRound,
                    AbandonRound, FinishRound, vars
<1> QED
  BY <1>3, <1>4, <1>5, <1>6, CallsAskLog, CallsAskSnapshot, CallsServe, CallsAnswer
    DEF Next, ReplicaStep, MemberStep, AdminStep

----------------------------------------------------------------------------
(* The start.                                                              *)

\* A new cluster, taken apart: n leads, the nodes fs follow, log is the log.
Start(n, fs, log) ==
  /\ n \notin fs /\ Len(log) <= MaxSeq
  /\ layout \in Lay /\ layout.version = 2 /\ layout.part.epoch = 1 /\ layout.part.leader = n
  /\ layout.part.followers = fs /\ layout.part.joining = {}
  /\ \A m \in Node : /\ layout.members[m] = 1 /\ lease[m] = 1 /\ inc[m] = 1
                     /\ pending[m] = <<>> /\ view[m] = layout /\ call[m] = NoCall
                     /\ rep[m] \in Replica
                     /\ rep[m].role = "leader" <=> m = n
                     /\ rep[m].epoch = 1 \/ rep[m].role = "none"
                     /\ (rep[m].hist = log /\ rep[m].dataEpoch = 1 /\ rep[m].prevEpoch = -1)
                          \/ (m # n /\ rep[m] = NoReplica)
  /\ lease \in [Node -> Nat] /\ inc \in [Node -> Nat] /\ pending \in [Node -> Seq(Lay)]
  /\ view \in [Node -> Lay] /\ call \in [Node -> Call] /\ rep \in [Node -> Replica]
  /\ drained = {} /\ round = NoRound
  /\ lineage = [e \in Epoch |-> IF e = 1 THEN log ELSE <<>>]

LEMMA InitIs ==
  ASSUME Init
  PROVE  \E n \in Node, fs \in SUBSET Node, log \in Seq(Entry) : Start(n, fs, log)
<1> DEFINE Lay0(n, fs) == [version |-> 2, members |-> [m \in Node |-> 1],
                           part |-> [NoLayout.part EXCEPT !.epoch = 1, !.leader = n, !.followers = fs]]
           log  == [i \in 1..(RF - 1) |-> <<1, "checkpoint">>]
           held == [NewPartition EXCEPT !.epoch = 1, !.dataEpoch = 1, !.synced = TRUE, !.hist = log]
           At(n, fs, o) ==
             /\ n \notin fs /\ Cardinality(fs) = RF - 1
             /\ layout = Lay0(n, fs)
             /\ lease = [m \in Node |-> 1] /\ drained = {}
             /\ inc = [m \in Node |-> 1] /\ joined = [m \in Node |-> TRUE]
             /\ pending = [m \in Node |-> <<>>] /\ view = [m \in Node |-> Lay0(n, fs)]
             /\ rep = [m \in Node |-> CASE m = n -> [held EXCEPT !.role = "leader"]
                                        [] m \in fs -> [held EXCEPT !.origin = o[m]]
                                        [] OTHER -> NoReplica]
             /\ call = [m \in Node |-> NoCall] /\ round = NoRound
             /\ lineage = [e \in Epoch |-> IF e = 1 THEN log ELSE <<>>] /\ handed = {}
             /\ faults = 0 /\ requests = 0
<1>1. \E n \in Node, fs \in SUBSET Node : \E o \in Injection(fs, 1..(RF - 1)) : At(n, fs, o)
  BY Zenon DEF Init
<1> HIDE DEF At
<1>2a. PICK n \in Node, fs \in SUBSET Node : \E o \in Injection(fs, 1..(RF - 1)) : At(n, fs, o)
  BY <1>1
<1>2b. PICK o \in Injection(fs, 1..(RF - 1)) : At(n, fs, o)
  BY <1>2a
<1> DEFINE start == Lay0(n, fs)
<1>2. /\ n \notin fs
      /\ layout = start
      /\ lease = [m \in Node |-> 1] /\ drained = {}
      /\ inc = [m \in Node |-> 1]
      /\ pending = [m \in Node |-> <<>>] /\ view = [m \in Node |-> start]
      /\ rep = [m \in Node |-> CASE m = n -> [held EXCEPT !.role = "leader"]
                                 [] m \in fs -> [held EXCEPT !.origin = o[m]]
                                 [] OTHER -> NoReplica]
      /\ call = [m \in Node |-> NoCall] /\ round = NoRound
      /\ lineage = [e \in Epoch |-> IF e = 1 THEN log ELSE <<>>]
  BY <1>2b DEF At
<1>3. \A m \in fs : o[m] \in 0..MaxSeq
  BY RFAssumption, ReplicationBounds DEF Injection
<1>4. 1 \in Epoch /\ 1 \in 0..MaxEpoch
  BY ReplicationBounds DEF Epoch
<1>5. log \in Seq(Entry) /\ Len(log) <= MaxSeq
  <2>1. RF - 1 \in Nat /\ RF - 1 <= MaxSeq
    BY RFAssumption, ReplicationBounds
  <2>2. <<1, "checkpoint">> \in Entry
    BY <1>4 DEF Entry
  <2> QED
    BY <2>1, <2>2
<1>6. /\ start \in Lay /\ start.version = 2 /\ start.part.epoch = 1 /\ start.part.leader = n
      /\ start.part.followers = fs /\ start.part.joining = {}
      /\ \A m \in Node : start.members[m] = 1
  <2> DEFINE p == [NoLayout.part EXCEPT !.epoch = 1, !.leader = n, !.followers = fs]
  <2>1. NoLayout.part \in Part /\ NoLayout.part.joining = {}
    BY NoLayoutFirst DEF Lay, NoLayout
  <2>2. p \in Part /\ p.epoch = 1 /\ p.leader = n /\ p.followers = fs /\ p.joining = {}
    BY <2>1 DEF Part
  <2> HIDE DEF p
  <2>3. [m \in Node |-> 1] \in [Node -> Nat]
    OBVIOUS
  <2> QED
    BY <2>2, <2>3 DEF Lay, p
<1> HIDE DEF start, log
<1>7. /\ held \in Replica /\ held.role = "follower" /\ held.epoch = 1 /\ held.dataEpoch = 1
      /\ held.hist = log /\ held.prevEpoch = -1
  <2>1. NewPartition \in Replica /\ NewPartition.role = "follower" /\ NewPartition.prevEpoch = -1
    BY NoReplicaType DEF NewPartition, NoReplica
  <2> QED
    BY <1>4, <1>5, <2>1 DEF Replica, Entry
<1> HIDE DEF held
<1>8. ASSUME NEW m \in Node
      PROVE  /\ rep[m] \in Replica /\ (rep[m].role = "leader" <=> m = n)
             /\ rep[m].epoch = 1 \/ rep[m].role = "none"
             /\ (rep[m].hist = log /\ rep[m].dataEpoch = 1 /\ rep[m].prevEpoch = -1)
                  \/ (m # n /\ rep[m] = NoReplica)
  <2>1. CASE m = n
    <3>1. rep[m] = [held EXCEPT !.role = "leader"]
      BY <1>2, <2>1
    <3> QED
      BY <1>7, <2>1, <3>1 DEF Replica
  <2>2. CASE m \in fs
    <3>1. rep[m] = [held EXCEPT !.origin = o[m]] /\ m # n
      BY <1>2, <2>2
    <3> QED
      BY <1>3, <1>7, <2>2, <3>1 DEF Replica
  <2>3. CASE m # n /\ m \notin fs
    <3>1. rep[m] = NoReplica
      BY <1>2, <2>3
    <3> QED
      BY <2>3, <3>1, NoReplicaType
  <2> QED
    BY <2>1, <2>2, <2>3
<1>9. /\ lease \in [Node -> Nat] /\ inc \in [Node -> Nat] /\ pending \in [Node -> Seq(Lay)]
      /\ view \in [Node -> Lay] /\ call \in [Node -> Call]
  BY <1>2, <1>6, NoCallType
<1>10. rep \in [Node -> Replica]
  <2>1. rep = [m \in Node |-> rep[m]]
    BY <1>2
  <2> QED
    BY <1>8, <2>1
<1>11. layout = start /\ drained = {} /\ round = NoRound /\ n \notin fs
       /\ lineage = [e \in Epoch |-> IF e = 1 THEN log ELSE <<>>]
  BY <1>2
<1>12. \A m \in Node : /\ layout.members[m] = 1 /\ lease[m] = 1 /\ inc[m] = 1
                       /\ pending[m] = <<>> /\ view[m] = layout /\ call[m] = NoCall
  BY <1>2, <1>6
<1>13. Start(n, fs, log)
  BY <1>5, <1>6, <1>8, <1>9, <1>10, <1>11, <1>12 DEF Start
<1> QED
  BY <1>5, <1>13

Inv == Types /\ TypeOK /\ Order /\ Leaders /\ Calls /\ Lineage

LEMMA InvInit ==
  ASSUME Init
  PROVE  Inv
<1>0. PICK n \in Node, fs \in SUBSET Node, log \in Seq(Entry) : Start(n, fs, log)
  BY InitIs
<1>1. /\ n \notin fs /\ Len(log) <= MaxSeq
      /\ layout \in Lay /\ layout.version = 2 /\ layout.part.epoch = 1 /\ layout.part.leader = n
      /\ layout.part.followers = fs /\ layout.part.joining = {}
      /\ \A m \in Node : /\ layout.members[m] = 1 /\ lease[m] = 1 /\ inc[m] = 1
                         /\ pending[m] = <<>> /\ view[m] = layout /\ call[m] = NoCall
                         /\ rep[m].role = "leader" <=> m = n
                         /\ rep[m].epoch = 1 \/ rep[m].role = "none"
                         /\ (rep[m].hist = log /\ rep[m].dataEpoch = 1) \/ (m # n /\ rep[m] = NoReplica)
      /\ lease \in [Node -> Nat] /\ inc \in [Node -> Nat] /\ pending \in [Node -> Seq(Lay)]
      /\ view \in [Node -> Lay] /\ call \in [Node -> Call] /\ rep \in [Node -> Replica]
      /\ drained = {} /\ round = NoRound
      /\ lineage = [e \in Epoch |-> IF e = 1 THEN log ELSE <<>>]
  BY <1>0 DEF Start
<1>2. Types
  BY <1>1, NoRoundIs DEF Types
<1>3. \A m \in Node : Len(pending[m]) = 0 /\ \A i \in 1..Len(pending[m]) : FALSE
  BY <1>1
<1>4. \A a \in Known : a = layout
  BY <1>1, <1>3, KnownIs
<1>5. 1 \in Epoch /\ 2 \in 2..MaxVersion
  BY ReplicationBounds DEF Epoch
<1>6. Placement(layout)
  BY <1>1 DEF Placement, Holders
<1>7. OrderAll
  <2>1. Precedes(layout, layout) /\ SameLeader(layout, layout)
    BY <1>1, PrecedesItself DEF SameLeader
  <2>2. \A m \in Node : layout.members[m] <= inc[m]
    BY <1>1
  <2> QED
    BY <1>1, <1>4, <1>5, <1>6, <2>1, <2>2 DEF OrderAll
<1>8. \A m \in Node : OrderOf(m)
  BY <1>1, <1>3, NoRoundIs DEF OrderOf
<1>9. Order
  BY <1>7, <1>8, OrderIs
<1>10. Leaders
  <2>1. \A m \in Node : Leads(m) <=> m = n
    BY <1>1 DEF Leads
  <2> QED
    BY <1>1, <1>5, <2>1 DEF Leaders
<1>11. TypeOK
  <2>1. \A m \in Node : inc[m] \in Nat \ {0} /\ lease[m] \in 0..inc[m]
    BY <1>1
  <2> QED
    BY <1>1, <1>5, <2>1 DEF TypeOK, Call
<1>12. Calls
  <2>1. \A m \in Node : rep[m].hist = log \/ rep[m].hist = <<>>
    BY <1>1, NoReplicaType
  <2>2. Len(<<>>) <= MaxSeq
    BY ReplicationBounds
  <2>3. \A m \in Node : Len(rep[m].hist) <= MaxSeq /\ call[m].stage = "none"
    BY <1>1, <2>1, <2>2, NoCallType
  <2>4. \A m \in Node : CallsOf(m)
    BY <2>3 DEF CallsOf
  <2> QED
    BY <2>4, CallsIs
<1>13. Lineage
  <2>1. lineage \in [Epoch -> Seq(Entry)] /\ lineage[1] = log
    BY <1>1, <1>5
  <2>2. \A e \in Epoch : e > layout.part.epoch => lineage[e] = <<>>
    BY <1>1 DEF Epoch
  <2>3. \A m \in Node : LeaderData(m)
    BY <1>1, <2>1 DEF LeaderData
  <2>4. \A m \in Node : \A a \in Coming(m) : a = layout
    BY <1>3 DEF Coming
  <2>5. \A m \in Node : LineageOf(m)
    BY <1>1, <2>4 DEF LineageOf
  <2> QED
    BY <2>1, <2>2, <2>3, <2>5, LineageIs
<1> QED
  BY <1>2, <1>9, <1>10, <1>11, <1>12, <1>13 DEF Inv

LEMMA InvStep ==
  ASSUME Inv, [Next]_vars
  PROVE  Inv' /\ Grows
<1>1. Types' /\ Order'
  BY LayoutStep DEF Inv
<1>2. Leaders'
  BY LeadersStep DEF Inv
<1>3. Lineage' /\ Grows
  BY LineageStep DEF Inv
<1>4. DataTypes' /\ Calls'
  BY <1>3, CallsStep DEF Inv
<1>5. TypeOK'
  BY <1>1, <1>4, TypeOKIs
<1> QED
  BY <1>1, <1>2, <1>3, <1>4, <1>5 DEF Inv

\* The inductive invariant holds: every layout that is on its way comes before
\* the latest one, a node leads exactly while the layout it applied last says
\* so of its present incarnation (node.go, reconcile), and what it has is what
\* was logged in its epoch (partition.go, write, LeadFresh and Promote).
THEOREM InvHolds == Spec => []Inv
<1>1. Init => Inv
  BY InvInit
<1>2. Inv /\ [Next]_vars => Inv'
  BY InvStep
<1> QED
  BY <1>1, <1>2, PTL DEF Spec

\* The fields of replicas, requests, leases and the layout keep their types: a
\* follower never asks for more than the log holds, and the planner never
\* gives a node two roles (planner.go).
THEOREM TypeCorrect == Spec => []TypeOK
<1>1. Inv => TypeOK
  BY DEF Inv
<1> QED
  BY <1>1, InvHolds, PTL

\* Two nodes never lead the partition in the same epoch: every layout the
\* planner writes keeps the epoch's leader, or starts a new epoch
\* (planner.go, lead), and a node leads only while the layout it applied names
\* its present incarnation (node.go, reconcile).
THEOREM EpochsHaveOneLeader == Spec => []OneLeaderPerEpoch
<1>1. Inv => OneLeaderPerEpoch
  BY OneLeader DEF Inv
<1> QED
  BY <1>1, InvHolds, PTL

----------------------------------------------------------------------------
(* Synced data is a beginning of its epoch's log.                          *)

LEMMA SyncedGrows ==
  ASSUME NEW L \in [Epoch -> Seq(Entry)], NEW K \in [Epoch -> Seq(Entry)],
         \A e \in Epoch : Begins(L[e], K[e]), NEW r \in Replica
  PROVE  /\ Synced(r, L) => Synced(r, K)
         /\ Promoted(r, L) => Promoted(r, K)
<1>1. \A e \in Epoch : L[e] \in Seq(Entry) /\ K[e] \in Seq(Entry)
  OBVIOUS
<1>2. Synced(r, L) => Synced(r, K)
  <2> SUFFICES ASSUME r.synced, r.dataEpoch \in Epoch, Begins(r.hist, L[r.dataEpoch])
               PROVE  Begins(r.hist, K[r.dataEpoch])
    BY DEF Synced
  <2>1. r.hist \in Seq(Entry)
    BY HistIs
  <2> QED
    BY <1>1, <2>1, BeginsAll
<1>3. Promoted(r, L) => Promoted(r, K)
  <2> SUFFICES ASSUME r.role = "leader", r.prevEpoch >= 0, Promoted(r, L)
               PROVE  Promoted(r, K)
    BY DEF Promoted
  <2> DEFINE e == r.prevEpoch
             k == r.promotedSeq
  <2>1. /\ e \in Epoch /\ k <= Len(r.hist) /\ k <= Len(L[e])
        /\ \A i \in 1..k : r.hist[i] = L[e][i]
    BY DEF Promoted
  <2>2. k \in Nat
    BY DEF Replica
  <2>3. Len(L[e]) \in Nat /\ Len(K[e]) \in Nat
    BY <1>1, <2>1
  <2>4. Len(L[e]) <= Len(K[e]) /\ \A i \in 1..Len(L[e]) : L[e][i] = K[e][i]
    BY <2>1 DEF Begins
  <2>5. k <= Len(K[e]) /\ \A i \in 1..k : r.hist[i] = K[e][i]
    <3> HIDE DEF k, e
    <3>1. k <= Len(K[e])
      BY <2>1, <2>2, <2>3, <2>4
    <3>2. \A i \in 1..k : i \in 1..Len(L[e])
      BY <2>1, <2>2, <2>3
    <3> QED
      BY <2>1, <2>4, <3>1, <3>2
  <2> QED
    BY <2>1, <2>5 DEF Promoted
<1> QED
  BY <1>2, <1>3

LEMMA AnswerGrows ==
  ASSUME NEW L \in [Epoch -> Seq(Entry)], NEW K \in [Epoch -> Seq(Entry)],
         \A e \in Epoch : Begins(L[e], K[e]), NEW r \in Replica, NEW c \in Call,
         c.stage # "none" => c.epoch \in Epoch, Answer(r, c, L)
  PROVE  Answer(r, c, K)
<1>1. r.hist \in Seq(Entry) /\ c.data \in Seq(Entry)
  BY HistIs DEF Call, Entry
<1>2. c.stage # "none" => /\ L[c.epoch] \in Seq(Entry) /\ K[c.epoch] \in Seq(Entry)
                          /\ Begins(L[c.epoch], K[c.epoch])
  OBVIOUS
<1>3. c.stage = "checked" => Begins(r.hist, K[c.epoch])
  BY <1>1, <1>2, BeginsAll DEF Answer
<1>4. c.stage = "entries" => Begins(r.hist \o c.data, K[c.epoch])
  <2> DEFINE h == r.hist \o c.data
  <2>1. h \in Seq(Entry)
    BY <1>1, BeginsMore
  <2> HIDE DEF h
  <2>2. c.stage = "entries" => Begins(h, L[c.epoch])
    BY DEF Answer, h
  <2>3. c.stage = "entries" => Begins(h, K[c.epoch])
    BY <1>2, <2>1, <2>2, BeginsAll
  <2> QED
    BY <2>3 DEF h
<1>5. c.stage = "snapshot" => Begins(c.data, K[c.epoch])
  BY <1>1, <1>2, BeginsAll DEF Answer
<1> QED
  BY <1>3, <1>4, <1>5 DEF Answer

LEMMA AnswerNone ==
  ASSUME NEW r, NEW c, c.stage \in {"none", "gone"}, NEW L
  PROVE  Answer(r, c, L)
  BY DEF Answer

LEMMA AnswerSame ==
  ASSUME NEW r, NEW q, q.hist = r.hist, NEW c, NEW L, Answer(r, c, L)
  PROVE  Answer(q, c, L)
  BY DEF Answer

\* Histories as the steps below use it.
Agrees(n) == /\ Synced(rep[n], lineage) /\ Promoted(rep[n], lineage)
             /\ Answer(rep[n], call[n], lineage)

AgreesNext(n) == /\ Synced(rep'[n], lineage') /\ Promoted(rep'[n], lineage')
                 /\ Answer(rep'[n], call'[n], lineage')

LEMMA HistoriesIs ==
  /\ Histories <=> \A n \in Node : Agrees(n)
  /\ (\A n \in Node : AgreesNext(n)) => Histories'
<1>1. Histories <=> \A n \in Node : Agrees(n)
  BY DEF Histories, Agrees
<1>2. (\A n \in Node : AgreesNext(n)) => Histories'
  BY DEF Histories, AgreesNext, Synced, Promoted, Answer, Begins, Epoch
<1> QED
  BY <1>1, <1>2

LEMMA AgreesFrame ==
  ASSUME Inv, Inv', Grows, NEW m \in Node, Agrees(m), rep'[m] = rep[m],
         call'[m] = call[m] \/ call'[m].stage \in {"none", "gone"}
  PROVE  AgreesNext(m)
<1>1. /\ lineage \in [Epoch -> Seq(Entry)] /\ lineage' \in [Epoch -> Seq(Entry)]
      /\ \A e \in Epoch : Begins(lineage[e], lineage'[e])
  BY LineageIs DEF Inv, Grows
<1>2. rep[m] \in Replica /\ call[m] \in Call
  BY TypeOKIs DEF Inv, DataTypes
<1>3. call[m].stage # "none" => call[m].epoch \in Epoch
  BY DEF Inv, Calls
<1>4. Synced(rep'[m], lineage') /\ Promoted(rep'[m], lineage')
  BY <1>1, <1>2, SyncedGrows DEF Agrees
<1>5. Answer(rep'[m], call'[m], lineage')
  <2>1. CASE call'[m] = call[m]
    <3>1. Answer(rep[m], call[m], lineage)
      BY DEF Agrees
    <3>2. Answer(rep[m], call[m], lineage')
      BY <1>1, <1>2, <1>3, <3>1, AnswerGrows
    <3> QED
      BY <2>1, <3>2
  <2>2. CASE call'[m].stage \in {"none", "gone"}
    BY <2>2, AnswerNone
  <2> QED
    BY <2>1, <2>2
<1> QED
  BY <1>4, <1>5 DEF AgreesNext

\* A leader's history is its epoch's log, before and after it logs.
LEMMA AgreesLog ==
  ASSUME Inv, Inv', Grows, NEW n \in Node, rep[n].role = "leader", Agrees(n),
         NEW kinds \in Seq({"write", "checkpoint"}), Log(n, kinds)
  PROVE  /\ Synced(rep'[n], lineage') /\ Promoted(rep'[n], lineage')
         /\ call[n].stage = "none" /\ \A m \in Node : m # n => rep'[m] = rep[m]
<1> DEFINE e == rep[n].epoch
           h == rep'[n].hist
<1>1. /\ e \in Epoch /\ h \in Seq(Entry) /\ Begins(rep[n].hist, h)
      /\ rep'[n] = [rep[n] EXCEPT !.hist = h] /\ \A m \in Node : m # n => rep'[m] = rep[m]
      /\ lineage'[e] = h
  BY LogIs DEF Inv
<1>2. rep[n] \in Replica /\ rep[n].dataEpoch = e /\ call[n].stage = "none"
  BY DEF Inv, TypeOK, Lineage, Calls
<1>3. /\ rep'[n].dataEpoch = e /\ rep'[n].role = "leader" /\ rep'[n].prevEpoch = rep[n].prevEpoch
      /\ rep'[n].promotedSeq = rep[n].promotedSeq
  BY <1>1, <1>2 DEF Replica
<1> HIDE DEF e, h
<1>4. Synced(rep'[n], lineage')
  BY <1>1, <1>3, BeginsItself DEF Synced, h
<1>5. Promoted(rep'[n], lineage')
  <2>1. Promoted(rep[n], lineage')
    <3>1. /\ lineage \in [Epoch -> Seq(Entry)] /\ lineage' \in [Epoch -> Seq(Entry)]
          /\ \A g \in Epoch : Begins(lineage[g], lineage'[g])
      BY LineageIs DEF Inv, Grows
    <3> QED
      BY <1>2, <3>1, SyncedGrows DEF Agrees
  <2>2. rep[n].promotedSeq \in Nat /\ Len(rep[n].hist) \in Nat /\ Len(h) \in Nat
    BY <1>1, <1>2, HistIs DEF Replica
  <2>3. Len(rep[n].hist) <= Len(h) /\ \A i \in 1..Len(rep[n].hist) : rep[n].hist[i] = h[i]
    BY <1>1 DEF Begins
  <2>4. ASSUME rep[n].prevEpoch >= 0
        PROVE  /\ rep[n].prevEpoch \in Epoch /\ rep[n].promotedSeq <= Len(h)
               /\ rep[n].promotedSeq <= Len(lineage'[rep[n].prevEpoch])
               /\ \A i \in 1..rep[n].promotedSeq : h[i] = lineage'[rep[n].prevEpoch][i]
    <3>1. /\ rep[n].prevEpoch \in Epoch /\ rep[n].promotedSeq <= Len(rep[n].hist)
          /\ rep[n].promotedSeq <= Len(lineage'[rep[n].prevEpoch])
          /\ \A i \in 1..rep[n].promotedSeq : rep[n].hist[i] = lineage'[rep[n].prevEpoch][i]
      BY <2>1, <2>4 DEF Promoted
    <3>2. \A i \in 1..rep[n].promotedSeq : i \in 1..Len(rep[n].hist)
      BY <2>2, <3>1
    <3>3. rep[n].promotedSeq <= Len(h)
      BY <2>2, <2>3, <3>1
    <3> QED
      BY <2>3, <3>1, <3>2, <3>3
  <2> QED
    BY <1>3, <2>4 DEF Promoted, h
<1> QED
  BY <1>1, <1>2, <1>4, <1>5

LEMMA AgreesWrite ==
  ASSUME Inv, Inv', Grows, Histories, NEW n \in Node, Write(n)
  PROVE  Histories'
<1>1. rep[n].role = "leader" /\ call' = call
  BY DEF Write
<1>2. PICK kinds \in Seq({"write", "checkpoint"}) : Log(n, kinds)
  BY WriteKinds DEF Write
<1>3. \A m \in Node : Agrees(m)
  BY HistoriesIs
<1>4. /\ Synced(rep'[n], lineage') /\ Promoted(rep'[n], lineage')
      /\ call[n].stage = "none" /\ \A m \in Node : m # n => rep'[m] = rep[m]
  BY <1>1, <1>2, <1>3, AgreesLog
<1>5. AgreesNext(n)
  BY <1>1, <1>4, AnswerNone DEF AgreesNext
<1>6. \A m \in Node : m # n => AgreesNext(m)
  BY <1>1, <1>3, <1>4, AgreesFrame
<1> QED
  BY <1>5, <1>6, HistoriesIs

LEMMA AgreesAskSnapshot ==
  ASSUME Inv, Inv', Grows, Histories, NEW n \in Node, NEW m \in Node, AskSnapshot(n, m)
  PROVE  Histories'
<1> DEFINE c == [stage |-> "snapshot", to |-> m, epoch |-> rep[m].epoch, after |-> 0,
                 data |-> rep'[m].hist]
<1>1. /\ Log(m, <<"checkpoint">>) /\ call' = [call EXCEPT ![n] = c]
      /\ rep[n].role = "follower" /\ rep[m].role = "leader" /\ n # m
  BY DEF AskSnapshot, CanAsk
<1>2. \A k \in Node : Agrees(k)
  BY HistoriesIs
<1>3. /\ Synced(rep'[m], lineage') /\ Promoted(rep'[m], lineage')
      /\ call[m].stage = "none" /\ \A k \in Node : k # m => rep'[k] = rep[k]
  BY <1>1, <1>2, WriteKinds, AgreesLog
<1>4. /\ rep[m].epoch \in Epoch /\ rep'[m].hist \in Seq(Entry)
      /\ lineage'[rep[m].epoch] = rep'[m].hist
  BY <1>1, WriteKinds, LogIs DEF Inv
<1>5. call \in [Node -> Call]
  BY TypeOKIs DEF Inv, DataTypes
<1>6. call'[n] = c /\ \A k \in Node : k # n => call'[k] = call[k]
  BY <1>1, <1>5
<1>7. AgreesNext(m)
  BY <1>1, <1>3, <1>6, AnswerNone DEF AgreesNext
<1>8. \A k \in Node : k # m /\ k # n => AgreesNext(k)
  BY <1>2, <1>3, <1>6, AgreesFrame
<1>9. AgreesNext(n)
  <2>1. /\ lineage \in [Epoch -> Seq(Entry)] /\ lineage' \in [Epoch -> Seq(Entry)]
        /\ rep[n] \in Replica /\ \A g \in Epoch : Begins(lineage[g], lineage'[g])
    BY LineageIs DEF Inv, Grows, TypeOK
  <2>2. Synced(rep[n], lineage') /\ Promoted(rep[n], lineage')
    BY <1>2, <2>1, SyncedGrows DEF Agrees
  <2>3. Begins(rep'[m].hist, rep'[m].hist)
    BY <1>4, BeginsItself
  <2>4. Answer(rep'[n], call'[n], lineage')
    BY <1>4, <1>6, <2>3 DEF Answer
  <2> QED
    BY <1>1, <1>3, <2>2, <2>4 DEF AgreesNext
<1> QED
  BY <1>7, <1>8, <1>9, HistoriesIs

\* A position that the leader accepts is one in its own history.
LEMMA AcceptedPosition ==
  ASSUME Inv, Histories, NEW n \in Node, NEW m \in Node, rep[n].synced, rep[m].role = "leader",
         CanServe(rep[m], rep[n].dataEpoch, Seq0(rep[n]))
  PROVE  Begins(rep[n].hist, lineage[rep[m].epoch])
<1> DEFINE r == rep[n]
           s == rep[m]
<1>1. Agrees(n) /\ Agrees(m)
  BY HistoriesIs
<1>2. r \in Replica /\ s \in Replica /\ lineage \in [Epoch -> Seq(Entry)]
  BY DEF Inv, TypeOK, Lineage
<1>3. s.epoch \in Epoch /\ s.hist = lineage[s.epoch]
  BY DEF Inv, Leaders, Lineage
<1>4. r.dataEpoch \in Epoch /\ Begins(r.hist, lineage[r.dataEpoch])
  BY <1>1 DEF Agrees, Synced
<1>5. CASE r.dataEpoch = s.epoch
  BY <1>4, <1>5
<1>6. CASE s.prevEpoch >= 0 /\ r.dataEpoch = s.prevEpoch /\ Len(r.hist) <= s.promotedSeq
  <2>1. /\ s.promotedSeq <= Len(s.hist)
        /\ \A i \in 1..s.promotedSeq : s.hist[i] = lineage[s.prevEpoch][i]
    BY <1>1, <1>6 DEF Agrees, Promoted
  <2>2. Len(r.hist) \in Nat /\ Len(s.hist) \in Nat /\ s.promotedSeq \in Nat
    <3>1. s.promotedSeq \in Nat
      BY <1>2 DEF Replica
    <3> QED
      BY <1>2, <3>1, HistIs
  <2>3. \A i \in 1..Len(r.hist) : i \in 1..s.promotedSeq
    BY <1>6, <2>2
  <2>4. \A i \in 1..Len(r.hist) : r.hist[i] = lineage[r.dataEpoch][i]
    BY <1>4 DEF Begins
  <2>5. \A i \in 1..Len(r.hist) : r.hist[i] = s.hist[i]
    BY <1>6, <2>1, <2>3, <2>4
  <2>6. Len(r.hist) <= Len(s.hist)
    BY <1>6, <2>1, <2>2
  <2> QED
    BY <1>3, <2>5, <2>6 DEF Begins
<1> QED
  BY <1>5, <1>6 DEF CanServe, Seq0

LEMMA AgreesAskLog ==
  ASSUME Inv, Inv', Grows, Histories, NEW n \in Node, NEW m \in Node, AskLog(n, m)
  PROVE  Histories'
<1> DEFINE c == [stage |-> IF CanServe(rep[m], rep[n].dataEpoch, Seq0(rep[n])) THEN "checked" ELSE "gone",
                 to |-> m, epoch |-> rep[n].epoch, after |-> Seq0(rep[n]), data |-> <<>>]
<1>1. /\ call' = [call EXCEPT ![n] = c] /\ rep' = rep /\ lineage' = lineage
      /\ rep[m].role = "leader" /\ rep[m].epoch = rep[n].epoch /\ rep[n].synced
  BY DEF AskLog, CanAsk, ghost
<1>2. \A k \in Node : Agrees(k)
  BY HistoriesIs
<1>3. call \in [Node -> Call]
  BY TypeOKIs DEF Inv, DataTypes
<1>4. call'[n] = c /\ \A k \in Node : k # n => call'[k] = call[k]
  BY <1>1, <1>3
<1>5. Answer(rep[n], c, lineage)
  <2>1. CASE CanServe(rep[m], rep[n].dataEpoch, Seq0(rep[n]))
    <3>1. Begins(rep[n].hist, lineage[rep[n].epoch])
      BY <1>1, <2>1, AcceptedPosition
    <3>2. c.stage = "checked" /\ c.epoch = rep[n].epoch
      BY <2>1
    <3> QED
      BY <3>1, <3>2 DEF Answer
  <2>2. CASE ~CanServe(rep[m], rep[n].dataEpoch, Seq0(rep[n]))
    <3>1. c.stage = "gone"
      BY <2>2
    <3> QED
      BY <3>1, AnswerNone
  <2> QED
    BY <2>1, <2>2
<1> HIDE DEF c
<1>6. AgreesNext(n)
  BY <1>1, <1>2, <1>4, <1>5 DEF Agrees, AgreesNext
<1>7. \A k \in Node : k # n => AgreesNext(k)
  BY <1>1, <1>2, <1>4, AgreesFrame
<1> QED
  BY <1>6, <1>7, HistoriesIs

\* What is read behind an accepted position continues it.
LEMMA BeginsRead ==
  ASSUME NEW S, NEW h \in Seq(S), NEW d \in Seq(S), NEW t \in Seq(S), Begins(h, t),
         Len(h) + Len(d) <= Len(t), \A i \in 1..Len(d) : d[i] = t[Len(h) + i]
  PROVE  Begins(h \o d, t)
<1>1. Len(h) \in Nat /\ Len(d) \in Nat /\ Len(t) \in Nat
  OBVIOUS
<1>2. /\ Len(h \o d) = Len(h) + Len(d)
      /\ \A i \in 1..Len(h) : (h \o d)[i] = h[i]
      /\ \A i \in 1..Len(d) : (h \o d)[Len(h) + i] = d[i]
  OBVIOUS
<1>3. ASSUME NEW i \in 1..(Len(h) + Len(d))
      PROVE  (h \o d)[i] = t[i]
  <2>1. CASE i \in 1..Len(h)
    BY <1>2, <2>1 DEF Begins
  <2>2. CASE i \notin 1..Len(h)
    <3>1. i - Len(h) \in 1..Len(d) /\ i = Len(h) + (i - Len(h))
      BY <1>1, <2>2
    <3>2. (h \o d)[Len(h) + (i - Len(h))] = d[i - Len(h)] /\ d[i - Len(h)] = t[Len(h) + (i - Len(h))]
      BY <1>2, <3>1
    <3> QED
      BY <3>1, <3>2
  <2> QED
    BY <2>1, <2>2
<1> QED
  BY <1>2, <1>3 DEF Begins

LEMMA AgreesServe ==
  ASSUME Inv, Inv', Grows, Histories, PromptServe, NEW n \in Node, ServeLog(n)
  PROVE  Histories'
<1>1. \A k \in Node : Agrees(k)
  BY HistoriesIs
<1>2. call \in [Node -> Call] /\ rep' = rep /\ lineage' = lineage /\ call[n].stage = "checked"
  BY TypeOKIs DEF Inv, DataTypes, ServeLog, ghost
<1>3. PICK c : call' = [call EXCEPT ![n] = c]
  BY <1>2 DEF ServeLog
<1>4. call'[n] = c /\ \A k \in Node : k # n => call'[k] = call[k]
  BY <1>2, <1>3
<1>5. \A k \in Node : k # n => AgreesNext(k)
  BY <1>1, <1>2, <1>4, AgreesFrame
<1>6. CASE call'[n].stage = "entries"
  <2> DEFINE h == rep[n].hist
             d == call'[n].data
             e == call[n].epoch
             t == lineage[e]
  <2>1. /\ e \in Epoch /\ call[n].to \in Node /\ d \in Seq(Entry) /\ call'[n].epoch = e
        /\ call[n].after + Len(d) <= Len(rep[call[n].to].hist)
        /\ \A i \in 1..Len(d) : d[i] = rep[call[n].to].hist[call[n].after + i]
        /\ rep[call[n].to].role = "leader" /\ rep[call[n].to].epoch = e
    BY <1>6, ServeIs DEF Inv
  <2>2. rep[call[n].to].hist = t /\ call[n].after = Len(h) /\ t \in Seq(Entry)
    BY <1>2, <2>1 DEF Inv, Lineage, Calls
  <2>3. h \in Seq(Entry) /\ Begins(h, t)
    <3>1. rep[n] \in Replica
      BY DEF Inv, TypeOK
    <3>2. Answer(rep[n], call[n], lineage)
      BY <1>1 DEF Agrees
    <3> QED
      BY <1>2, <3>1, <3>2, HistIs DEF Answer
  <2> HIDE DEF h, d, t
  <2>4. Begins(h \o d, t)
    BY <2>1, <2>2, <2>3, BeginsRead
  <2>5. Answer(rep'[n], call'[n], lineage')
    BY <1>2, <1>6, <2>1, <2>4 DEF Answer, h, d, t
  <2>6. AgreesNext(n)
    BY <1>1, <1>2, <2>5 DEF Agrees, AgreesNext
  <2> QED
    BY <1>5, <2>6, HistoriesIs
<1>7. CASE call'[n].stage = "gone"
  <2>1. AgreesNext(n)
    BY <1>1, <1>2, <1>7, AgreesFrame
  <2> QED
    BY <1>5, <2>1, HistoriesIs
<1>8. call'[n].stage = "entries" \/ call'[n].stage = "gone"
  <2>1. ASSUME NEW d, call' = [call EXCEPT ![n].stage = "entries", ![n].data = d]
        PROVE  call'[n].stage = "entries"
    BY <1>2, <2>1 DEF Call
  <2>2. ASSUME call' = [call EXCEPT ![n].stage = "gone"]
        PROVE  call'[n].stage = "gone"
    BY <1>2, <2>2 DEF Call
  <2> QED
    BY <2>1, <2>2 DEF ServeLog
<1> QED
  BY <1>6, <1>7, <1>8

LEMMA AgreesAnswer ==
  ASSUME Inv, Inv', Grows, Histories, NEW n \in Node,
         ApplyLog(n) \/ LoadSnapshot(n) \/ StartOver(n) \/ CallFails(n)
  PROVE  Histories'
<1>1. \A k \in Node : Agrees(k)
  BY HistoriesIs
<1>2. call \in [Node -> Call] /\ rep \in [Node -> Replica] /\ lineage' = lineage
  BY TypeOKIs DEF Inv, DataTypes, ApplyLog, LoadSnapshot, StartOver, CallFails, ghost
<1>3. call' = [call EXCEPT ![n] = NoCall]
  BY DEF ApplyLog, LoadSnapshot, StartOver, CallFails
<1>4. call'[n] = NoCall /\ \A k \in Node : k # n => call'[k] = call[k]
  BY <1>2, <1>3
<1>5. \A k \in Node : k # n => rep'[k] = rep[k]
  BY <1>2 DEF ApplyLog, LoadSnapshot, StartOver, CallFails
<1>6. \A k \in Node : k # n => AgreesNext(k)
  BY <1>1, <1>4, <1>5, AgreesFrame
<1>7. Answer(rep'[n], call'[n], lineage')
  BY <1>4, NoCallType, AnswerNone
<1>8. Answer(rep[n], call[n], lineage)
  BY <1>1 DEF Agrees
<1>9. Synced(rep'[n], lineage') /\ Promoted(rep'[n], lineage')
  <2>1. CASE ApplyLog(n)
    <3>1. /\ rep'[n].role = "follower" /\ rep'[n].dataEpoch = call[n].epoch
          /\ rep'[n].hist = rep[n].hist \o call[n].data
          /\ call[n].stage = "entries" /\ call[n].epoch \in Epoch
      BY <2>1, AppliedIs DEF Inv
    <3> QED
      BY <1>2, <1>8, <3>1 DEF Answer, Synced, Promoted
  <2>2. CASE LoadSnapshot(n)
    <3>1. /\ rep'[n].role = "follower" /\ rep'[n].dataEpoch = call[n].epoch
          /\ rep'[n].hist = call[n].data
          /\ call[n].stage = "snapshot" /\ call[n].epoch \in Epoch
      BY <2>2, LoadedIs DEF Inv
    <3> QED
      BY <1>2, <1>8, <3>1 DEF Answer, Synced, Promoted
  <2>3. CASE StartOver(n)
    <3>1. rep'[n] = resetLocked(rep[n]) /\ rep[n] \in Replica
      BY <1>2, <2>3 DEF StartOver
    <3>2. rep[n].role = "follower"
      BY <2>3 DEF Inv, Calls, StartOver
    <3>3. ~rep'[n].synced /\ rep'[n].role = "follower"
      BY <3>1, <3>2, resetType
    <3> QED
      BY <3>3 DEF Synced, Promoted
  <2>4. CASE CallFails(n)
    BY <1>1, <1>2, <2>4 DEF CallFails, Agrees
  <2> QED
    BY <2>1, <2>2, <2>3, <2>4
<1> QED
  BY <1>6, <1>7, <1>9, HistoriesIs DEF AgreesNext

\* Reconciling keeps data that agrees with its epoch, or throws it away.
LEMMA AgreesSet ==
  ASSUME Inv, Inv', Grows, Histories, NEW n \in Node, NEW q \in Replica, SetReplica(n, q),
         (q.role = "leader" /\ BecomesLeader(q, rep[n], q.epoch)) \/ BecomesOther(q, rep[n])
  PROVE  Histories'
<1>1. \A k \in Node : Agrees(k)
  BY HistoriesIs
<1>2. call \in [Node -> Call] /\ rep \in [Node -> Replica]
  BY TypeOKIs DEF Inv, DataTypes
<1>3. /\ rep' = [rep EXCEPT ![n] = q]
      /\ call' = [m \in Node |->
           CASE m = n /\ q.role # "follower" -> NoCall
             [] m # n /\ q.role = "none" /\ call[m].to = n /\ call[m].stage = "checked" -> NoCall
             [] OTHER -> call[m]]
  BY DEF SetReplica
<1>4. rep'[n] = q /\ \A k \in Node : k # n => rep'[k] = rep[k]
  BY <1>2, <1>3
<1>5. \A k \in Node : /\ call'[k] = call[k] \/ call'[k].stage = "none"
                      /\ k = n /\ q.role # "follower" => call'[k].stage = "none"
  BY <1>3, NoCallType
<1>6. \A k \in Node : k # n => AgreesNext(k)
  BY <1>1, <1>4, <1>5, AgreesFrame
<1>7. /\ lineage \in [Epoch -> Seq(Entry)] /\ lineage' \in [Epoch -> Seq(Entry)]
      /\ \A g \in Epoch : Begins(lineage[g], lineage'[g])
  BY LineageIs DEF Inv, Grows
<1>8. Synced(rep[n], lineage') /\ Promoted(rep[n], lineage')
  BY <1>1, <1>2, <1>7, SyncedGrows DEF Agrees
<1>9. CASE q.role = "leader" /\ BecomesLeader(q, rep[n], q.epoch)
  <2>1. q.epoch \in Epoch /\ q.hist = lineage'[q.epoch] /\ q.dataEpoch = q.epoch
    BY <1>4, <1>9 DEF Inv, Leaders, Lineage, Epoch
  <2>2. q.hist \in Seq(Entry)
    BY HistIs
  <2>3. Synced(q, lineage')
    BY <2>1, <2>2, BeginsItself DEF Synced
  <2>4. Promoted(q, lineage')
    <3>1. CASE /\ q.hist = rep[n].hist /\ q.prevEpoch = rep[n].prevEpoch
               /\ q.promotedSeq = rep[n].promotedSeq /\ rep[n].role = "leader"
      BY <1>8, <1>9, <3>1 DEF Promoted
    <3>2. CASE q.prevEpoch = -1
      BY <3>2 DEF Promoted
    <3>3. CASE /\ q.hist = rep[n].hist /\ q.promotedSeq = Len(rep[n].hist)
               /\ rep[n].synced /\ q.prevEpoch = rep[n].dataEpoch
      <4>1. q.prevEpoch \in Epoch /\ Begins(q.hist, lineage'[q.prevEpoch])
        BY <1>8, <3>3 DEF Synced
      <4>2. Len(q.hist) \in Nat
        BY <2>2
      <4> QED
        BY <3>3, <4>1, <4>2 DEF Promoted, Begins
    <3> QED
      BY <1>9, <3>1, <3>2, <3>3 DEF BecomesLeader, SameData
  <2>5. Answer(q, call'[n], lineage')
    BY <1>5, <1>9, AnswerNone
  <2> QED
    BY <1>4, <1>6, <2>3, <2>4, <2>5, HistoriesIs DEF AgreesNext
<1>10. CASE BecomesOther(q, rep[n])
  <2>1. q.role # "leader" /\ Promoted(q, lineage')
    BY <1>10, NoReplicaType DEF BecomesOther, Promoted
  <2>2. Synced(q, lineage')
    BY <1>8, <1>10, NoReplicaType DEF BecomesOther, SameData, Synced
  <2>3. Answer(q, call'[n], lineage')
    <3>1. CASE call'[n].stage = "none"
      BY <3>1, AnswerNone
    <3>2. CASE call'[n].stage # "none"
      <4>1. call'[n] = call[n] /\ q.role = "follower" /\ call[n].stage # "none"
        BY <1>5, <3>2
      <4>2. rep[n].role = "follower" /\ call[n].epoch \in Epoch
        BY <4>1 DEF Inv, Calls
      <4>3. q.hist = rep[n].hist
        BY <1>10, <4>1, <4>2, NoReplicaType DEF BecomesOther, SameData
      <4>4. Answer(rep[n], call[n], lineage) /\ call[n] \in Call /\ rep[n] \in Replica
        BY <1>1, <1>2 DEF Agrees
      <4>5. Answer(rep[n], call[n], lineage')
        BY <1>7, <4>2, <4>4, AnswerGrows
      <4> QED
        BY <4>1, <4>3, <4>5, AnswerSame
    <3> QED
      BY <3>1, <3>2
  <2> QED
    BY <1>4, <1>6, <2>1, <2>2, <2>3, HistoriesIs DEF AgreesNext
<1> QED
  BY <1>9, <1>10

LEMMA HistoriesStep ==
  ASSUME Inv, Inv', Grows, PromptServe, Histories, [Next]_vars
  PROVE  Histories'
<1>1. ASSUME UNCHANGED <<rep, call>>
      PROVE  Histories'
  BY <1>1, HistoriesIs, AgreesFrame
<1>2. ASSUME NEW n \in Node, NEW i \in 1..Len(pending[n]), ApplyLayout(n, i)
      PROVE  Histories'
  <2> DEFINE l == pending[n][i]
             q == Reconciled(n, l)
  <2>1. /\ q \in Replica /\ SetReplica(n, q)
        /\ BecomesLeader(q, rep[n], l.part.epoch) \/ BecomesOther(q, rep[n])
    BY <1>2, ApplyIs DEF Inv
  <2> HIDE DEF q
  <2>2. BecomesLeader(q, rep[n], l.part.epoch) => q.role = "leader" /\ q.epoch = l.part.epoch
    BY DEF BecomesLeader
  <2> QED
    BY <2>1, <2>2, AgreesSet
<1>3. ASSUME NEW n \in Node, LeaseLost(n) \/ Crash(n)
      PROVE  Histories'
  <2>1. SetReplica(n, NoReplica)
    BY <1>3, RestartIs DEF Inv
  <2> QED
    BY <2>1, NoReplicaType, AgreesSet DEF BecomesOther
<1>4. CASE \/ \E n \in Node : LeaseExpires(n) \/ Register(n) \/ PollStatus(n) \/ SetDrained(n)
                                \/ TransferLeader(n)
           \/ BeginRound \/ AbandonRound \/ FinishRound \/ UNCHANGED vars
  BY <1>1, <1>4 DEF LeaseExpires, Register, PollStatus, SetDrained, TransferLeader, BeginRound,
                    AbandonRound, FinishRound, vars
<1> QED
  BY <1>2, <1>3, <1>4, AgreesWrite, AgreesAskLog, AgreesAskSnapshot, AgreesServe, AgreesAnswer
    DEF Next, ReplicaStep, MemberStep, AdminStep

LEMMA HistoriesInit ==
  ASSUME Init
  PROVE  Histories
<1>1. PICK n \in Node, fs \in SUBSET Node, log \in Seq(Entry) : Start(n, fs, log)
  BY InitIs
<1>2. 1 \in Epoch
  BY ReplicationBounds DEF Epoch
<1>3. lineage[1] = log /\ Begins(log, log)
  BY <1>1, <1>2, BeginsItself DEF Start
<1>4. ASSUME NEW m \in Node
      PROVE  Agrees(m)
  <2>1. /\ call[m] = NoCall
        /\ (rep[m].hist = log /\ rep[m].dataEpoch = 1 /\ rep[m].prevEpoch = -1) \/ rep[m] = NoReplica
    BY <1>1 DEF Start
  <2>2. Answer(rep[m], call[m], lineage)
    BY <2>1, NoCallType, AnswerNone
  <2>3. CASE rep[m] = NoReplica
    BY <2>2, <2>3, NoReplicaType DEF Agrees, Synced, Promoted
  <2>4. CASE rep[m].hist = log /\ rep[m].dataEpoch = 1 /\ rep[m].prevEpoch = -1
    BY <1>2, <1>3, <2>2, <2>4 DEF Agrees, Synced, Promoted
  <2> QED
    BY <2>1, <2>3, <2>4
<1> QED
  BY <1>4, HistoriesIs

LEMMA BeginsIsPrefix ==
  ASSUME NEW S, NEW s \in Seq(S), NEW t \in Seq(S), Begins(s, t)
  PROVE  IsPrefix(s, t)
<1>1. Len(s) \in Nat /\ Len(t) \in Nat /\ Len(s) <= Len(t)
  BY DEF Begins
<1> DEFINE a == SubSeq(s, 1, Len(s))
           b == SubSeq(t, 1, Len(s))
<1>2. /\ a \in Seq(S) /\ Len(a) = Len(s) /\ \A i \in 1..Len(s) : a[i] = s[i]
  BY <1>1
<1>3. /\ b \in Seq(S) /\ Len(b) = Len(s) /\ \A i \in 1..Len(s) : b[i] = t[i]
  BY <1>1
<1>4. \A i \in 1..Len(s) : a[i] = b[i]
  BY <1>2, <1>3 DEF Begins
<1> HIDE DEF a, b
<1>5. a = b
  BY <1>2, <1>3, <1>4, SeqEqual
<1> QED
  BY <1>1, <1>5 DEF IsPrefix, a, b

\* "The leader accepted our position, so our data is a prefix of its history"
\* (partition.go, ApplyLogEntries): the data of a synced replica is a prefix
\* of what was logged in its data epoch, whatever handoffs, failovers, crashes
\* and lost answers happen, as long as no replicate handler is overtaken by a
\* demotion between its checks and its read (PromptServe).
THEOREM SyncedDataIsPrefix == Spec => [](PromptServe => DataIsPrefix)
<1>1. Init => Inv /\ SafeHistories
  BY InvInit, HistoriesInit DEF SafeHistories
<1>2. Inv /\ SafeHistories /\ [Next]_vars => (Inv /\ SafeHistories)'
  <2> SUFFICES ASSUME Inv, SafeHistories, [Next]_vars
               PROVE  Inv' /\ SafeHistories'
    OBVIOUS
  <2>1. Inv' /\ Grows
    BY InvStep
  <2>2. PromptServe => Histories'
    BY <2>1, HistoriesStep DEF SafeHistories
  <2> QED
    BY <2>1, <2>2 DEF SafeHistories
<1>3. Inv /\ SafeHistories => (PromptServe => DataIsPrefix)
  <2> SUFFICES ASSUME Inv, Histories, NEW n \in Node, rep[n].synced
               PROVE  IsPrefix(rep[n].hist, lineage[rep[n].dataEpoch])
    BY DEF SafeHistories, DataIsPrefix
  <2>1. rep[n].dataEpoch \in Epoch /\ Begins(rep[n].hist, lineage[rep[n].dataEpoch])
    BY DEF Histories, Synced
  <2>2. rep[n] \in Replica /\ lineage \in [Epoch -> Seq(Entry)]
    BY DEF Inv, TypeOK, Lineage
  <2>3. rep[n].hist \in Seq(Entry) /\ lineage[rep[n].dataEpoch] \in Seq(Entry)
    BY <2>1, <2>2, HistIs
  <2> QED
    BY <2>1, <2>3, BeginsIsPrefix
<1> QED
  BY <1>1, <1>2, <1>3, PTL DEF Spec

\* What was logged in an epoch is never taken back or changed, not even by the
\* next leader of the partition, which starts an epoch of its own (node.go,
\* reconcile; partition.go, Promote): every step leaves each epoch's log as it
\* was or appends to it.
THEOREM LogsOnlyGrow == Spec => [][Grows]_vars
<1>1. Inv /\ [Next]_vars => [Grows]_vars
  BY InvStep
<1> QED
  BY <1>1, InvHolds, PTL DEF Spec
============================================================================
