------------------------- MODULE RunBranches_proofs -------------------------
(***************************************************************************)
(* AllBranchesDone, for the workflows of WorkflowStrands, whatever         *)
(* requests overlap the executor and each other, and wherever executor and *)
(* server are cut short.                                                   *)
(*                                                                         *)
(* A run has one token on each strand of its workflow, on a node to be     *)
(* visited or held up before a join, until an END takes them all.          *)
(***************************************************************************)
EXTENDS RunInTurn_proofs, WorkflowStrands, WellFoundedInduction

-----------------------------------------------------------------------------
(* The invariant.                                                          *)

EndDone(branch) == \E n \in branch.completed : Type[n] = "END"
Missing(branch, k) == k \in Joins /\ k \notin branch.pending \cup branch.completed
\* Where the tokens are: to be visited, being worked on, or held up before a join.
Held(branch) == {n \in branch.completed : \E k \in Targets(n) : Missing(branch, k)}
Tokens(branch, node) == branch.pending \cup ({node} \cap Nodes) \cup Held(branch)

Apart(T)          == \A m, n \in T : m # n => ~Meet(m, n)
Everywhere(T)     == \A c \in Strands : \E n \in T : c \in Cover[n]
\* No token falls behind the run, or past a join that its strand still waits for.
InFront(T, done)  == \A n \in done, m \in T : Meet(n, m) => Depth[n] <= Depth[m]
BeforeJoins(T, branch) ==
    \A k \in Joins, m \in T : Missing(branch, k) /\ Meet(k, m) => Depth[m] < Depth[k]
\* A join is enqueued as soon as all it joins is behind the run.
JoinsOpen(branch) == \A k \in Joins : Inbound(k) \subseteq branch.completed => ~Missing(branch, k)

Covered(branch, node) ==
    LET T == Tokens(branch, node) IN
    /\ IF EndDone(branch) THEN T = {} ELSE Everywhere(T)
    /\ Apart(T) /\ InFront(T, branch.completed) /\ BeforeJoins(T, branch) /\ JoinsOpen(branch)
    /\ node \notin branch.completed
    /\ node \in Nodes => Type[node] # "END"
RowCovered(row) ==
    Covered(row.branch, row.node) /\ (row.status = "COMPLETED" => EndDone(row.branch))
OpCovered(o) ==
    /\ o.pc \notin Restarting => RowCovered(o.snap)
    /\ o.pc \in {"drain", "commit"} => Covered(o.branch, o.next)
    /\ o.pc = "commit" /\ o.next = None => EndDone(o.branch)
CoverInv == RowCovered(run) /\ \A p \in Procs : OpCovered(op[p])

-----------------------------------------------------------------------------
(* Going past a node.                                                      *)

LEMMA TargetsType ==
  ASSUME NEW n \in Nodes
  PROVE  Targets(n) \subseteq Nodes
<1>1. Out[n] \in Seq(Nodes)
  BY GraphAssumption
<1> QED BY <1>1 DEF Targets

LEMMA DepthType ==
  ASSUME Structured
  PROVE  \A n \in Nodes : /\ Depth[n] \in Nat
                          /\ Cover[n] \subseteq Strands /\ Cover[n] # {}
  BY DEF Structured

\* A split hands the run on to all its targets, another node to one of them.
LEMMA HandsOn ==
  ASSUME Structured, NEW n \in Nodes, Type[n] # "END", NEW targets \in Selections(n)
  PROVE  IF Type[n] = "PARALLEL_SPLIT" THEN targets = Targets(n)
                                       ELSE \E t \in Targets(n) : targets = {t}
<1>1. Out[n] \in Seq(Nodes) /\ Out[n] # <<>>
  BY GraphAssumption DEF Structured, FromFirstToEnd
<1>2. Out[n][1] \in Targets(n)
  BY <1>1 DEF Targets
<1> QED BY <1>1, <1>2 DEF Selections

\* The tokens of Gone hand their strands on to those of New, which makes U of T.
HandOver(T, Gone, New, U) ==
    /\ U = (T \ Gone) \cup New
    /\ \A g \in Gone, m \in New : m \in Targets(g)
    /\ \A c \in Strands : (\E g \in Gone : c \in Cover[g]) <=> (\E m \in New : c \in Cover[m])
    /\ Apart(New)

LEMMA TokensHandedOn ==
  ASSUME Structured,
         NEW T \in SUBSET Nodes, NEW Gone \in SUBSET T, NEW New \in SUBSET Nodes, NEW U,
         Apart(T), Everywhere(T), HandOver(T, Gone, New, U)
  PROVE  Apart(U) /\ Everywhere(U)
<1>1. ASSUME NEW m \in T \ Gone, NEW n \in New
      PROVE  ~Meet(m, n)
  <2>1. SUFFICES ASSUME Meet(m, n) PROVE FALSE
    OBVIOUS
  <2>2. PICK c \in Cover[m] : c \in Cover[n]
    BY <2>1 DEF Meet
  <2>3. c \in Strands
    BY <2>2, DepthType
  <2>4. PICK g \in Gone : c \in Cover[g]
    BY <2>2, <2>3 DEF HandOver
  <2> QED BY <2>2, <2>4 DEF Apart, Meet
<1>2. ASSUME NEW m \in (T \ Gone) \cup New, NEW n \in (T \ Gone) \cup New, m # n
      PROVE  ~Meet(m, n)
  <2>1. Meet(m, n) => Meet(n, m)
    BY DEF Meet
  <2> QED BY <1>1, <1>2, <2>1 DEF Apart, HandOver
<1>3. ASSUME NEW c \in Strands
      PROVE  \E n \in (T \ Gone) \cup New : c \in Cover[n]
  BY DEF Everywhere, HandOver
<1> QED BY <1>2, <1>3 DEF Apart, Everywhere, HandOver

LEMMA TargetsMeet ==
  ASSUME Structured, NEW n \in Nodes
  PROVE  \A t \in Targets(n) : t \in Nodes /\ Meet(n, t) /\ Depth[n] < Depth[t]
<1> SUFFICES ASSUME NEW t \in Targets(n) PROVE t \in Nodes /\ Meet(n, t) /\ Depth[n] < Depth[t]
  OBVIOUS
<1>1. t \in Nodes
  BY TargetsType
<1>2. Depth[n] < Depth[t]
  BY DEF Structured, EdgesDescend
<1>3. PICK c : c \in Cover[n] /\ c \in Strands
  BY DepthType
<1>4. PICK d : d \in Cover[t] /\ d \in Strands
  BY <1>1, DepthType
<1>5. CASE Type[n] = "PARALLEL_SPLIT"
  <2>1. d \in Cover[n]
    BY <1>4, <1>5 DEF Structured, SplitsDeal
  <2> QED BY <1>1, <1>2, <1>4, <2>1 DEF Meet
<1>6. CASE Type[n] # "PARALLEL_SPLIT" /\ t \notin Joins
  <2>1. Cover[t] = Cover[n]
    BY <1>6 DEF Structured, OthersHandOn
  <2> QED BY <1>1, <1>2, <1>3, <2>1 DEF Meet
<1>7. CASE t \in Joins
  <2>1. n \in Inbound(t)
    BY DEF Inbound
  <2>2. c \in Cover[t]
    BY <1>3, <1>7, <2>1 DEF Structured, JoinsGather
  <2> QED BY <1>1, <1>2, <1>3, <2>2 DEF Meet
<1> QED BY <1>5, <1>6, <1>7

LEMMA AfterCovered ==
  ASSUME Structured, NEW branch \in Branches, NEW n \in Nodes, Type[n] # "END",
         NEW targets \in Selections(n), NEW node \in {n, None},
         node = None \/ Type[n] = "PARALLEL_JOIN" => n \in branch.pending,
         Sound(branch, node), Covered(branch, node)
  PROVE  Covered(After(branch, n, targets), None)
<1> DEFINE b == After(branch, n, targets)
           left == [pending |-> branch.pending \ {n}, completed |-> branch.completed \cup {n}]
           new == {m \in targets : Enqueued(left, m)}
           T == Tokens(branch, node)
           U == Tokens(b, None)
<1>1. b.completed = branch.completed \cup {n} /\ b.pending = (branch.pending \ {n}) \cup new
  BY DEF After
<1>2. /\ branch.pending \subseteq Nodes /\ branch.completed \subseteq Nodes
      /\ branch.pending \cap branch.completed = {} /\ None \notin Nodes
  BY GraphAssumption DEF Branches, Sound
<1>3. n \in T /\ n \notin branch.completed /\ T \subseteq Nodes
  BY <1>2 DEF Tokens, Held, Covered
<1>4. ~EndDone(branch) /\ ~EndDone(b)
  BY <1>1, <1>3 DEF Covered, EndDone
<1>5. /\ Apart(T) /\ Everywhere(T) /\ InFront(T, branch.completed) /\ BeforeJoins(T, branch)
      /\ JoinsOpen(branch)
  BY <1>4 DEF Covered
<1>6. new = {m \in targets : m \notin branch.completed \cup {n}
                             /\ (Type[m] = "PARALLEL_JOIN" => Inbound(m) \subseteq b.completed)}
  BY <1>1 DEF Enqueued
<1>7. IF Type[n] = "PARALLEL_SPLIT" THEN targets = Targets(n)
                                     ELSE \E t \in Targets(n) : targets = {t}
  BY HandsOn
<1>8. /\ \A t \in Targets(n) : t \in Nodes /\ Meet(n, t) /\ Depth[n] < Depth[t]
      /\ \A m \in Nodes : Depth[m] \in Nat /\ Cover[m] \subseteq Strands /\ Cover[m] # {}
  BY TargetsMeet, DepthType
<1> HIDE DEF b, left, new, T, U
<1>9. \A t \in Targets(n) : t \notin branch.completed \cup {n}
  <2> SUFFICES ASSUME NEW t \in Targets(n), t \in branch.completed \cup {n} PROVE FALSE
    OBVIOUS
  <2>1. t \in Nodes /\ Depth[n] < Depth[t] /\ Meet(t, n)
    BY <1>8 DEF Meet
  <2>2. t # n
    BY <1>8, <2>1
  <2>3. Depth[t] <= Depth[n]
    BY <1>3, <1>5, <2>1, <2>2 DEF InFront
  <2> QED BY <1>8, <2>1, <2>3
\* Joins that are enqueued are missing no more; of the others, all still are.
<1>10. \A k : Missing(b, k) <=> Missing(branch, k) /\ k # n /\ k \notin new
  BY <1>1, <1>2 DEF Missing
<1>11. /\ T = branch.pending \cup {n} \cup Held(branch)
       /\ U = (branch.pending \ {n}) \cup new \cup Held(b)
       /\ Held(branch) = {m \in branch.completed : \E k \in Targets(m) : Missing(branch, k)}
       /\ Held(b) = {m \in branch.completed \cup {n} : \E k \in Targets(m) : Missing(b, k)}
  BY <1>1, <1>2 DEF T, U, Tokens, Held
<1>12. new \subseteq Targets(n)
  BY <1>6, <1>7
<1>13. \E Gone \in SUBSET T, New \in SUBSET new : HandOver(T, Gone, New, U)
  <2>1. \A k : Missing(b, k) <=> Missing(branch, k) /\ k \notin new
    BY <1>10 DEF Missing, Joins
  <2>2. n \notin Held(branch)
    BY <1>3, <1>11
  <2>3. CASE Type[n] = "PARALLEL_SPLIT"
    <3>1. targets = Targets(n) /\ Targets(n) \cap Joins = {}
      BY <1>7, <2>3 DEF Structured, SplitsDeal
    <3>2. new = Targets(n) /\ new \cap Joins = {}
      BY <1>6, <1>8, <1>9, <3>1 DEF Joins
    <3>3. \A k : Missing(b, k) <=> Missing(branch, k)
      BY <2>1, <3>2 DEF Missing
    <3>4. Held(b) = Held(branch)
      BY <1>11, <3>1, <3>3 DEF Missing
    <3>5. U = (T \ {n}) \cup new
      BY <1>11, <2>2, <3>4
    <3>6. /\ \A c \in Strands : c \in Cover[n] <=> \E m \in new : c \in Cover[m]
          /\ Apart(new)
      BY <2>3, <3>2 DEF Structured, SplitsDeal, Apart
    <3>7. HandOver(T, {n}, new, U)
      BY <3>2, <3>5, <3>6 DEF HandOver
    <3> QED BY <1>3, <3>7
  <2>4. ASSUME Type[n] # "PARALLEL_SPLIT", NEW t \in Targets(n), targets = {t}, t \notin Joins
        PROVE  \E Gone \in SUBSET T, New \in SUBSET new : HandOver(T, Gone, New, U)
    <3>1. new = {t}
      BY <1>6, <1>8, <1>9, <2>4 DEF Joins
    <3>2. \A k \in Targets(n) : k \notin Joins
      BY <1>8, <2>4 DEF Structured, JoinsGather, Inbound
    <3>3. \A k : Missing(b, k) <=> Missing(branch, k)
      BY <2>1, <2>4, <3>1 DEF Missing
    <3>4. Held(b) = Held(branch)
      BY <1>11, <3>2, <3>3 DEF Missing
    <3>5. U = (T \ {n}) \cup {t}
      BY <1>11, <2>2, <3>1, <3>4
    <3>6. Cover[t] = Cover[n] /\ Apart({t})
      BY <2>4 DEF Structured, OthersHandOn, Apart
    <3>7. HandOver(T, {n}, {t}, U)
      BY <2>4, <3>5, <3>6 DEF HandOver
    <3> QED BY <1>3, <3>1, <3>7
  <2>5. ASSUME NEW t \in Targets(n), targets = {t}, t \in Joins
        PROVE  \E Gone \in SUBSET T, New \in SUBSET new : HandOver(T, Gone, New, U)
    <3>1. n \in Inbound(t) /\ \A m \in Inbound(t) : m \in Nodes /\ Targets(m) = {t}
      BY <2>5 DEF Inbound, Structured, JoinsGather
    <3>2. t \notin Prefix
      BY <2>5 DEF Structured, StartsBefore, Joins
    <3>3. t \notin branch.pending
      BY <1>3, <2>5, <3>1, <3>2 DEF Sound, Joins
    <3>4. Missing(branch, t)
      BY <1>9, <2>5, <3>3 DEF Missing
    <3>5. CASE Inbound(t) \subseteq b.completed
      <4>1. new = {t}
        BY <1>6, <1>9, <2>5, <3>5
      <4>2. Inbound(t) \subseteq T
        BY <1>1, <1>11, <3>1, <3>4, <3>5
      <4>3. Held(b) = Held(branch) \ Inbound(t)
        <5>1. ASSUME NEW m \in Held(b)
              PROVE  m \in Held(branch) \ Inbound(t)
          <6>1. m \notin Inbound(t)
            BY <1>11, <2>1, <3>1, <4>1
          <6>2. m \in branch.completed
            BY <1>11, <3>1, <6>1
          <6> QED BY <1>11, <2>1, <6>1, <6>2
        <5>2. ASSUME NEW m \in Held(branch), m \notin Inbound(t)
              PROVE  m \in Held(b)
          <6>1. PICK k \in Targets(m) : Missing(branch, k)
            BY <1>11
          <6>2. k # t
            BY <1>2, <1>11, <5>2 DEF Inbound
          <6> QED BY <1>11, <2>1, <4>1, <6>1, <6>2
        <5> QED BY <5>1, <5>2
      <4>4. U = (T \ Inbound(t)) \cup {t}
        BY <1>1, <1>2, <1>11, <3>1, <3>5, <4>1, <4>3
      <4>5. /\ \A c \in Strands : c \in Cover[t] <=> \E m \in Inbound(t) : c \in Cover[m]
            /\ Apart({t})
        BY <2>5 DEF Structured, JoinsGather, Apart
      <4>6. HandOver(T, Inbound(t), {t}, U)
        BY <3>1, <4>4, <4>5 DEF HandOver
      <4> QED BY <4>1, <4>2, <4>6
    <3>6. CASE ~(Inbound(t) \subseteq b.completed)
      <4>1. new = {}
        BY <1>6, <2>5, <3>6 DEF Joins
      <4>2. Held(b) = Held(branch) \cup {n}
        BY <1>11, <2>1, <2>5, <3>4, <4>1
      <4>3. U = T
        BY <1>11, <4>1, <4>2
      <4>4. HandOver(T, {}, {}, U)
        BY <4>3 DEF HandOver, Apart
      <4> QED BY <4>4
    <3> QED BY <3>5, <3>6
  <2> QED BY <1>7, <2>3, <2>4, <2>5
<1>14. PICK Gone \in SUBSET T, New \in SUBSET new : HandOver(T, Gone, New, U)
  BY <1>13
<1>15. Apart(U) /\ Everywhere(U) /\ U \subseteq Nodes /\ U \subseteq T \cup New
  <2>1. new \subseteq Nodes
    BY <1>12, TargetsType
  <2>2. Gone \in SUBSET T /\ New \in SUBSET Nodes /\ T \in SUBSET Nodes
    BY <1>3, <1>14, <2>1
  <2>3. Apart(U) /\ Everywhere(U)
    BY <1>5, <1>14, <2>2, TokensHandedOn
  <2> QED BY <1>14, <2>2, <2>3 DEF HandOver
\* A token that is new has taken over a strand it is found on.
<1>16. ASSUME NEW m \in New, NEW c \in Cover[m]
       PROVE  \E g \in Gone : c \in Cover[g] /\ g \in T /\ m \in Targets(g) /\ Depth[g] < Depth[m]
  BY <1>3, <1>8, <1>12, <1>14, <1>16, TargetsMeet DEF HandOver
<1>17. InFront(U, b.completed)
  <2> SUFFICES ASSUME NEW l \in b.completed, NEW m \in U, Meet(l, m)
               PROVE  Depth[l] <= Depth[m]
    BY DEF InFront
  <2>1. l \in Nodes /\ m \in Nodes
    BY <1>1, <1>2, <1>15
  <2>2. CASE l = n /\ m \in T
    BY <1>3, <1>5, <1>8, <2>2 DEF Apart
  <2>3. CASE l = n /\ m \in New
    BY <1>8, <1>12, <2>1, <2>3
  <2>4. CASE l # n /\ m \in T
    BY <1>1, <1>5, <2>4 DEF InFront
  <2>5. CASE l # n /\ m \in New
    <3>1. PICK c \in Cover[l] : c \in Cover[m]
      BY DEF Meet
    <3>2. PICK g \in Gone : c \in Cover[g] /\ g \in T /\ Depth[g] < Depth[m]
      BY <1>16, <2>5, <3>1
    <3>3. Depth[l] <= Depth[g]
      BY <1>1, <1>5, <2>5, <3>1, <3>2 DEF InFront, Meet
    <3> QED BY <1>3, <1>8, <2>1, <3>2, <3>3
  <2> QED BY <1>15, <2>2, <2>3, <2>4, <2>5
<1>18. BeforeJoins(U, b)
  <2> SUFFICES ASSUME NEW k \in Joins, NEW m \in U, Missing(b, k), Meet(k, m)
               PROVE  Depth[m] < Depth[k]
    BY DEF BeforeJoins
  <2>1. Missing(branch, k) /\ k \notin new /\ m \in Nodes /\ k \in Nodes
    BY <1>10, <1>15 DEF Joins
  <2>2. CASE m \in T
    BY <1>5, <2>1, <2>2 DEF BeforeJoins
  <2>3. CASE m \in New
    <3>1. PICK c \in Cover[k] : c \in Cover[m]
      BY DEF Meet
    <3>2. PICK g \in Gone : c \in Cover[g] /\ g \in T /\ m \in Targets(g)
      BY <1>16, <2>3, <3>1
    <3>3. Depth[g] < Depth[k]
      BY <1>5, <2>1, <3>1, <3>2 DEF BeforeJoins, Meet
    <3>4. m # k
      BY <2>1, <2>3
    <3> QED BY <1>3, <3>1, <3>2, <3>3, <3>4 DEF Structured, NoneLeadsPast
  <2> QED BY <1>15, <2>2, <2>3
<1>19. JoinsOpen(b)
  <2> SUFFICES ASSUME NEW k \in Joins, Inbound(k) \subseteq b.completed, Missing(b, k) PROVE FALSE
    BY DEF JoinsOpen
  <2>1. Missing(branch, k) /\ k \notin new /\ k \in Nodes
    BY <1>10 DEF Joins
  <2>2. n \in Inbound(k)
    BY <1>1, <1>5, <2>1 DEF JoinsOpen
  <2>3. Type[n] # "PARALLEL_SPLIT" /\ Targets(n) = {k}
    BY <2>2 DEF Structured, JoinsGather
  <2>4. targets = {k}
    BY <1>7, <2>3
  <2> QED BY <1>6, <1>9, <2>1, <2>3, <2>4
<1>20. Covered(b, None)
  BY <1>1, <1>2, <1>4, <1>15, <1>17, <1>18, <1>19 DEF Covered, U
<1> QED BY <1>20 DEF b

\* An END takes all the tokens there are.
LEMMA EndCovered ==
  ASSUME Structured, NEW branch \in Branches, NEW n \in branch.pending, Type[n] = "END",
         Sound(branch, None), Covered(branch, None)
  PROVE  Covered(After(branch, n, {}), None) /\ EndDone(After(branch, n, {}))
<1> DEFINE b == After(branch, n, {})
           T == Tokens(branch, None)
<1>1. b.completed = branch.completed \cup {n} /\ b.pending = branch.pending \ {n}
  BY DEF After
<1>2. /\ branch.pending \subseteq Nodes /\ branch.completed \subseteq Nodes
      /\ branch.pending \cap branch.completed = {} /\ None \notin Nodes
  BY GraphAssumption DEF Branches, Sound
<1>3. n \in T /\ n \notin branch.completed /\ T \subseteq Nodes
  BY <1>2 DEF Tokens, Held
<1>4. ~EndDone(branch)
  BY <1>3 DEF Covered
<1>5. Apart(T) /\ JoinsOpen(branch)
  BY <1>4 DEF Covered
<1> HIDE DEF b, T
<1>6. Cover[n] = Strands /\ Targets(n) = {}
  <2>1. Cover[n] = Strands /\ Out[n] = <<>>
    BY <1>2 DEF Structured, FromFirstToEnd
  <2> QED BY <2>1 DEF Targets
<1>7. T = {n}
  <2> SUFFICES ASSUME NEW m \in T, m # n PROVE FALSE
    BY <1>3
  <2>1. Cover[m] \subseteq Strands /\ Cover[m] # {}
    BY <1>3, DepthType
  <2>2. Meet(m, n)
    BY <1>6, <2>1 DEF Meet
  <2> QED BY <1>3, <1>5, <2>2 DEF Apart
<1>8. \A k : Missing(b, k) => Missing(branch, k)
  BY <1>1 DEF Missing
<1>9. Tokens(b, None) = {}
  BY <1>1, <1>2, <1>3, <1>6, <1>7, <1>8 DEF T, Tokens, Held
<1>10. JoinsOpen(b)
  <2> SUFFICES ASSUME NEW k \in Joins, Inbound(k) \subseteq b.completed, Missing(b, k) PROVE FALSE
    BY DEF JoinsOpen
  <2>1. Inbound(k) \subseteq branch.completed
    BY <1>1, <1>6 DEF Inbound
  <2> QED BY <1>5, <1>8, <2>1 DEF JoinsOpen
<1>11. EndDone(b)
  BY <1>1 DEF EndDone
<1>12. Covered(b, None)
  BY <1>1, <1>2, <1>9, <1>10, <1>11 DEF Covered, Apart, InFront, BeforeJoins
<1> QED BY <1>11, <1>12 DEF b

\* The node the run comes to rest at keeps its token, pending or not.
LEMMA RestCovered ==
  ASSUME Structured, NEW branch \in Branches, NEW n \in branch.pending,
         Type[n] \notin {"END", "PARALLEL_JOIN"}, Sound(branch, None), Covered(branch, None)
  PROVE  Covered(branch, n) /\ Covered([branch EXCEPT !.pending = @ \ {n}], n)
<1>1. /\ branch.pending \subseteq Nodes /\ n \notin branch.completed /\ None \notin Nodes
  BY GraphAssumption DEF Branches, Sound
<1>2. Tokens(branch, n) = Tokens(branch, None)
  BY <1>1 DEF Tokens
<1>3. Covered(branch, n)
  BY <1>1, <1>2 DEF Covered
<1> DEFINE b == [branch EXCEPT !.pending = @ \ {n}]
<1>4. b.completed = branch.completed /\ b.pending = branch.pending \ {n}
  BY DEF Branches
<1> HIDE DEF b
<1>5. \A k : Missing(b, k) <=> Missing(branch, k)
  BY <1>1, <1>4 DEF Missing, Joins
<1>6. Tokens(b, n) = Tokens(branch, n)
  <2>1. Held(b) = Held(branch)
    BY <1>4, <1>5 DEF Held
  <2> QED BY <1>1, <1>4, <2>1 DEF Tokens
<1>7. EndDone(b) <=> EndDone(branch)
  BY <1>4 DEF EndDone
<1>8. BeforeJoins(Tokens(b, n), b) /\ JoinsOpen(b)
  BY <1>3, <1>4, <1>5, <1>6 DEF Covered, BeforeJoins, JoinsOpen
<1>9. Covered(b, n)
  BY <1>3, <1>4, <1>6, <1>7, <1>8 DEF Covered
<1> QED BY <1>3, <1>9 DEF b

\* Of the joins that are missing, one comes before none of the others.
LEMMA FirstOf ==
  ASSUME Structured, NEW S \in SUBSET Nodes, S # {}
  PROVE  \E k \in S : \A l \in S : Depth[k] <= Depth[l]
<1> DEFINE D == {Depth[k] : k \in S}
<1>1. \A k \in Nodes : Depth[k] \in Nat
  BY DepthType
<1>2. D \subseteq Nat /\ D # {}
  BY <1>1
<1> DEFINE R == OpToRel(<, Nat)
<1>3. IsWellFoundedOn(R, Nat)
  BY NatLessThanWellFounded
<1>4. \A x, y \in Nat : x < y => <<x, y>> \in R
  BY DEF OpToRel
<1> HIDE DEF R, D
<1>5. PICK d \in D : \A e \in D : ~ (<<e, d>> \in R)
  BY <1>2, <1>3, WFMin
<1>6. \A e \in D : d <= e
  <2> SUFFICES ASSUME NEW e \in D, ~(d <= e) PROVE FALSE
    OBVIOUS
  <2>1. e \in Nat /\ d \in Nat
    BY <1>2
  <2>2. e < d
    BY <2>1
  <2>3. <<e, d>> \in R
    BY <1>4, <2>1, <2>2
  <2> QED BY <1>5, <2>3
<1> QED BY <1>6 DEF D

(* A run with nothing to visit is at its end: were a join still to come,   *)
(* take the first; what it waits for is on a strand whose token is held up *)
(* before a join that comes even earlier.                                  *)
LEMMA NothingIsStuck ==
  ASSUME Structured, NEW branch \in Branches, branch.pending = {}, Covered(branch, None)
  PROVE  EndDone(branch)
<1> SUFFICES ASSUME ~EndDone(branch) PROVE FALSE
  OBVIOUS
<1> DEFINE T == Tokens(branch, None)
           M == {k \in Joins : Missing(branch, k)}
<1>1. T = Held(branch) /\ T \subseteq Nodes /\ T \subseteq branch.completed
  BY GraphAssumption DEF Tokens, Held, Branches
<1>2. Apart(T) /\ Everywhere(T) /\ BeforeJoins(T, branch) /\ JoinsOpen(branch)
  BY DEF Covered
<1>3. \A m \in Nodes : Depth[m] \in Nat /\ Cover[m] \subseteq Strands /\ Cover[m] # {}
  BY DepthType
<1> HIDE DEF T
\* Every strand is held up before a join.
<1>4. ASSUME NEW c \in Strands
      PROVE  \E y \in T : c \in Cover[y] /\ \E k \in M : k \in Targets(y)
  <2>1. PICK y \in T : c \in Cover[y]
    BY <1>2 DEF Everywhere
  <2> QED BY <1>1, <2>1 DEF Held, Missing
<1>5. M # {}
  <2>1. Cover[First] = Strands /\ First \in Nodes
    BY LifecycleAssumption DEF Structured, FromFirstToEnd
  <2> QED BY <1>3, <1>4, <2>1
<1>6. PICK k \in M : \A l \in M : Depth[k] <= Depth[l]
  BY <1>5, FirstOf DEF Joins
<1>7. k \in Joins /\ k \in Nodes /\ Missing(branch, k)
  BY DEF Joins
<1>8. PICK m \in Inbound(k) : m \notin branch.completed
  BY <1>2, <1>7 DEF JoinsOpen
<1>9. m \in Nodes
  BY <1>8 DEF Inbound
<1>10. PICK c \in Strands : c \in Cover[m]
  BY <1>3, <1>9
<1>11. c \in Cover[k]
  BY <1>7, <1>8, <1>10 DEF Structured, JoinsGather
<1>12. PICK y \in T : c \in Cover[y] /\ \E l \in M : l \in Targets(y)
  BY <1>4, <1>10
<1>13. PICK l \in M : l \in Targets(y)
  BY <1>12
<1>14. y \in Nodes /\ y \in Inbound(l) /\ l \in Joins /\ l \in Nodes
  BY <1>1, <1>12, <1>13 DEF Inbound, Joins
<1>15. c \in Cover[l]
  BY <1>12, <1>14 DEF Structured, JoinsGather
<1>16. Depth[y] < Depth[k]
  BY <1>2, <1>7, <1>11, <1>12 DEF BeforeJoins, Meet
<1>17. l = k \/ Depth[l] < Depth[k]
  BY <1>7, <1>11, <1>12, <1>13, <1>14, <1>15, <1>16 DEF Structured, NoneLeadsPast
<1>18. l = k
  BY <1>3, <1>6, <1>7, <1>13, <1>14, <1>17
<1>19. y # m /\ Meet(y, m)
  BY <1>1, <1>8, <1>10, <1>12 DEF Meet
<1> QED BY <1>7, <1>8, <1>14, <1>18, <1>19 DEF Structured, JoinsGather

-----------------------------------------------------------------------------
(* Actions that leave the branch state on its way alone.                   *)

LEMMA CoveredSettles ==
  ASSUME CoverInv, NEW p \in Procs, Moves(p), OpCovered(op'[p]), RowCovered(run')
  PROVE  CoverInv'
<1>1. \A q \in Procs : OpCovered(op'[q])
  BY DEF CoverInv, Moves
<1> QED BY <1>1 DEF CoverInv

LEMMA GotoCovered ==
  ASSUME TypeInv, CoverInv, NEW p \in Procs, NEW pc \in Statements \ {"drain", "commit"},
         Goto(p, pc), op[p].pc \notin Restarting \/ pc \in Restarting, RowCovered(run')
  PROVE  CoverInv'
<1>1. op'[p].pc = pc /\ Moves(p) /\ (pc \notin Restarting => op'[p].snap = op[p].snap)
  BY GotoFacts DEF Restarting
<1>2. op[p].pc \notin Restarting => RowCovered(op[p].snap)
  BY DEF CoverInv, OpCovered
<1>3. OpCovered(op'[p])
  BY <1>1, <1>2 DEF OpCovered
<1> QED BY <1>1, <1>3, CoveredSettles

\* An operation that goes on with what it has read, or with the run as it is now.
LEMMA ReadsCovered ==
  ASSUME TypeInv, CoverInv, NEW p \in Procs, NEW o, op' = [op EXCEPT ![p] = o],
         o.pc \notin {"drain", "commit"}, UNCHANGED run,
         \/ o.pc \in Restarting \/ o.snap = run
         \/ o.snap = op[p].snap /\ op[p].pc \notin Restarting
  PROVE  CoverInv'
<1>1. op'[p] = o /\ Moves(p)
  BY MoveFacts
<1>2. /\ RowCovered(run) /\ RowCovered(run')
      /\ op[p].pc \notin Restarting => RowCovered(op[p].snap)
  BY DEF CoverInv, OpCovered
<1>3. OpCovered(o)
  BY <1>2 DEF OpCovered
<1> QED BY <1>1, <1>2, <1>3, CoveredSettles

\* Only a commit completes the run.
LEMMA WriteCovered ==
  ASSUME TypeInv, CoverInv, NEW p \in Procs, op[p].pc \notin Restarting,
         NEW status, status # "COMPLETED",
         \/ Write([op[p].snap EXCEPT !.status = status])
         \/ WriteControl([op[p].snap EXCEPT !.status = status])
  PROVE  RowCovered(run')
<1> DEFINE row == [op[p].snap EXCEPT !.status = status]
<1>1. op[p].snap \in Rows /\ RowCovered(op[p].snap) /\ RowCovered(run)
  BY OpFields DEF CoverInv, OpCovered
<1>2. row.node = op[p].snap.node /\ row.branch = op[p].snap.branch /\ row.status = status
  BY <1>1 DEF Rows
<1>3. run' = run \/ run' = row
  BY DEF Write, WriteControl
<1> HIDE DEF row
<1>4. RowCovered(row)
  BY <1>1, <1>2 DEF RowCovered
<1> QED BY <1>1, <1>3, <1>4

LEMMA RowActionsCovered ==
  ASSUME TypeInv, CoverInv, NEW p \in Procs, NEW r \in Procs,
         \/ RunRow \/ FailRow \/ ParkRun(p)
         \/ PauseRow(r) \/ ResumeRow(r) \/ CancelRow(r) \/ Requeue(r) \/ RetryRow(r)
  PROVE  CoverInv'
<1>1. Worker \in Procs
  BY DEF Procs
<1>2. {"reread", "finish", "idle"} \cup Continuations \subseteq Statements \ {"drain", "commit"}
  BY DEF Statements, Continuations
<1>3. \A type : WaitingFor(type) # "COMPLETED"
  BY DEF WaitingFor
<1>4. CASE RunRow
  <2>1. op[Worker].pc \notin Restarting /\ Goto(Worker, "reread")
    BY <1>4 DEF RunRow, At, Restarting
  <2>2. RowCovered(run')
    BY <1>1, <1>4, <2>1, WriteCovered DEF RunRow
  <2> QED BY <1>1, <1>2, <2>1, <2>2, GotoCovered
<1>5. CASE FailRow
  <2>1. op[Worker].pc \notin Restarting /\ Goto(Worker, op[Worker].then)
    BY <1>5 DEF FailRow, At, Restarting
  <2>2. RowCovered(run')
    BY <1>1, <1>5, <2>1, WriteCovered DEF FailRow
  <2>3. op[Worker].then \in Continuations
    BY <1>1, OpFields
  <2> QED BY <1>1, <1>2, <2>1, <2>2, <2>3, GotoCovered
<1>6. CASE ParkRun(p)
  <2>1. op[p].pc \notin Restarting /\ Goto(p, op[p].then)
    BY <1>6 DEF ParkRun, At, Restarting
  <2>2. RowCovered(run')
    BY <1>3, <1>6, <2>1, WriteCovered DEF ParkRun
  <2>3. op[p].then \in Continuations
    BY OpFields
  <2> QED BY <1>2, <2>1, <2>2, <2>3, GotoCovered
<1>7. CASE PauseRow(r) \/ CancelRow(r) \/ RetryRow(r)
  <2>1. op[r].pc \notin Restarting /\ Goto(r, "idle")
    BY <1>7 DEF PauseRow, CancelRow, RetryRow, At, Restarting
  <2>2. RowCovered(run')
    BY <1>7, <2>1, WriteCovered DEF PauseRow, CancelRow, RetryRow
  <2> QED BY <1>2, <2>1, <2>2, GotoCovered
<1>8. CASE ResumeRow(r)
  <2> DEFINE status == IF op[r].wait = 0 THEN "QUEUED" ELSE WaitingFor(waits[op[r].wait].type)
  <2>1. op[r].pc \notin Restarting /\ Goto(r, "idle")
          /\ WriteControl([op[r].snap EXCEPT !.status = status])
    BY <1>8 DEF ResumeRow, At, Restarting
  <2>2. status # "COMPLETED"
    BY <1>3
  <2> HIDE DEF status
  <2>3. RowCovered(run')
    BY <2>1, <2>2, WriteCovered
  <2> QED BY <1>2, <2>1, <2>3, GotoCovered
<1>9. CASE Requeue(r)
  <2>1. op[r].pc \notin Restarting /\ Goto(r, "finish")
    BY <1>9 DEF Requeue, At, Restarting
  <2>2. RowCovered(run')
    BY <1>9, <2>1, WriteCovered DEF Requeue
  <2> QED BY <1>2, <2>1, <2>2, GotoCovered
<1> QED BY <1>4, <1>5, <1>6, <1>7, <1>8, <1>9

LEMMA QuietActionsCovered ==
  ASSUME TypeInv, CoverInv, NEW p \in Procs, NEW r \in Procs,
         \/ Claim \/ StartStep \/ Work \/ FailStep
         \/ CheckStopped(p) \/ OpenWait(p) \/ HoldStep(p) \/ MarkOverride(p)
         \/ CancelWaits(r) \/ Supersede(r) \/ DismissWait(r)
         \/ RetryStep(r) \/ DivertStep(r) \/ Finish(r)
  PROVE  CoverInv'
<1>1. Worker \in Procs /\ RowCovered(run)
  BY DEF Procs, CoverInv
<1>2. {"load", "next", "row", "decide", "failrow", "open", "hold", "park", "idle", "cancelrow",
       "divert", "done", "queue", "check"} \cup Continuations
        \subseteq Statements \ {"drain", "commit"}
  BY DEF Statements, Continuations
<1>3. CASE Claim
  <2>1. run \in Rows
    BY DataIsTyped DEF DataTyped
  <2>2. run'.branch = run.branch /\ run'.node = run.node /\ run'.status = "RUNNING"
    BY <1>3, <2>1 DEF Claim, Rows
  <2>3. RowCovered(run')
    BY <1>1, <2>2 DEF RowCovered
  <2> QED BY <1>1, <1>2, <1>3, <2>3, GotoCovered DEF Claim, Restarting
<1>4. CASE StartStep \/ Work \/ FailStep
  <2>1. /\ op[Worker].pc \notin Restarting /\ run' = run
        /\ \E pc \in {"next", "row", "decide", "failrow"} : Goto(Worker, pc)
    BY <1>4 DEF StartStep, Work, FailStep, At, Same, Restarting
  <2> QED BY <1>1, <1>2, <2>1, GotoCovered
<1>5. CASE CheckStopped(p)
  <2> DEFINE pc == IF Stopped THEN op[p].then ELSE "open"
  <2>1. op[p].pc \notin Restarting /\ run' = run /\ Goto(p, pc)
    BY <1>5 DEF CheckStopped, At, Same, Restarting
  <2>2. pc \in Continuations \cup {"open"}
    BY OpFields
  <2> HIDE DEF pc
  <2> QED BY <1>1, <1>2, <2>1, <2>2, GotoCovered
<1>6. CASE OpenWait(p) \/ HoldStep(p) \/ MarkOverride(p)
  <2>1. /\ op[p].pc \notin Restarting /\ run' = run
        /\ \E pc \in {"hold", "park", "next", "idle"} : Goto(p, pc)
    BY <1>6 DEF OpenWait, HoldStep, MarkOverride, At, Restarting
  <2> QED BY <1>1, <1>2, <2>1, GotoCovered
<1>7. CASE \/ CancelWaits(r) \/ Supersede(r) \/ DismissWait(r)
           \/ RetryStep(r) \/ DivertStep(r) \/ Finish(r)
  <2>1. /\ op[r].pc \notin Restarting /\ run' = run
        /\ \E pc \in {"cancelrow", "divert", "done", "queue", "check", "idle"} : Goto(r, pc)
    BY <1>7 DEF CancelWaits, Supersede, DismissWait, RetryStep, DivertStep, Finish, At, Restarting
  <2> QED BY <1>1, <1>2, <2>1, GotoCovered
<1> QED BY <1>3, <1>4, <1>5, <1>6, <1>7

LEMMA WorkerReadsCovered ==
  ASSUME TypeInv, CoverInv,
         Load \/ Reread \/ CheckOverride \/ ReadFailure \/ Decide \/ WorkerStops
  PROVE  CoverInv'
<1>1. Worker \in Procs /\ RowCovered(run)
  BY DEF Procs, CoverInv
<1>2. op[Worker] \in Operations
  BY <1>1, OpFields
<1>3. CASE Load
  <2>1. PICK o : LoadsTo(o)
    BY <1>3, LoadFacts
  <2>2. o.pc \notin {"drain", "commit"} /\ (o.pc \in Restarting \/ o.snap = run)
          /\ op' = [op EXCEPT ![Worker] = o]
    BY <2>1 DEF LoadsTo, Restarting
  <2>3. UNCHANGED run
    BY <1>3 DEF Load, Same
  <2> QED BY <1>1, <2>2, <2>3, ReadsCovered
<1>4. CASE Reread
  <2> DEFINE o == [op[Worker] EXCEPT !.pc = "override", !.snap = run]
  <2>1. op' = [op EXCEPT ![Worker] = o] /\ run' = run
    BY <1>4 DEF Reread, Same
  <2>2. o.pc = "override" /\ o.snap = run
    BY <1>2 DEF Operations
  <2> HIDE DEF o
  <2> QED BY <1>1, <2>1, <2>2, ReadsCovered
<1>5. CASE CheckOverride
  <2>1. op[Worker].pc \notin Restarting /\ run' = run
    BY <1>5 DEF CheckOverride, At, Restarting
  <2>2. CASE override[op[Worker].node] = "ACTIVE"
    <3> DEFINE o == [op[Worker] EXCEPT !.pc = "check", !.opens = "HUMAN_TASK", !.then = "mark"]
    <3>1. op' = [op EXCEPT ![Worker] = o]
      BY <1>5, <2>2 DEF CheckOverride
    <3>2. o.pc = "check" /\ o.snap = op[Worker].snap
      BY <1>2 DEF Operations
    <3> HIDE DEF o
    <3> QED BY <1>1, <2>1, <3>1, <3>2, ReadsCovered
  <2>3. CASE override[op[Worker].node] # "ACTIVE"
    <3>1. Goto(Worker, "work") /\ "work" \in Statements \ {"drain", "commit"}
      BY <1>5, <2>3 DEF CheckOverride, Statements
    <3> QED BY <1>1, <2>1, <3>1, GotoCovered
  <2> QED BY <2>2, <2>3
<1>6. CASE ReadFailure
  <2> DEFINE pc == IF step[run.node] \in {"FAILED", "COMPLETED"} THEN "failrow" ELSE "fail"
             o == [IdleOp EXCEPT !.snap = run, !.node = run.node, !.pc = pc]
  <2>1. (op' = [op EXCEPT ![Worker] = IdleOp] \/ op' = [op EXCEPT ![Worker] = o]) /\ run' = run
    BY <1>6 DEF ReadFailure, Same
  <2>2. pc \in {"failrow", "fail"}
    OBVIOUS
  <2> HIDE DEF pc
  <2>3. o.pc = pc /\ o.snap = run /\ IdleOp.pc = "idle"
    BY IdleOpType DEF Operations, IdleOp
  <2> HIDE DEF o
  <2> QED BY <1>1, <2>1, <2>2, <2>3, ReadsCovered DEF Restarting
<1>7. CASE Decide
  <2>1. PICK o : DecidesOn(o)
    BY <1>7, DecideFacts
  <2>2. o.pc \notin {"drain", "commit"} /\ o.snap = op[Worker].snap
          /\ op' = [op EXCEPT ![Worker] = o]
    BY <2>1 DEF DecidesOn
  <2>3. op[Worker].pc \notin Restarting /\ run' = run
    BY <1>7 DEF Decide, At, Same, Restarting
  <2> QED BY <1>1, <2>2, <2>3, ReadsCovered
<1>8. CASE WorkerStops
  <2>1. op' = [op EXCEPT ![Worker] = IdleOp] /\ run' = run
    BY <1>8 DEF WorkerStops, Same
  <2>2. IdleOp.pc = "idle"
    BY DEF IdleOp
  <2> QED BY <1>1, <2>1, <2>2, ReadsCovered DEF Restarting
<1> QED BY <1>3, <1>4, <1>5, <1>6, <1>7, <1>8

LEMMA RequestReadsCovered ==
  ASSUME TypeInv, CoverInv, NEW r \in Requests, Arrive(r) \/ Answer(r)
  PROVE  CoverInv'
<1>1. r \in Procs
  BY DEF Procs
<1>2. CASE Arrive(r)
  <2>1. PICK o : op' = [op EXCEPT ![r] = o] /\ o.snap = run /\ SetsOut(o)
    BY <1>2, ArriveFacts
  <2>2. o.pc \notin {"drain", "commit"} /\ run' = run
    BY <1>2, <2>1, ArriveFacts DEF SetsOut, Same
  <2> QED BY <1>1, <2>1, <2>2, ReadsCovered
<1>3. CASE Answer(r)
  <2>1. PICK o : AnswersTo(r, o)
    BY <1>3, AnswerFacts
  <2>2. o.pc \notin {"drain", "commit"} /\ o.snap = op[r].snap /\ op' = [op EXCEPT ![r] = o]
    BY <2>1 DEF AnswersTo
  <2>3. op[r].pc \notin Restarting /\ run' = run
    BY <1>3 DEF Answer, At, Restarting
  <2> QED BY <1>1, <2>2, <2>3, ReadsCovered
<1> QED BY <1>2, <1>3

-----------------------------------------------------------------------------
(* Actions that go past a node.                                            *)

LEMMA CompleteStepCovered ==
  ASSUME Structured, TypeInv, SoundInv, CoverInv, NEW p \in Procs, CompleteStep(p)
  PROVE  CoverInv'
<1>1. /\ op[p].pc \notin Restarting /\ run' = run /\ RowCovered(run)
      /\ RowCovered(op[p].snap) /\ OpSound(op[p])
  BY DEF CompleteStep, At, Restarting, CoverInv, OpCovered, SoundInv
<1>2. op[p] \in Operations /\ op[p].snap \in Rows
  BY OpFields
<1>3. CASE op[p].snap.node = None
  <2>1. Goto(p, "reconcile") /\ "reconcile" \in Statements \ {"drain", "commit"}
    BY <1>3 DEF CompleteStep, Statements
  <2> QED BY <1>1, <2>1, GotoCovered
<1>4. CASE op[p].snap.node # None
  <2> DEFINE n == op[p].snap.node
  <2>1. n \in Nodes /\ op[p].snap.branch \in Branches
    BY <1>2, <1>4 DEF Rows
  <2>2. PICK targets \in Selections(n) :
          op' = [op EXCEPT ![p].pc = "drain", ![p].next = None,
                           ![p].branch = After(op[p].snap.branch, n, targets)]
    BY <1>4 DEF CompleteStep
  <2> DEFINE branch == After(op[p].snap.branch, n, targets)
             o == [op[p] EXCEPT !.pc = "drain", !.next = None, !.branch = branch]
  <2>3. op' = [op EXCEPT ![p] = o]
    BY <2>2
  <2>4. Sound(op[p].snap.branch, n) /\ Type[n] # "PARALLEL_JOIN"
    BY <1>1, <1>4 DEF OpSound, RowSound, Resting
  <2>5. Covered(op[p].snap.branch, n) /\ Type[n] # "END"
    BY <1>1, <2>1 DEF RowCovered, Covered
  <2>6. n # None
    BY <1>4
  <2> HIDE DEF n
  <2>7. Covered(branch, None)
    BY <2>1, <2>4, <2>5, <2>6, AfterCovered
  <2> HIDE DEF branch
  <2>8. o.snap = op[p].snap /\ o.branch = branch /\ o.next = None /\ o.pc = "drain"
    BY <1>2 DEF Operations
  <2> HIDE DEF o
  <2>9. OpCovered(o)
    BY <1>1, <2>7, <2>8 DEF OpCovered
  <2> QED BY <1>1, <2>3, <2>9, MoveFacts, CoveredSettles
<1> QED BY <1>3, <1>4

LEMMA DrainCovered ==
  ASSUME Structured, TypeInv, SoundInv, CoverInv, NEW p \in Procs, Drain(p)
  PROVE  CoverInv'
<1>1. RowCovered(run') /\ RowCovered(op[p].snap)
  BY DEF Drain, At, Restarting, CoverInv, OpCovered
<1>2. op[p] \in Operations /\ op[p].branch \in Branches
  BY OpFields
<1>3. op[p].next = None /\ Sound(op[p].branch, None) /\ Covered(op[p].branch, None)
  BY DEF Drain, At, SoundInv, OpSound, CoverInv, OpCovered
<1>4. PICK n \in Foremost(op[p].branch) : Drain(p)!2!(n)
  BY DEF Drain
<1>5. n \in op[p].branch.pending /\ n \in Nodes /\ n # None
  BY <1>2, GraphAssumption DEF Foremost, Branches
\* What is left to show of each turn of the loop.
<1>6. ASSUME NEW o, op' = [op EXCEPT ![p] = o], o.snap = op[p].snap,
             Covered(o.branch, o.next), o.next = None /\ o.pc = "commit" => EndDone(o.branch)
      PROVE  CoverInv'
  <2>1. OpCovered(o)
    BY <1>1, <1>6 DEF OpCovered
  <2> QED BY <1>1, <1>6, <2>1, MoveFacts, CoveredSettles
<1>7. CASE Drain(p)!2!(n)!1
  <2> DEFINE branch == After(op[p].branch, n, {})
             o == [op[p] EXCEPT !.pc = "commit", !.branch = branch]
  <2>1. op' = [op EXCEPT ![p] = o] /\ Type[n] = "END"
    BY <1>7
  <2>2. Covered(branch, None) /\ EndDone(branch)
    BY <1>2, <1>3, <1>5, <2>1, EndCovered
  <2> HIDE DEF branch
  <2>3. o.snap = op[p].snap /\ o.branch = branch /\ o.next = None
    BY <1>2, <1>3 DEF Operations
  <2> HIDE DEF o
  <2> QED BY <1>6, <2>1, <2>2, <2>3
<1>8. CASE Drain(p)!2!(n)!2
  <2>1. PICK targets \in Selections(n) :
          op' = [op EXCEPT ![p].branch = After(@, n, targets)]
    BY <1>8
  <2> DEFINE branch == After(op[p].branch, n, targets)
             o == [op[p] EXCEPT !.branch = branch]
  <2>2. op' = [op EXCEPT ![p] = o]
    BY <2>1
  <2>3. Type[n] # "END"
    BY <1>8 DEF Relays, Control
  <2>4. Covered(branch, None)
    BY <1>2, <1>3, <1>5, <2>3, AfterCovered
  <2> HIDE DEF branch
  <2>5. o.snap = op[p].snap /\ o.branch = branch /\ o.next = None /\ o.pc = "drain"
    BY <1>2, <1>3 DEF Operations, Drain, At
  <2> HIDE DEF o
  <2> QED BY <1>6, <2>2, <2>4, <2>5
<1>9. CASE Drain(p)!2!(n)!3
  <2> DEFINE branch == [op[p].branch EXCEPT !.pending = @ \ {n}]
             o == [op[p] EXCEPT !.pc = "commit", !.next = n, !.branch = branch]
  <2>1. op' = [op EXCEPT ![p] = o] /\ Type[n] \notin {"END", "PARALLEL_JOIN"}
    BY <1>9
  <2>2. Covered(branch, n)
    BY <1>2, <1>3, <1>5, <2>1, RestCovered
  <2> HIDE DEF branch
  <2>3. o.snap = op[p].snap /\ o.branch = branch /\ o.next = n
    BY <1>2 DEF Operations
  <2> HIDE DEF o
  <2> QED BY <1>5, <1>6, <2>1, <2>2, <2>3
<1>10. CASE Drain(p)!2!(n)!4
  <2> DEFINE o == [op[p] EXCEPT !.pc = "commit", !.next = n]
  <2>1. op' = [op EXCEPT ![p] = o] /\ Type[n] \notin {"END", "PARALLEL_JOIN"}
    BY <1>10 DEF Visible
  <2>2. Covered(op[p].branch, n)
    BY <1>2, <1>3, <1>5, <2>1, RestCovered
  <2>3. o.snap = op[p].snap /\ o.branch = op[p].branch /\ o.next = n
    BY <1>2 DEF Operations
  <2> HIDE DEF o
  <2> QED BY <1>5, <1>6, <2>1, <2>2, <2>3
<1> QED BY <1>4, <1>7, <1>8, <1>9, <1>10

LEMMA NothingPendingCovered ==
  ASSUME Structured, TypeInv, SoundInv, CoverInv, NEW p \in Procs, NothingPending(p)
  PROVE  CoverInv'
<1>1. At(p, "drain") /\ op[p].branch.pending = {} /\ run' = run /\ Goto(p, "commit")
  BY DEF NothingPending, Same
<1>2. /\ RowCovered(run) /\ RowCovered(op[p].snap)
      /\ op[p].next = None /\ Covered(op[p].branch, None)
  BY <1>1 DEF At, Restarting, CoverInv, OpCovered, SoundInv, OpSound
<1>3. op[p].branch \in Branches /\ "commit" \in Statements
  BY OpFields DEF Statements
<1>4. EndDone(op[p].branch)
  BY <1>1, <1>2, <1>3, NothingIsStuck
<1>5. /\ Moves(p) /\ op'[p].snap = op[p].snap
      /\ op'[p].branch = op[p].branch /\ op'[p].next = op[p].next
  BY <1>1, <1>3, GotoFacts
<1>6. OpCovered(op'[p])
  BY <1>2, <1>4, <1>5 DEF OpCovered
<1> QED BY <1>1, <1>2, <1>5, <1>6, CoveredSettles

LEMMA CommitCovered ==
  ASSUME TypeInv, CoverInv, NEW p \in Procs, Commit(p)
  PROVE  CoverInv'
<1> DEFINE row == [status |-> IF op[p].next = None THEN "COMPLETED" ELSE "RUNNING",
                   node |-> op[p].next, branch |-> op[p].branch]
<1>1. RowCovered(run) /\ RowCovered(row)
  BY DEF Commit, At, CoverInv, OpCovered, RowCovered
<1>2. run' = run \/ run' = row
  BY DEF Commit, Write
<1> HIDE DEF row
<1>3. PICK o : CommitsTo(p, o)
  BY CommitFacts
<1>4. o.pc \notin {"drain", "commit"} /\ o.snap = run' /\ op' = [op EXCEPT ![p] = o]
  BY <1>3, OpFields DEF CommitsTo, Continuations
<1>5. RowCovered(run')
  BY <1>1, <1>2
<1>6. OpCovered(o)
  BY <1>4, <1>5 DEF OpCovered
<1> QED BY <1>4, <1>5, <1>6, MoveFacts, CoveredSettles

-----------------------------------------------------------------------------
(* The theorem.                                                            *)

LEMMA CreatedCovered == ASSUME Structured PROVE RowCovered(Created)
<1> DEFINE b == Created.branch
<1>1. /\ b.pending = {First} /\ b.completed = Prefix /\ Created.node = First
      /\ Created.status # "COMPLETED"
  BY DEF Created
<1>2. First \in Nodes /\ Prefix \subseteq Nodes \ {First} /\ Type[First] # "END"
  BY LifecycleAssumption DEF Visible
<1>3. /\ \A n \in Prefix : Type[n] # "END" /\ Targets(n) \cap Joins = {} /\ Depth[n] < Depth[First]
      /\ \A k \in Joins : Depth[First] < Depth[k]
      /\ Cover[First] = Strands
  BY DEF Structured, StartsBefore, FromFirstToEnd
<1> HIDE DEF b
<1>4. ~EndDone(b)
  BY <1>1, <1>3 DEF EndDone
<1>5. Tokens(b, First) = {First}
  BY <1>1, <1>2, <1>3 DEF Tokens, Held, Missing
<1>6. Everywhere({First}) /\ Apart({First})
  BY <1>3 DEF Everywhere, Apart
<1>7. InFront({First}, b.completed)
  <2>1. \A n \in Prefix : Depth[n] \in Nat /\ Depth[First] \in Nat
    BY <1>2, DepthType
  <2> QED BY <1>1, <1>3, <2>1 DEF InFront
<1>8. BeforeJoins({First}, b)
  BY <1>3 DEF BeforeJoins
<1>9. JoinsOpen(b)
  <2> SUFFICES ASSUME NEW k \in Joins, Inbound(k) \subseteq Prefix PROVE FALSE
    BY <1>1 DEF JoinsOpen
  <2>1. PICK c \in Strands : c \in Cover[k]
    BY DepthType DEF Joins
  <2>2. PICK m \in Inbound(k) : c \in Cover[m]
    BY <2>1 DEF Structured, JoinsGather
  <2> QED BY <1>3, <2>2 DEF Inbound
<1>10. Covered(b, First)
  BY <1>1, <1>2, <1>4, <1>5, <1>6, <1>7, <1>8, <1>9 DEF Covered
<1> QED BY <1>1, <1>10 DEF RowCovered, b

LEMMA CoverInvInit == ASSUME Structured PROVE Init => CoverInv
<1> SUFFICES ASSUME Init PROVE CoverInv
  OBVIOUS
<1>1. run = Created /\ \A p \in Procs : op[p] = IdleOp
  BY DEF Init
<1>2. IdleOp.pc = "idle"
  BY DEF IdleOp
<1> QED BY <1>1, <1>2, CreatedCovered DEF CoverInv, OpCovered, Restarting

LEMMA CoverInvNext ==
  ASSUME Structured
  PROVE  TypeInv /\ SoundInv /\ CoverInv /\ [Next]_vars => CoverInv'
<1> SUFFICES ASSUME TypeInv, SoundInv, CoverInv, [Next]_vars PROVE CoverInv'
  OBVIOUS
<1>1. Worker \in Procs /\ Requests \subseteq Procs
  BY DEF Procs
<1>2. ASSUME NEW p \in Procs, Park(p) \/ Advance(p)
      PROVE  CoverInv'
  BY <1>2, RowActionsCovered, QuietActionsCovered, CompleteStepCovered, DrainCovered,
     NothingPendingCovered, CommitCovered DEF Park, Advance
<1>3. CASE Execute
  <2>1. CASE RunRow \/ FailRow
    BY <1>1, <2>1, RowActionsCovered
  <2>2. CASE Claim \/ StartStep \/ Work \/ FailStep
    BY <1>1, <2>2, QuietActionsCovered
  <2>3. CASE Load \/ Reread \/ CheckOverride \/ ReadFailure \/ Decide
    BY <2>3, WorkerReadsCovered
  <2> QED BY <1>1, <1>2, <1>3, <2>1, <2>2, <2>3 DEF Execute
<1>4. ASSUME NEW r \in Requests, Arrive(r) \/ Serve(r)
      PROVE  CoverInv'
  <2>1. CASE PauseRow(r) \/ ResumeRow(r) \/ CancelRow(r) \/ Requeue(r) \/ RetryRow(r)
    BY <1>1, <2>1, RowActionsCovered
  <2>2. CASE \/ CancelWaits(r) \/ Supersede(r) \/ DismissWait(r)
             \/ RetryStep(r) \/ DivertStep(r) \/ Finish(r)
    BY <1>1, <2>2, QuietActionsCovered
  <2>3. CASE Arrive(r) \/ Answer(r)
    BY <2>3, RequestReadsCovered
  <2> QED BY <1>1, <1>2, <1>4, <2>1, <2>2, <2>3 DEF Serve
<1>5. CASE WorkerStops
  BY <1>5, WorkerReadsCovered
<1>6. CASE ServerStops
  <2>1. op' = [p \in Procs |-> IF p = Worker THEN op[p] ELSE IdleOp] /\ run' = run
    BY <1>6 DEF ServerStops, Same
  <2>2. IdleOp.pc = "idle"
    BY DEF IdleOp
  <2>3. OpCovered(IdleOp)
    BY <2>2 DEF OpCovered, Restarting
  <2>4. \A p \in Procs : op'[p] = op[p] \/ op'[p] = IdleOp
    BY <2>1
  <2> QED BY <2>1, <2>3, <2>4 DEF CoverInv
<1>7. CASE UNCHANGED vars
  BY <1>7 DEF vars, CoverInv
<1> QED BY <1>3, <1>4, <1>5, <1>6, <1>7 DEF Next

(* A run is only completed with an END behind it, nothing left to visit,   *)
(* and every branch of its splits and joins done: in every workflow whose  *)
(* splits are matched by their joins, whatever requests overlap, and       *)
(* wherever executor and server are cut short.                             *)
THEOREM CompletionIsComplete == ASSUME Structured PROVE Spec => []AllBranchesDone
<1>1. ASSUME TypeInv, SoundInv, CoverInv
      PROVE  AllBranchesDone
  <2> SUFFICES ASSUME run.status = "COMPLETED"
               PROVE  AllBranchesDone!2
    BY DEF AllBranchesDone
  <2>1. run \in Rows /\ Sound(run.branch, run.node) /\ Covered(run.branch, run.node)
          /\ EndDone(run.branch)
    BY <1>1, DataIsTyped DEF DataTyped, SoundInv, RowSound, CoverInv, RowCovered
  <2>2. Tokens(run.branch, run.node) = {}
    BY <2>1 DEF Covered
  <2>3. /\ run.branch.pending = {} /\ run.node \notin Nodes
        /\ run.branch.completed \subseteq Nodes
    BY <2>1, <2>2 DEF Tokens, Rows, Branches
  <2>4. ASSUME NEW n \in run.branch.completed, Type[n] = "PARALLEL_SPLIT"
        PROVE  Targets(n) \subseteq run.branch.completed
    <3>1. n \in Nodes /\ n \notin Prefix /\ Targets(n) \cap Joins = {}
      BY <2>3, <2>4 DEF Structured, SplitsDeal, StartsBefore
    <3>2. Targets(n) \subseteq Nodes
      BY <3>1, TargetsType
    <3> QED BY <2>1, <2>3, <2>4, <3>1, <3>2 DEF Sound, Joins
  <2>5. ASSUME NEW n \in run.branch.completed, Type[n] = "PARALLEL_JOIN"
        PROVE  Inbound(n) \subseteq run.branch.completed
    <3>1. n \notin Prefix
      BY <2>5 DEF Structured, StartsBefore
    <3> QED BY <2>1, <2>5, <3>1 DEF Sound
  <2> QED BY <2>1, <2>3, <2>4, <2>5 DEF EndDone
<1>2. Init => SoundInv
  BY IdleOpSound DEF Init, SoundInv
<1> QED BY <1>1, <1>2, TypeInvInit, TypeInvNext, SoundInvNext, CoverInvInit, CoverInvNext, PTL
        DEF Spec
=============================================================================
