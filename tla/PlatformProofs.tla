--------------------------- MODULE PlatformProofs ---------------------------
(***************************************************************************)
(* What TLAPS proves of the parts that MCPlatform composes, part by part, and  *)
(* of the properties of the composition that runs check. The archives, the      *)
(* passes, the background jobs and the sweeps have modules of proofs of their   *)
(* own, which the last section cites.                                         *)
(*                                                                         *)
(* Each section has the inductive invariant of a part, what a step leaves of    *)
(* it, and the theorems. The hypotheses on constants are definitions named      *)
(* ...Bounds.                                                               *)
(***************************************************************************)
EXTENDS MCPlatform, FiniteSetTheorems, TLAPS

-----------------------------------------------------------------------------
(* Numbers and sets *)

\* The well-ordering of the natural numbers, from that of the finite sets by inclusion.
LEMMA Smallest ==
    ASSUME NEW T, T \subseteq Nat, T # {}
    PROVE  \E k \in T : \A j \in T : k <= j
<1> DEFINE U == {0 .. k : k \in T}
           R == StrictSubsetOrdering(Nat)
           F == FiniteSubsetsOf(Nat)
<1>1. U \subseteq F /\ U # {}
  <2>1. ASSUME NEW k \in T PROVE 0 .. k \in F
    BY FS_Interval DEF FiniteSubsetsOf
  <2> QED BY <2>1
<1>2. IsWellFoundedOn(R, F)
  BY FS_StrictSubsetOrderingWellFounded
<1>3. PICK u \in U : \A v \in U : ~ (<<v, u>> \in R)
  <2> HIDE DEF U, R, F
  <2> QED BY <1>1, <1>2, WFMin
<1>4. PICK k \in T : u = 0 .. k
  BY <1>3
<1>5. ASSUME NEW j \in T, j < k PROVE FALSE
  <2>1. 0 .. j \subseteq 0 .. k /\ k \in 0 .. k /\ k \notin 0 .. j
    BY <1>5
  <2>2. <<0 .. j, 0 .. k>> \in R
    BY <2>1 DEF StrictSubsetOrdering
  <2> QED BY <1>3, <1>4, <2>2
<1> QED BY <1>5

\* A bounded set of natural numbers has a greatest element.
LEMMA Largest ==
    ASSUME NEW S \in SUBSET Nat, S # {}, NEW n \in Nat, \A s \in S : s <= n
    PROVE  \E m \in S : \A s \in S : s <= m
<1> DEFINE T == {k \in Nat : n - k \in S}
<1>1. T # {}
  <2>1. PICK s \in S : TRUE
    OBVIOUS
  <2>2. n - s \in Nat /\ n - (n - s) = s
    BY <2>1
  <2> QED BY <2>1, <2>2
<1>2. PICK k \in T : \A j \in T : k <= j
  BY <1>1, Smallest
<1>3. ASSUME NEW s \in S PROVE s <= n - k
  <2>1. n - s \in T
    OBVIOUS
  <2> QED BY <1>2, <2>1
<1> QED BY <1>2, <1>3

\* A set without two different elements.
LEMMA AtMostOne ==
    ASSUME NEW S, \A x, y \in S : x = y
    PROVE  Cardinality(S) <= 1
<1>1. CASE S = {}
  BY <1>1, FS_EmptySet
<1>2. CASE S # {}
  <2>1. PICK x \in S : TRUE
    BY <1>2
  <2>2. S = {x}
    BY <2>1
  <2> QED BY <2>2, FS_Singleton
<1> QED BY <1>1, <1>2


-----------------------------------------------------------------------------
(* A workflow, its versions and one session *)

\* Every instance of a module that extends FiniteSets has a Cardinality of its own.
LEMMA AloneCardinality ==
    ASSUME NEW S, \A x, y \in S : x = y
    PROVE  Alone!Cardinality(S) <= 1
<1>1. Cardinality(S) <= 1
  BY AtMostOne
<1>2. Alone!Cardinality(S) = Cardinality(S)
  BY DEF Alone!Cardinality, Cardinality
<1> QED BY <1>1, <1>2

\* What the bounds on versions are: nothing else is assumed of the constants.
VersionBounds == MaxVersions \in Nat \ {0} /\ MaxShared \in Nat \ {0} /\ MaxDeaths \in Nat

\* The versions of a workflow are numbered as they are created.
InOrder ==
    \A v \in Alone!Versions : Alone!Exists(v) =>
        number[v] = v /\ \A o \in Alone!Versions : o < v => Alone!Exists(o)

\* v is the version that was created last.
IsLast(v) ==
    /\ v \in Alone!Versions /\ Alone!Exists(v)
    /\ \A o \in Alone!Versions : Alone!Exists(o) => o <= v

\* A version has one graph at most; a session that is to replace the nodes of a draft has
\* read those that the draft has.
GraphInv ==
    /\ \A v \in Alone!Versions : \A g, h \in nodes[v] : g = h
    /\ session[c1].pc = "replace" =>
           /\ session[c1].version \in Alone!Versions
           /\ status[session[c1].version] = "draft"
           /\ session[c1].listed = nodes[session[c1].version]

\* Only the last version is a draft; a session that is to insert the next one has found the
\* last one, which is no draft, and has its number.
DraftInv ==
    /\ InOrder
    /\ \A v \in Alone!Versions : status[v] = "draft" => IsLast(v)
    /\ session[c1].pc \in {"number", "insert"} =>
           IsLast(session[c1].other) /\ status[session[c1].other] # "draft"
    /\ session[c1].pc = "insert" => session[c1].number = session[c1].other + 1

\* One version is published at most; a session on its way to publish one has seen the
\* statuses as they are, and before its commit the published one.
PublishInv ==
    /\ \A v, o \in Alone!Published : v = o
    /\ session[c1].pc \in {"demote", "commit"} =>
           /\ session[c1].version \in Alone!Versions /\ Alone!Exists(session[c1].version)
           /\ session[c1].seen[session[c1].version] = status[session[c1].version]
           /\ \A v \in Alone!Versions : session[c1].seen[v] \in {"none", status[v]}
    /\ session[c1].pc = "commit" =>
           IF session[c1].other = Alone!NoVersion THEN Alone!Published = {}
           ELSE /\ session[c1].other \in Alone!Published
                /\ session[c1].seen[session[c1].other] = "published"

\* What one session keeps of a workflow, in three parts: graphs, drafts, publications.
AloneInv == GraphInv /\ DraftInv /\ PublishInv

\* The inductive invariant of a workflow with one session.
AloneTypes == Alone!TypeOK /\ AloneInv

\* The session goes on to d.
LEMMA AloneGoes ==
    ASSUME Alone!TypeOK, NEW d, session' = [session EXCEPT ![c1] = d]
    PROVE  session'[c1] = d /\ (d \in Alone!Session => session' \in [{c1} -> Alone!Session])
BY DEF Alone!TypeOK

\* The record of a session that has something in hand.
LEMMA AloneDoing ==
    ASSUME NEW pc \in {"idle", "seed", "number", "insert", "replace", "demote", "commit"},
           NEW v \in Alone!Versions \cup {Alone!NoVersion},
           NEW o \in Alone!Versions \cup {Alone!NoVersion},
           NEW n \in Nat, NEW l \in SUBSET Graphs, NEW s \in [Alone!Versions -> Alone!Status]
    PROVE  /\ Alone!Doing(pc, v, o, n, l, s) \in Alone!Session
           /\ Alone!Doing(pc, v, o, n, l, s).pc = pc
           /\ Alone!Doing(pc, v, o, n, l, s).version = v
           /\ Alone!Doing(pc, v, o, n, l, s).other = o
           /\ Alone!Doing(pc, v, o, n, l, s).number = n
           /\ Alone!Doing(pc, v, o, n, l, s).listed = l
           /\ Alone!Doing(pc, v, o, n, l, s).seen = s
BY DEF Alone!Doing, Alone!Session

\* The record of a session that has nothing in hand.
LEMMA AloneIdle ==
    /\ Alone!Idle \in Alone!Session /\ Alone!Idle.pc = "idle"
    /\ Alone!Nothing \in [Alone!Versions -> Alone!Status]
<1>1. Alone!Nothing \in [Alone!Versions -> Alone!Status]
  BY DEF Alone!Nothing, Alone!Status
<1> QED BY <1>1, AloneDoing DEF Alone!Idle

\* A session that has nothing in hand, or dies, needs nothing of the tables.
LEMMA AloneQuiet ==
    ASSUME AloneTypes, session' = [session EXCEPT ![c1] = Alone!Idle],
           UNCHANGED Alone!tableVars
    PROVE  AloneInv' /\ session' \in [{c1} -> Alone!Session]
<1>1. session'[c1].pc = "idle" /\ session' \in [{c1} -> Alone!Session]
  BY AloneGoes, AloneIdle DEF AloneTypes
<1> QED BY <1>1 DEF AloneTypes, AloneInv, GraphInv, DraftInv, PublishInv, InOrder, IsLast,
           Alone!tableVars, Alone!Exists, Alone!Published

\* The first version of a workflow.
LEMMA AloneFirst ==
    ASSUME AloneTypes, VersionBounds, session[c1].pc = "idle", Alone!Existing = {},
           NEW gs \in SUBSET Graphs, \A g, h \in gs : g = h, Alone!Inserts(1, 1, gs),
           session'[c1].pc \in {"idle", "seed"}
    PROVE  /\ AloneInv'
           /\ status' \in [Alone!Versions -> Alone!Status]
           /\ number' \in [Alone!Versions -> Nat]
           /\ nodes' \in [Alone!Versions -> SUBSET Graphs]
<1>1. \A v \in Alone!Versions : status[v] = "none"
  BY DEF Alone!Existing, Alone!Exists
<1>2. 1 \in Alone!Versions /\ Alone!Versions \subseteq Nat
  BY DEF VersionBounds, Alone!Versions
<1>3. \A v \in Alone!Versions : status'[v] = IF v = 1 THEN "draft" ELSE "none"
  BY <1>1, <1>2 DEF AloneTypes, Alone!TypeOK, Alone!Inserts
<1>4. number'[1] = 1
  BY <1>2 DEF AloneTypes, Alone!TypeOK, Alone!Inserts
<1>5. \A v \in Alone!Versions : nodes'[v] = IF v = 1 THEN gs ELSE nodes[v]
  BY DEF AloneTypes, Alone!TypeOK, Alone!Inserts
<1>6. GraphInv'
  BY <1>5 DEF GraphInv, AloneTypes, AloneInv
<1>7. DraftInv'
  <2>1. InOrder'
    <3>1. \A v \in Alone!Versions : status'[v] # "none" => v = 1
      BY <1>3
    <3>2. \A o \in Alone!Versions : ~ (o < 1)
      BY DEF Alone!Versions, VersionBounds
    <3> QED BY <3>1, <3>2, <1>4 DEF InOrder, Alone!Exists
  <2>2. ASSUME NEW v \in Alone!Versions, status'[v] = "draft" PROVE IsLast(v)'
    <3>1. v = 1
      BY <1>3, <2>2
    <3>2. \A o \in Alone!Versions : status'[o] # "none" => o = 1
      BY <1>3
    <3> QED BY <1>2, <2>2, <3>1, <3>2 DEF IsLast, Alone!Exists
  <2> QED BY <2>1, <2>2 DEF DraftInv
<1>8. PublishInv'
  BY <1>3 DEF PublishInv, Alone!Published
<1>9. /\ status' \in [Alone!Versions -> Alone!Status]
      /\ number' \in [Alone!Versions -> Nat]
      /\ nodes' \in [Alone!Versions -> SUBSET Graphs]
  BY <1>2 DEF AloneTypes, Alone!TypeOK, Alone!Inserts, Alone!Status
<1> QED BY <1>6, <1>7, <1>8, <1>9 DEF AloneInv

\* In order of their numbers the latest version is the last one.
LEMMA AloneLatest ==
    ASSUME AloneTypes, NEW v \in Alone!Latest(Alone!Existing)
    PROVE  IsLast(v) /\ number[v] = v
BY DEF AloneTypes, AloneInv, DraftInv, InOrder, IsLast, Alone!Latest, Alone!Existing

\* The version after the last one.
LEMMA AloneNumber ==
    ASSUME AloneTypes, VersionBounds, NEW w, IsLast(w)
    PROVE  Alone!NextNumber = w + 1 /\ w + 1 \in Nat
<1>1. w \in Alone!Versions /\ w \in Nat /\ number[w] = w /\ w + 1 \in 1 .. MaxVersions + 1
  BY DEF IsLast, AloneTypes, AloneInv, DraftInv, InOrder, Alone!Versions, VersionBounds
<1>2. w \in Alone!Latest(Alone!Existing)
  BY <1>1 DEF IsLast, AloneTypes, AloneInv, DraftInv, InOrder, Alone!Latest, Alone!Existing
<1>3. \A v \in Alone!Latest(Alone!Existing) : number[v] = w
  <2>1. TAKE v \in Alone!Latest(Alone!Existing)
  <2>2. IsLast(v) /\ number[v] = v
    BY AloneLatest
  <2>3. v = w
    BY <1>1, <2>2 DEF IsLast, Alone!Versions
  <2> QED BY <2>2, <2>3
<1>4. \A n \in 1 .. MaxVersions + 1 :
          (\E v \in Alone!Latest(Alone!Existing) : n = number[v] + 1) <=> n = w + 1
  BY <1>1, <1>2, <1>3
<1>5. Alone!NextNumber = CHOOSE n \in 1 .. MaxVersions + 1 : n = w + 1
  BY <1>4 DEF Alone!NextNumber
<1> QED BY <1>1, <1>5

\* The draft that is inserted after the last version.
LEMMA AloneDraft ==
    ASSUME AloneTypes, VersionBounds, session[c1].pc = "insert",
           NEW v \in Alone!Versions,
           Alone!Inserts(v, session[c1].number, nodes[session[c1].other]),
           session' = [session EXCEPT ![c1] = Alone!Idle]
    PROVE  /\ AloneInv'
           /\ status' \in [Alone!Versions -> Alone!Status]
           /\ number' \in [Alone!Versions -> Nat]
           /\ nodes' \in [Alone!Versions -> SUBSET Graphs]
<1> DEFINE w == session[c1].other
<1>0. session'[c1].pc = "idle"
  BY AloneGoes, AloneIdle DEF AloneTypes
<1>1. /\ w \in Alone!Versions /\ Alone!Exists(w) /\ status[w] # "draft"
      /\ \A o \in Alone!Versions : Alone!Exists(o) => o <= w
      /\ session[c1].number = w + 1
  BY DEF AloneTypes, AloneInv, DraftInv, IsLast
<1>2. v \in Nat /\ w \in Nat /\ ~ Alone!Exists(v)
  BY <1>1 DEF Alone!Versions, Alone!Inserts
<1>3. v = w + 1
  <2>1. \A o \in Alone!Versions : o < v => o <= w
    BY <1>1 DEF Alone!Inserts
  <2>2. ~ (v < w)
    BY <1>1 DEF AloneTypes, AloneInv, DraftInv, InOrder, Alone!Inserts
  <2>3. v # w
    BY <1>1, <1>2
  <2>4. ~ (w + 1 < v)
    <3>1. SUFFICES ASSUME w + 1 < v PROVE FALSE
      OBVIOUS
    <3>2. w + 1 \in Alone!Versions
      BY <3>1, <1>2, VersionBounds DEF Alone!Versions, VersionBounds
    <3> QED BY <2>1, <3>1, <3>2, <1>2
  <2> QED BY <1>2, <2>2, <2>3, <2>4
<1>4. \A o \in Alone!Versions : status'[o] = IF o = v THEN "draft" ELSE status[o]
  BY DEF AloneTypes, Alone!TypeOK, Alone!Inserts
<1>5. \A o \in Alone!Versions : number'[o] = IF o = v THEN w + 1 ELSE number[o]
  BY <1>1 DEF AloneTypes, Alone!TypeOK, Alone!Inserts
<1>6. \A o \in Alone!Versions : nodes'[o] = IF o = v THEN nodes[w] ELSE nodes[o]
  BY DEF AloneTypes, Alone!TypeOK, Alone!Inserts
<1>7. GraphInv'
  BY <1>0, <1>1, <1>6 DEF AloneTypes, AloneInv, GraphInv
<1>8. \A o \in Alone!Versions : Alone!Exists(o)' <=> Alone!Exists(o) \/ o = v
  BY <1>4 DEF Alone!Exists
<1>9. DraftInv'
  <2>1. InOrder'
    <3>1. SUFFICES ASSUME NEW o \in Alone!Versions, Alone!Exists(o)'
                   PROVE  number'[o] = o /\ \A p \in Alone!Versions : p < o => Alone!Exists(p)'
      BY DEF InOrder
    <3>2. CASE o = v
      BY <3>2, <1>3, <1>5, <1>8 DEF Alone!Inserts
    <3>3. CASE o # v
      BY <3>1, <3>3, <1>5, <1>8 DEF AloneTypes, AloneInv, DraftInv, InOrder
    <3> QED BY <3>2, <3>3
  <2>2. ASSUME NEW o \in Alone!Versions, status'[o] = "draft" PROVE IsLast(o)'
    <3>1. o = v
      <4>1. SUFFICES ASSUME o # v PROVE FALSE
        OBVIOUS
      <4>2. IsLast(o) /\ status[o] = "draft"
        BY <4>1, <2>2, <1>4 DEF AloneTypes, AloneInv, DraftInv
      <4>3. o <= w /\ w <= o /\ o \in Nat
        BY <4>2, <1>1 DEF IsLast, Alone!Versions
      <4> QED BY <4>2, <4>3, <1>1, <1>2
    <3>2. \A p \in Alone!Versions : Alone!Exists(p)' => p <= v
      BY <1>1, <1>2, <1>3, <1>8 DEF Alone!Versions
    <3> QED BY <3>1, <3>2, <1>8 DEF IsLast
  <2> QED BY <2>1, <2>2, <1>0 DEF DraftInv
<1>10. PublishInv'
  <2>1. \A o \in Alone!Versions : status'[o] = "published" <=> status[o] = "published"
    BY <1>2, <1>4 DEF Alone!Exists
  <2> QED BY <2>1, <1>0 DEF AloneTypes, AloneInv, PublishInv, Alone!Published
<1>11. w + 1 \in Nat /\ nodes[w] \subseteq Graphs
  BY <1>1, <1>2 DEF AloneTypes, Alone!TypeOK
<1>12. /\ status' \in [Alone!Versions -> Alone!Status]
       /\ number' \in [Alone!Versions -> Nat]
       /\ nodes' \in [Alone!Versions -> SUBSET Graphs]
  BY <1>1, <1>11 DEF AloneTypes, Alone!TypeOK, Alone!Inserts, Alone!Status
<1> QED BY <1>7, <1>9, <1>10, <1>12 DEF AloneInv

\* A session reads what it needs: the tables stay.
LEMMA AloneReads ==
    ASSUME AloneTypes, NEW d \in Alone!Session, session' = [session EXCEPT ![c1] = d],
           UNCHANGED <<Alone!tableVars, used, deaths>>,
           d.pc = "replace" =>
               /\ d.version \in Alone!Versions /\ status[d.version] = "draft"
               /\ d.listed = nodes[d.version],
           d.pc \in {"number", "insert"} => IsLast(d.other) /\ status[d.other] # "draft",
           d.pc = "insert" => d.number = d.other + 1,
           d.pc \in {"demote", "commit"} =>
               /\ d.version \in Alone!Versions /\ Alone!Exists(d.version)
               /\ d.seen[d.version] = status[d.version]
               /\ \A v \in Alone!Versions : d.seen[v] \in {"none", status[v]},
           d.pc = "commit" =>
               IF d.other = Alone!NoVersion THEN Alone!Published = {}
               ELSE d.other \in Alone!Published /\ d.seen[d.other] = "published"
    PROVE  AloneTypes'
<1>1. session'[c1] = d /\ session' \in [{c1} -> Alone!Session]
  BY AloneGoes DEF AloneTypes
<1>2. UNCHANGED <<status, number, nodes, used, deaths>>
  BY DEF Alone!tableVars
<1>3. Alone!TypeOK'
  BY <1>1, <1>2 DEF AloneTypes, Alone!TypeOK
<1>4. GraphInv'
  BY <1>1, <1>2 DEF AloneTypes, AloneInv, GraphInv
<1>5. DraftInv'
  BY <1>1, <1>2 DEF AloneTypes, AloneInv, DraftInv, InOrder, IsLast, Alone!Exists
<1>6. PublishInv'
  BY <1>1, <1>2 DEF AloneTypes, AloneInv, PublishInv, Alone!Published, Alone!Exists
<1> QED BY <1>3, <1>4, <1>5, <1>6 DEF AloneTypes, AloneInv

\* The commit of a publication: the version in hand is the one published version, and the
\* one that was, whose demotion the session has seen to, is superseded.
LEMMA AlonePublishes ==
    ASSUME AloneTypes, Alone!Publishes(c1)
    PROVE  /\ AloneTypes'
           /\ Alone!Published' = {session[c1].version}
           /\ \A v \in Alone!Versions : Alone!Exists(v)' <=> Alone!Exists(v)
<1> DEFINE s == session[c1]
<1>1. /\ s.version \in Alone!Versions /\ Alone!Exists(s.version)
      /\ s.seen[s.version] = status[s.version]
      /\ IF s.other = Alone!NoVersion THEN Alone!Published = {}
         ELSE s.other \in Alone!Published /\ s.seen[s.other] = "published"
      /\ \A v, o \in Alone!Published : v = o
  BY DEF AloneTypes, AloneInv, PublishInv, Alone!Publishes
<1>2. \A v \in Alone!Versions : status'[v] =
          IF v = s.version /\ s.seen[v] # "published" THEN "published"
          ELSE IF v = s.other /\ v # s.version /\ s.seen[v] # "superseded" THEN "superseded"
          ELSE status[v]
  BY DEF Alone!Publishes, Alone!StatusAfter
<1>3. session'[c1].pc = "idle" /\ session' \in [{c1} -> Alone!Session]
  BY AloneGoes, AloneIdle DEF Alone!Publishes, AloneTypes
<1>4. Alone!NoVersion \notin Alone!Versions
  BY DEF Alone!NoVersion, Alone!Versions
<1>5. \A v \in Alone!Versions : status'[v] = "published" <=> v = s.version
  BY <1>1, <1>2, <1>4 DEF Alone!Published
<1>6. \A v \in Alone!Versions : Alone!Exists(v)' <=> Alone!Exists(v)
  BY <1>1, <1>2, <1>4 DEF Alone!Published, Alone!Exists
<1>7. \A v \in Alone!Versions : status'[v] = "draft" => status[v] = "draft"
  BY <1>2
<1>8. UNCHANGED <<number, nodes, used, deaths>>
  BY DEF Alone!Publishes
<1>9. Alone!TypeOK'
  <2>1. status' \in [Alone!Versions -> Alone!Status]
    BY DEF Alone!Publishes, Alone!StatusAfter, AloneTypes, Alone!TypeOK, Alone!Status
  <2> QED BY <2>1, <1>3, <1>8 DEF AloneTypes, Alone!TypeOK
<1>10. GraphInv' /\ DraftInv'
  BY <1>3, <1>6, <1>7, <1>8 DEF AloneTypes, AloneInv, GraphInv, DraftInv, InOrder, IsLast
<1>11. Alone!Published' = {s.version}
  BY <1>1, <1>5 DEF Alone!Published
<1>12. PublishInv'
  BY <1>3, <1>11 DEF PublishInv
<1> QED BY <1>6, <1>9, <1>10, <1>11, <1>12 DEF AloneTypes, AloneInv

\* Every step of one session, and every crash, keeps the invariant.
LEMMA AloneStep ==
    ASSUME VersionBounds, AloneTypes, [Alone!Next]_(Alone!vars)
    PROVE  AloneTypes'
<1>0. CASE UNCHANGED Alone!vars
  BY <1>0 DEF AloneTypes, AloneInv, GraphInv, DraftInv, PublishInv, InOrder, IsLast,
     Alone!TypeOK, Alone!Exists, Alone!Published, Alone!vars, Alone!tableVars
<1> DEFINE s == session[c1]
<1>t. /\ Alone!TypeOK /\ s \in Alone!Session /\ Alone!NoVersion \in Alone!Versions \cup {Alone!NoVersion}
      /\ 0 \in Nat /\ {} \in SUBSET Graphs
  BY DEF AloneTypes, Alone!TypeOK
<1>n. Alone!Nothing \in [Alone!Versions -> Alone!Status] /\ \A v \in Alone!Versions : Alone!Nothing[v] = "none"
  BY AloneIdle DEF Alone!Nothing
<1>1. CASE Alone!Creates(c1)
  <2>1. AloneInv' /\ status' \in [Alone!Versions -> Alone!Status]
        /\ number' \in [Alone!Versions -> Nat] /\ nodes' \in [Alone!Versions -> SUBSET Graphs]
    BY <1>1, AloneFirst DEF Alone!Creates
  <2> QED BY <1>1, <2>1 DEF Alone!Creates, AloneTypes, Alone!TypeOK
<1>2. ASSUME NEW g \in Graphs, Alone!Clones(c1, g) PROVE AloneTypes'
  <2>1. AloneInv' /\ status' \in [Alone!Versions -> Alone!Status]
        /\ number' \in [Alone!Versions -> Nat] /\ nodes' \in [Alone!Versions -> SUBSET Graphs]
    <3>1. {g} \in SUBSET Graphs /\ \A x, y \in {g} : x = y
      OBVIOUS
    <3> QED BY <3>1, <1>2, AloneFirst DEF Alone!Clones
  <2> QED BY <1>2, <2>1 DEF Alone!Clones, AloneTypes, Alone!TypeOK
<1>3. CASE Alone!AppliesTemplate(c1)
  <2> DEFINE d == Alone!Doing("seed", Alone!NoVersion, Alone!NoVersion, 0, {}, Alone!Nothing)
  <2>1. d \in Alone!Session /\ d.pc = "seed"
    BY <1>t, <1>n DEF Alone!Doing, Alone!Session
  <2>2. session' = [session EXCEPT ![c1] = d]
    BY <1>3 DEF Alone!AppliesTemplate
  <2>3. session'[c1].pc = "seed" /\ session' \in [{c1} -> Alone!Session]
    <3> HIDE DEF d
    <3> QED BY <1>t, <2>1, <2>2, AloneGoes
  <2>4. AloneInv' /\ status' \in [Alone!Versions -> Alone!Status]
        /\ number' \in [Alone!Versions -> Nat] /\ nodes' \in [Alone!Versions -> SUBSET Graphs]
    BY <1>3, <2>3, AloneFirst DEF Alone!AppliesTemplate
  <2> QED BY <1>3, <2>3, <2>4 DEF Alone!AppliesTemplate, AloneTypes, Alone!TypeOK
<1>4. CASE Alone!OpensDraft(c1)
  <2>1. PICK v \in Alone!Latest(Alone!Existing) :
            /\ status[v] # "draft"
            /\ session' = [session EXCEPT ![c1] =
                   Alone!Doing("number", Alone!NoVersion, v, 0, {}, Alone!Nothing)]
    BY <1>4 DEF Alone!OpensDraft
  <2> DEFINE d == Alone!Doing("number", Alone!NoVersion, v, 0, {}, Alone!Nothing)
  <2>2. IsLast(v) /\ v \in Alone!Versions
    BY AloneLatest DEF IsLast
  <2>3. d \in Alone!Session /\ d.pc = "number" /\ d.other = v
    BY <1>t, <1>n, <2>2 DEF Alone!Doing, Alone!Session
  <2>4. UNCHANGED <<Alone!tableVars, used, deaths>>
    BY <1>4 DEF Alone!OpensDraft
  <2> HIDE DEF d
  <2> QED BY <2>1, <2>2, <2>3, <2>4, AloneReads DEF d
<1>5. CASE Alone!ReadsNumber(c1)
  <2> DEFINE d == Alone!Doing("insert", Alone!NoVersion, s.other, Alone!NextNumber, {}, Alone!Nothing)
  <2>1. IsLast(s.other) /\ status[s.other] # "draft" /\ s.other \in Alone!Versions
    BY <1>5 DEF Alone!ReadsNumber, AloneTypes, AloneInv, DraftInv, IsLast
  <2>2. Alone!NextNumber = s.other + 1 /\ Alone!NextNumber \in Nat
    BY <2>1, AloneNumber
  <2>3. d \in Alone!Session /\ d.pc = "insert" /\ d.other = s.other /\ d.number = s.other + 1
    BY <1>t, <1>n, <2>1, <2>2 DEF Alone!Doing, Alone!Session
  <2>4. session' = [session EXCEPT ![c1] = d] /\ UNCHANGED <<Alone!tableVars, used, deaths>>
    BY <1>5 DEF Alone!ReadsNumber
  <2> HIDE DEF d
  <2> QED BY <2>1, <2>3, <2>4, AloneReads
<1>6. CASE Alone!InsertsDraft(c1)
  <2>1. session' = [session EXCEPT ![c1] = Alone!Idle] /\ UNCHANGED <<used, deaths>>
    BY <1>6 DEF Alone!InsertsDraft
  <2>2. session' \in [{c1} -> Alone!Session]
    BY <1>t, <2>1, AloneGoes, AloneIdle
  <2>3. AloneInv' /\ status' \in [Alone!Versions -> Alone!Status]
        /\ number' \in [Alone!Versions -> Nat] /\ nodes' \in [Alone!Versions -> SUBSET Graphs]
    BY <1>6, <2>1, AloneDraft DEF Alone!InsertsDraft
  <2> QED BY <2>1, <2>2, <2>3 DEF AloneTypes, Alone!TypeOK
<1>7. ASSUME NEW v \in Alone!Versions, Alone!ReadsGraph(c1, v) PROVE AloneTypes'
  <2> DEFINE d == Alone!Doing("replace", v, Alone!NoVersion, 0, nodes[v], Alone!Nothing)
  <2>1. status[v] = "draft" /\ nodes[v] \in SUBSET Graphs
    BY <1>7 DEF Alone!ReadsGraph, Alone!Editable, AloneTypes, Alone!TypeOK
  <2>2. d \in Alone!Session /\ d.pc = "replace" /\ d.version = v /\ d.listed = nodes[v]
    BY <1>t, <1>n, <2>1 DEF Alone!Doing, Alone!Session
  <2>3. session' = [session EXCEPT ![c1] = d] /\ UNCHANGED <<Alone!tableVars, used, deaths>>
    BY <1>7 DEF Alone!ReadsGraph
  <2> HIDE DEF d
  <2> QED BY <2>1, <2>2, <2>3, AloneReads
<1>8. ASSUME NEW g \in Graphs, Alone!Replaces(c1, g) PROVE AloneTypes'
  <2>1. s.version \in Alone!Versions /\ s.listed = nodes[s.version]
    BY <1>8 DEF Alone!Replaces, AloneTypes, AloneInv, GraphInv
  <2>2. Alone!GraphAfter(c1, g) = {g}
    BY <2>1 DEF Alone!GraphAfter
  <2>3. nodes' = [nodes EXCEPT ![s.version] = {g}] /\ UNCHANGED <<status, number, deaths>>
        /\ used' = used \cup {g} /\ session' = [session EXCEPT ![c1] = Alone!Idle]
    BY <1>8, <2>2 DEF Alone!Replaces
  <2>4. session'[c1].pc = "idle" /\ session' \in [{c1} -> Alone!Session]
    BY <1>t, <2>3, AloneGoes, AloneIdle
  <2>5. Alone!TypeOK'
    BY <2>3, <2>4 DEF AloneTypes, Alone!TypeOK
  <2>6. GraphInv'
    BY <2>1, <2>3, <2>4 DEF AloneTypes, AloneInv, GraphInv, Alone!TypeOK
  <2>7. DraftInv' /\ PublishInv'
    BY <2>3, <2>4 DEF AloneTypes, AloneInv, DraftInv, PublishInv, InOrder, IsLast, Alone!Exists, Alone!Published
  <2> QED BY <2>5, <2>6, <2>7 DEF AloneTypes, AloneInv
<1>9. ASSUME NEW v \in Alone!Versions, Alone!ReadsToPublish(c1, v) PROVE AloneTypes'
  <2> DEFINE d == Alone!Doing("demote", v, Alone!NoVersion, 0, {}, status)
  <2>1. status \in [Alone!Versions -> Alone!Status] /\ status[v] = "draft"
    BY <1>9 DEF Alone!ReadsToPublish, Alone!Latest, AloneTypes, Alone!TypeOK
  <2>2. d \in Alone!Session /\ d.pc = "demote" /\ d.version = v /\ d.seen = status
    BY <1>t, <2>1 DEF Alone!Doing, Alone!Session
  <2>3. session' = [session EXCEPT ![c1] = d] /\ UNCHANGED <<Alone!tableVars, used, deaths>>
    BY <1>9 DEF Alone!ReadsToPublish
  <2> HIDE DEF d
  <2> QED BY <2>1, <2>2, <2>3, AloneReads DEF Alone!Exists
<1>10. ASSUME NEW v \in Alone!Versions, Alone!ReadsToRestore(c1, v) PROVE AloneTypes'
  <2> DEFINE seen == [Alone!Nothing EXCEPT ![v] = status[v]]
             d == Alone!Doing("demote", v, Alone!NoVersion, 0, {}, seen)
  <2>1. /\ status[v] \in Alone!Status /\ status[v] # "none"
        /\ seen \in [Alone!Versions -> Alone!Status] /\ seen[v] = status[v]
        /\ \A o \in Alone!Versions : seen[o] \in {"none", status[o]}
    BY <1>10, <1>n DEF Alone!ReadsToRestore, AloneTypes, Alone!TypeOK
  <2>2. d \in Alone!Session /\ d.pc = "demote" /\ d.version = v /\ d.seen = seen
    <3> HIDE DEF seen
    <3> QED BY <1>t, <2>1 DEF Alone!Doing, Alone!Session
  <2>3. session' = [session EXCEPT ![c1] = d] /\ UNCHANGED <<Alone!tableVars, used, deaths>>
    BY <1>10 DEF Alone!ReadsToRestore
  <2> HIDE DEF d, seen
  <2> QED BY <2>1, <2>2, <2>3, AloneReads DEF Alone!Exists
<1>11. CASE Alone!ReadsPublished(c1)
  <2>1. PICK o \in (IF Alone!Published = {} THEN {Alone!NoVersion} ELSE Alone!Published) :
            session' = [session EXCEPT ![c1] =
                Alone!Doing("commit", s.version, o, 0, {},
                    IF o # Alone!NoVersion /\ s.seen[o] = "none"
                    THEN [s.seen EXCEPT ![o] = "published"] ELSE s.seen)]
    BY <1>11 DEF Alone!ReadsPublished
  <2> DEFINE seen == IF o # Alone!NoVersion /\ s.seen[o] = "none"
                     THEN [s.seen EXCEPT ![o] = "published"] ELSE s.seen
             d == Alone!Doing("commit", s.version, o, 0, {}, seen)
  <2>2. /\ s.version \in Alone!Versions /\ Alone!Exists(s.version)
        /\ s.seen[s.version] = status[s.version]
        /\ \A v \in Alone!Versions : s.seen[v] \in {"none", status[v]}
        /\ s.seen \in [Alone!Versions -> Alone!Status]
    BY <1>11, <1>t DEF Alone!ReadsPublished, AloneTypes, AloneInv, PublishInv, Alone!Session
  <2>3. Alone!NoVersion \notin Alone!Versions
    BY DEF Alone!NoVersion, Alone!Versions
  <2>4. IF o = Alone!NoVersion THEN Alone!Published = {}
        ELSE o \in Alone!Published /\ seen[o] = "published"
    BY <2>1, <2>2, <2>3 DEF Alone!Published
  <2>5. o \in Alone!Versions \cup {Alone!NoVersion}
    BY <2>1 DEF Alone!Published
  <2>6. /\ seen \in [Alone!Versions -> Alone!Status]
        /\ \A v \in Alone!Versions : seen[v] \in {"none", status[v]}
        /\ seen[s.version] = status[s.version]
    BY <2>2, <2>4, <2>5 DEF Alone!Status, Alone!Published, Alone!Exists
  <2>7. /\ d \in Alone!Session /\ d.pc = "commit" /\ d.version = s.version
        /\ d.other = o /\ d.seen = seen
    <3> HIDE DEF seen
    <3> QED BY <1>t, <2>2, <2>5, <2>6 DEF Alone!Doing, Alone!Session
  <2>8. session' = [session EXCEPT ![c1] = d] /\ UNCHANGED <<Alone!tableVars, used, deaths>>
    BY <1>11, <2>1 DEF Alone!ReadsPublished
  <2> HIDE DEF d, seen
  <2> QED BY <2>2, <2>4, <2>6, <2>7, <2>8, AloneReads
<1>12. CASE Alone!Publishes(c1)
  BY <1>12, AlonePublishes
<1>13. CASE Alone!Dies(c1)
  <2>1. /\ session' = [session EXCEPT ![c1] = Alone!Idle]
        /\ UNCHANGED Alone!tableVars /\ UNCHANGED used /\ deaths' = deaths + 1 /\ deaths < MaxDeaths
    BY <1>13 DEF Alone!Dies
  <2>2. AloneInv' /\ session' \in [{c1} -> Alone!Session]
    BY <2>1, AloneQuiet
  <2>3. deaths' \in 0 .. MaxDeaths
    BY <2>1, <1>t DEF Alone!TypeOK, VersionBounds
  <2> QED BY <2>1, <2>2, <2>3 DEF AloneTypes, Alone!TypeOK, Alone!tableVars
<1> QED
  BY <1>0, <1>1, <1>2, <1>3, <1>4, <1>5, <1>6, <1>7, <1>8, <1>9, <1>10, <1>11, <1>12, <1>13
  DEF Alone!Next

\* A workflow that has no version satisfies it.
LEMMA AloneInit ==
    ASSUME VersionBounds, Alone!Init
    PROVE  AloneTypes
<1>1. \A v \in Alone!Versions : status[v] = "none" /\ nodes[v] = {}
  BY DEF Alone!Init, Alone!Nothing
<1>2. session[c1].pc = "idle" /\ session \in [{c1} -> Alone!Session]
  BY AloneIdle DEF Alone!Init
<1>3. Alone!TypeOK
  BY <1>2, AloneIdle DEF Alone!Init, Alone!TypeOK, VersionBounds
<1> QED BY <1>1, <1>2, <1>3 DEF AloneTypes, AloneInv, GraphInv, DraftInv, PublishInv,
    InOrder, IsLast, Alone!Exists, Alone!Published

\* What the invariant says of the versions.
LEMMA AloneImplies ==
    ASSUME AloneTypes
    PROVE  Alone!TypeOK /\ Alone!OnePublished /\ Alone!OneGraph /\ Alone!OneDraft
<1>1. Alone!OnePublished
  <2>1. \A x, y \in Alone!Published : x = y
    BY DEF AloneTypes, AloneInv, PublishInv
  <2> QED BY <2>1, AloneCardinality DEF Alone!OnePublished
<1>2. Alone!OneGraph
  <2>1. ASSUME NEW v \in Alone!Versions PROVE Alone!Cardinality(nodes[v]) <= 1
    <3>1. \A x, y \in nodes[v] : x = y
      BY DEF AloneTypes, AloneInv, GraphInv
    <3> QED BY <3>1, AloneCardinality
  <2> QED BY <2>1 DEF Alone!OneGraph
<1>3. Alone!OneDraft
  <2> DEFINE D == {v \in Alone!Versions : status[v] = "draft"}
  <2>1. \A x, y \in D : x = y
    BY DEF AloneTypes, AloneInv, DraftInv, IsLast, Alone!Exists, Alone!Versions
  <2>2. Alone!Cardinality(D) <= 1
    BY <2>1, AloneCardinality
  <2>3. \A v, o \in Alone!Existing : v # o => number[v] # number[o]
    BY DEF AloneTypes, AloneInv, DraftInv, InOrder, Alone!Existing
  <2> QED BY <2>2, <2>3 DEF Alone!OneDraft
<1> QED BY <1>1, <1>2, <1>3 DEF AloneTypes

\* What no step takes away: the published version, and the nodes of what was published.
LEMMA AloneKeeps ==
    ASSUME AloneTypes, [Alone!Next]_(Alone!vars)
    PROVE  Alone!KeepsPublished /\ Alone!KeepsNodes
<1>1. CASE Alone!Publishes(c1)
  BY <1>1, AlonePublishes DEF Alone!KeepsPublished, Alone!KeepsNodes, Alone!Publishes
<1>2. ASSUME NEW v, NEW n, NEW gs, Alone!Inserts(v, n, gs)
      PROVE  Alone!KeepsPublished /\ Alone!KeepsNodes
  <2>1. status[v] = "none" /\ \A o \in Alone!Versions : o # v =>
            status'[o] = status[o] /\ nodes'[o] = nodes[o]
    BY <1>2 DEF Alone!Inserts, Alone!Exists, AloneTypes, Alone!TypeOK
  <2> QED BY <2>1 DEF Alone!KeepsPublished, Alone!KeepsNodes, Alone!Published
<1>3. ASSUME NEW g \in Graphs, Alone!Replaces(c1, g)
      PROVE  Alone!KeepsPublished /\ Alone!KeepsNodes
  <2>1. status[session[c1].version] = "draft" /\ UNCHANGED status
    BY <1>3 DEF Alone!Replaces, AloneTypes, AloneInv, GraphInv
  <2>2. \A o \in Alone!Versions : o # session[c1].version => nodes'[o] = nodes[o]
    BY <1>3 DEF Alone!Replaces, AloneTypes, Alone!TypeOK
  <2> QED BY <2>1, <2>2 DEF Alone!KeepsPublished, Alone!KeepsNodes, Alone!Published
<1>4. CASE UNCHANGED Alone!tableVars
  BY <1>4 DEF Alone!KeepsPublished, Alone!KeepsNodes, Alone!Published, Alone!tableVars
<1>5. CASE UNCHANGED Alone!vars
  BY <1>4, <1>5 DEF Alone!vars
<1> QED BY <1>1, <1>2, <1>3, <1>4, <1>5
  DEF Alone!Next, Alone!Creates, Alone!Clones, Alone!AppliesTemplate, Alone!OpensDraft, Alone!ReadsNumber,
      Alone!InsertsDraft, Alone!ReadsGraph, Alone!ReadsToPublish, Alone!ReadsToRestore,
      Alone!ReadsPublished, Alone!Dies

(***************************************************************************)
(* With one session, a workflow has one published version at most, one      *)
(* draft at most, and each version one graph at most, however often the     *)
(* session dies before its commit.                                          *)
(***************************************************************************)
THEOREM OneOfEachHolds ==
    ASSUME VersionBounds
    PROVE  Alone!Spec => [](Alone!TypeOK /\ Alone!OnePublished /\ Alone!OneGraph /\ Alone!OneDraft)
<1>1. Alone!Init => AloneTypes
  BY AloneInit
<1>2. AloneTypes /\ [Alone!Next]_(Alone!vars) => AloneTypes'
  BY AloneStep
<1>3. AloneTypes => Alone!TypeOK /\ Alone!OnePublished /\ Alone!OneGraph /\ Alone!OneDraft
  BY AloneImplies
<1> QED BY <1>1, <1>2, <1>3, PTL DEF Alone!Spec

(***************************************************************************)
(* With one session, a workflow that has a published version keeps one, and *)
(* no version that is or was published loses its nodes.                     *)
(***************************************************************************)
THEOREM VersionsKeptHolds ==
    ASSUME VersionBounds
    PROVE  Alone!Spec => [][Alone!KeepsPublished /\ Alone!KeepsNodes]_(Alone!vars)
<1>1. Alone!Init => AloneTypes
  BY AloneInit
<1>2. AloneTypes /\ [Alone!Next]_(Alone!vars) => AloneTypes'
  BY AloneStep
<1>3. AloneTypes /\ [Alone!Next]_(Alone!vars) => [Alone!KeepsPublished /\ Alone!KeepsNodes]_(Alone!vars)
  BY AloneKeeps
<1> QED BY <1>1, <1>2, <1>3, PTL DEF Alone!Spec

-----------------------------------------------------------------------------
(* A policy, its versions and one session *)

\* The versions of a policy are numbered as they are created, and a session that is to insert
\* one has the next free number.
PolicyNumbers ==
    /\ \A v \in Policy!Existing :
           number[v] = v /\ \A o \in Policy!Versions : o < v => o \in Policy!Existing
    /\ session[c1].pc = "insert" =>
           /\ session[c1].number # 0
           /\ \A v \in Policy!Existing : v < session[c1].number
           /\ \A v \in Policy!Versions : v < session[c1].number => v \in Policy!Existing

\* The published version is the one published last; a session that is to publish or archive
\* one has seen its status, and before its commit the published one.
PolicyInForce ==
    /\ Policy!LastPublishedRules
    /\ session[c1].pc \in {"demote", "commit", "archive"} =>
           /\ session[c1].version \in Policy!Existing
           /\ session[c1].seen = status[session[c1].version]
    /\ session[c1].pc = "commit" =>
           IF session[c1].other = Policy!NoVersion THEN Policy!Published = {}
           ELSE session[c1].other \in Policy!Published

\* The inductive invariant of a policy with one session.
PolicyInv == Policy!TypeOK /\ PolicyNumbers /\ PolicyInForce

\* The records of a session, written out.
PolicySession ==
    [pc : {"idle", "insert", "demote", "commit", "archive"},
     version : Policy!Maybe, other : Policy!Maybe, number : Nat, seen : Policy!Status]

\* The session goes on to d.
LEMMA PolicyGoes ==
    ASSUME Policy!TypeOK, NEW d, session' = [session EXCEPT ![c1] = d]
    PROVE  session'[c1] = d /\ (d \in PolicySession => session' \in [{c1} -> PolicySession])
BY DEF Policy!TypeOK, PolicySession

\* The record of a session that has nothing in hand.
LEMMA PolicyIdle == Policy!Idle \in PolicySession /\ Policy!Idle.pc = "idle"
BY DEF Policy!Idle, Policy!Doing, PolicySession, Policy!Maybe, Policy!Status

\* A session reads what it needs: the tables stay.
LEMMA PolicyReads ==
    ASSUME PolicyInv, NEW d \in PolicySession, session' = [session EXCEPT ![c1] = d],
           UNCHANGED <<status, number, chosen, applied>>,
           d.pc = "insert" =>
               /\ d.number # 0
               /\ \A v \in Policy!Existing : v < d.number
               /\ \A v \in Policy!Versions : v < d.number => v \in Policy!Existing,
           d.pc \in {"demote", "commit", "archive"} =>
               d.version \in Policy!Existing /\ d.seen = status[d.version],
           d.pc = "commit" =>
               IF d.other = Policy!NoVersion THEN Policy!Published = {}
               ELSE d.other \in Policy!Published
    PROVE  PolicyInv'
<1>1. session'[c1] = d /\ session' \in [{c1} -> PolicySession]
  BY PolicyGoes DEF PolicyInv
<1>2. Policy!TypeOK'
  BY <1>1 DEF PolicyInv, Policy!TypeOK, PolicySession
<1>3. PolicyNumbers'
  BY <1>1 DEF PolicyInv, PolicyNumbers, Policy!Existing
<1>4. PolicyInForce'
  BY <1>1 DEF PolicyInv, PolicyInForce, Policy!LastPublishedRules, Policy!Existing, Policy!Published
<1> QED BY <1>2, <1>3, <1>4 DEF PolicyInv

\* MAX(version_number) + 1 is greater than every number, and leaves no gap.
LEMMA PolicyNext ==
    ASSUME VersionBounds, PolicyInv
    PROVE  /\ Policy!NextNumber \in Nat /\ Policy!NextNumber # 0
           /\ \A v \in Policy!Existing : v < Policy!NextNumber
           /\ \A v \in Policy!Versions : v < Policy!NextNumber => v \in Policy!Existing
<1> DEFINE P(n) == /\ n = 0 \/ \E v \in Policy!Existing : number[v] = n
                   /\ \A v \in Policy!Existing : number[v] <= n
<1>1. /\ Policy!Existing \subseteq Policy!Versions /\ Policy!Versions = 1 .. MaxVersions
      /\ MaxVersions \in Nat
      /\ \A v \in Policy!Existing : number[v] = v
  BY DEF Policy!Existing, Policy!Versions, PolicyInv, PolicyNumbers, VersionBounds
<1>2. \E n \in 0 .. MaxVersions : P(n)
  <2>1. CASE Policy!Existing = {}
    BY <1>1, <2>1
  <2>2. CASE Policy!Existing # {}
    <3>1. PICK m \in Policy!Existing : \A v \in Policy!Existing : v <= m
      <4>1. Policy!Existing \in SUBSET Nat /\ \A v \in Policy!Existing : v <= MaxVersions
        BY <1>1
      <4> QED BY <1>1, <2>2, <4>1, Largest
    <3> QED BY <1>1, <3>1
  <2> QED BY <2>1, <2>2
<1>3. PICK n \in 0 .. MaxVersions : Policy!NextNumber = 1 + n /\ P(n)
  BY <1>2 DEF Policy!NextNumber
<1>4. \A v \in Policy!Existing : v < 1 + n
  BY <1>1, <1>3
<1>5. ASSUME NEW v \in Policy!Versions, v < 1 + n PROVE v \in Policy!Existing
  <2>1. n \in Policy!Existing /\ v <= n
    BY <1>1, <1>3, <1>5
  <2> QED BY <1>1, <2>1 DEF PolicyInv, PolicyNumbers
<1> QED BY <1>1, <1>3, <1>4, <1>5

\* The draft that is inserted is the version after the last one.
LEMMA PolicyDraft ==
    ASSUME VersionBounds, PolicyInv, Policy!InsertsDraft(c1)
    PROVE  PolicyInv'
<1> DEFINE n == session[c1].number
<1>1. PICK v \in Policy!Versions \ Policy!Existing :
          /\ \A o \in Policy!Versions : o < v => o \in Policy!Existing
          /\ status' = [status EXCEPT ![v] = "draft"]
          /\ number' = [number EXCEPT ![v] = n]
  BY DEF Policy!InsertsDraft
<1>2. /\ session'[c1].pc = "idle" /\ session' \in [{c1} -> PolicySession]
      /\ UNCHANGED <<chosen, applied>>
  BY PolicyGoes, PolicyIdle DEF PolicyInv, Policy!InsertsDraft
<1>3. n \in Nat /\ session[c1].pc = "insert"
  BY DEF PolicyInv, Policy!TypeOK, Policy!InsertsDraft
<1>4. v = n
  <2>1. v \in Nat /\ Policy!Versions = 1 .. MaxVersions /\ v <= MaxVersions /\ 1 <= v
        /\ MaxVersions \in Nat
    BY DEF Policy!Versions, VersionBounds
  <2>2. ~ (v < n)
    BY <1>3 DEF PolicyInv, PolicyNumbers
  <2>3. ~ (n < v)
    <3>1. SUFFICES ASSUME n < v PROVE FALSE
      OBVIOUS
    <3>2. n \in Policy!Existing
      BY <1>1, <1>3, <2>1, <3>1 DEF PolicyInv, PolicyNumbers
    <3> QED BY <1>3, <3>2 DEF PolicyInv, PolicyNumbers
  <2> QED BY <1>3, <2>1, <2>2, <2>3
<1>5. \A o \in Policy!Versions : status'[o] = IF o = v THEN "draft" ELSE status[o]
  BY <1>1 DEF PolicyInv, Policy!TypeOK
<1>6. Policy!Existing' = Policy!Existing \cup {v}
  BY <1>1, <1>5 DEF Policy!Existing
<1>7. Policy!Published' = Policy!Published
  BY <1>1, <1>5 DEF Policy!Existing, Policy!Published
<1>8. \A o \in Policy!Versions : number'[o] = IF o = v THEN v ELSE number[o]
  BY <1>1, <1>4 DEF PolicyInv, Policy!TypeOK
<1>9. Policy!TypeOK'
  <2>1. status' \in [Policy!Versions -> Policy!Status] /\ number' \in [Policy!Versions -> Nat]
    BY <1>1, <1>3 DEF PolicyInv, Policy!TypeOK, Policy!Status
  <2> QED BY <1>2, <2>1 DEF PolicyInv, Policy!TypeOK, PolicySession
<1>10. PolicyNumbers'
  <2>1. \A o \in Policy!Existing' : number'[o] = o
    BY <1>6, <1>8 DEF PolicyInv, PolicyNumbers, Policy!Existing
  <2>2. \A o \in Policy!Existing', u \in Policy!Versions : u < o => u \in Policy!Existing'
    BY <1>1, <1>6 DEF PolicyInv, PolicyNumbers
  <2> QED BY <1>2, <2>1, <2>2 DEF PolicyNumbers
<1>11. PolicyInForce'
  BY <1>2, <1>7 DEF PolicyInv, PolicyInForce, Policy!LastPublishedRules
<1> QED BY <1>9, <1>10, <1>11 DEF PolicyInv

\* The commit of a publication demotes the published version, if there is another.
LEMMA PolicyPublishes ==
    ASSUME PolicyInv, Policy!Publishes(c1)
    PROVE  PolicyInv'
<1> DEFINE s == session[c1]
<1>1. /\ s.version \in Policy!Existing /\ s.seen = status[s.version]
      /\ IF s.other = Policy!NoVersion THEN Policy!Published = {}
         ELSE s.other \in Policy!Published
      /\ Policy!Published \subseteq {chosen}
  BY DEF PolicyInv, PolicyInForce, Policy!Publishes, Policy!LastPublishedRules
<1>2. \A v \in Policy!Versions : status'[v] =
          IF v = s.version /\ s.seen # "published" THEN "published"
          ELSE IF v = s.other /\ v # s.version THEN "archived" ELSE status[v]
  BY DEF Policy!Publishes, Policy!StatusAfter
<1>3. /\ session'[c1].pc = "idle" /\ session' \in [{c1} -> PolicySession]
      /\ chosen' = s.version /\ UNCHANGED <<number, applied>>
  BY PolicyGoes, PolicyIdle DEF PolicyInv, Policy!Publishes
<1>4. Policy!Published' \subseteq {s.version}
  <2>1. SUFFICES ASSUME NEW v \in Policy!Versions, v # s.version, status'[v] = "published"
                 PROVE  FALSE
    BY DEF Policy!Published
  <2>2. v # s.other /\ status[v] = "published"
    BY <1>2, <2>1
  <2> QED BY <1>1, <2>2 DEF Policy!Published
<1>5. Policy!Existing' = Policy!Existing
  <2>1. Policy!NoVersion \notin Policy!Versions
    BY DEF Policy!NoVersion, Policy!Versions
  <2>2. \A v \in Policy!Versions : status'[v] # "none" <=> status[v] # "none"
    BY <1>1, <1>2, <2>1 DEF Policy!Existing, Policy!Published
  <2> QED BY <2>2 DEF Policy!Existing
<1>6. Policy!TypeOK'
  <2>1. status' \in [Policy!Versions -> Policy!Status]
    BY DEF Policy!Publishes, Policy!StatusAfter, PolicyInv, Policy!TypeOK, Policy!Status
  <2>2. chosen' \in Policy!Maybe
    BY <1>1, <1>3 DEF Policy!Existing, Policy!Maybe
  <2> QED BY <1>3, <2>1, <2>2 DEF PolicyInv, Policy!TypeOK, PolicySession
<1>7. PolicyNumbers'
  BY <1>3, <1>5 DEF PolicyInv, PolicyNumbers
<1>8. PolicyInForce'
  BY <1>3, <1>4 DEF PolicyInForce, Policy!LastPublishedRules
<1> QED BY <1>6, <1>7, <1>8 DEF PolicyInv

\* An archived version is in force no more.
LEMMA PolicyArchives ==
    ASSUME PolicyInv, Policy!Archives(c1)
    PROVE  PolicyInv'
<1> DEFINE s == session[c1]
<1>1. s.version \in Policy!Existing /\ s.seen = status[s.version] /\ s.version \in Policy!Versions
  BY DEF PolicyInv, PolicyInForce, Policy!Archives, Policy!Existing
<1>2. /\ session'[c1].pc = "idle" /\ session' \in [{c1} -> PolicySession]
      /\ UNCHANGED <<number, applied>>
  BY PolicyGoes, PolicyIdle DEF PolicyInv, Policy!Archives
<1>3. CASE UNCHANGED <<status, chosen>>
  <2>1. Policy!TypeOK'
    BY <1>2, <1>3 DEF PolicyInv, Policy!TypeOK, PolicySession
  <2>2. PolicyNumbers' /\ PolicyInForce'
    BY <1>2, <1>3 DEF PolicyInv, PolicyNumbers, PolicyInForce, Policy!LastPublishedRules,
       Policy!Existing, Policy!Published
  <2> QED BY <2>1, <2>2 DEF PolicyInv
<1>4. CASE /\ status' = [status EXCEPT ![s.version] = "archived"]
           /\ chosen' = IF chosen = s.version THEN Policy!NoVersion ELSE chosen
  <2>1. \A v \in Policy!Versions : status'[v] = IF v = s.version THEN "archived" ELSE status[v]
    BY <1>4 DEF PolicyInv, Policy!TypeOK
  <2>2. Policy!Existing' = Policy!Existing
    BY <1>1, <2>1 DEF Policy!Existing
  <2>3. Policy!Published' \subseteq {chosen'}
    BY <1>1, <1>4, <2>1 DEF Policy!Published, PolicyInv, PolicyInForce, Policy!LastPublishedRules
  <2>4. Policy!TypeOK'
    BY <1>2, <1>4 DEF PolicyInv, Policy!TypeOK, PolicySession, Policy!Status, Policy!Maybe
  <2>5. PolicyNumbers'
    BY <1>2, <2>2 DEF PolicyInv, PolicyNumbers
  <2>6. PolicyInForce'
    BY <1>2, <2>3 DEF PolicyInForce, Policy!LastPublishedRules
  <2> QED BY <2>4, <2>5, <2>6 DEF PolicyInv
<1> QED BY <1>3, <1>4 DEF Policy!Archives

\* Every step keeps the invariant, and a workflow that is run applies the version in force.
LEMMA PolicyStep ==
    ASSUME VersionBounds, PolicyInv, [Policy!Next]_(Policy!vars)
    PROVE  PolicyInv' /\ (Policy!AppliesInForce \/ UNCHANGED Policy!vars)
<1> DEFINE s == session[c1]
<1>t. Policy!TypeOK /\ s \in PolicySession
  BY DEF PolicyInv, Policy!TypeOK, PolicySession
<1>0. CASE UNCHANGED Policy!vars
  BY <1>0 DEF PolicyInv, Policy!TypeOK, PolicyNumbers, PolicyInForce, Policy!LastPublishedRules,
     Policy!Existing, Policy!Published, Policy!vars
<1>1. CASE Policy!ReadsNumber(c1)
  <2> DEFINE d == Policy!Doing("insert", Policy!NoVersion, Policy!NoVersion, Policy!NextNumber, "none")
  <2>1. d \in PolicySession /\ d.pc = "insert" /\ d.number = Policy!NextNumber
    BY PolicyNext DEF Policy!Doing, PolicySession, Policy!Maybe, Policy!Status
  <2>2. session' = [session EXCEPT ![c1] = d] /\ UNCHANGED <<status, number, chosen, applied>>
    BY <1>1 DEF Policy!ReadsNumber
  <2> HIDE DEF d
  <2>3. PolicyInv'
    BY <2>1, <2>2, PolicyNext, PolicyReads
  <2> QED BY <2>2, <2>3 DEF Policy!AppliesInForce
<1>2. CASE Policy!InsertsDraft(c1)
  BY <1>2, PolicyDraft DEF Policy!InsertsDraft, Policy!AppliesInForce
<1>3. CASE Policy!ReadsPublished(c1)
  <2>1. PICK o \in (IF Policy!Published = {} THEN {Policy!NoVersion} ELSE Policy!Published) :
            session' = [session EXCEPT ![c1].pc = "commit", ![c1].other = o]
    BY <1>3 DEF Policy!ReadsPublished
  <2> DEFINE d == [s EXCEPT !.pc = "commit", !.other = o]
  <2>2. o \in Policy!Maybe
    BY <2>1 DEF Policy!Published, Policy!Maybe
  <2>3. d \in PolicySession /\ d.pc = "commit" /\ d.other = o
        /\ d.version = s.version /\ d.seen = s.seen
    BY <1>t, <2>2 DEF PolicySession
  <2>4. session' = [session EXCEPT ![c1] = d] /\ UNCHANGED <<status, number, chosen, applied>>
    BY <1>3, <2>1 DEF Policy!ReadsPublished
  <2>5. s.version \in Policy!Existing /\ s.seen = status[s.version]
    BY <1>3 DEF Policy!ReadsPublished, PolicyInv, PolicyInForce
  <2>6. IF o = Policy!NoVersion THEN Policy!Published = {} ELSE o \in Policy!Published
    BY <2>1 DEF Policy!Published, Policy!Versions, Policy!NoVersion
  <2> HIDE DEF d
  <2>7. PolicyInv'
    BY <2>3, <2>4, <2>5, <2>6, PolicyReads
  <2> QED BY <2>4, <2>7 DEF Policy!AppliesInForce
<1>4. CASE Policy!Publishes(c1)
  BY <1>4, PolicyPublishes DEF Policy!Publishes, Policy!AppliesInForce
<1>5. CASE Policy!Archives(c1)
  BY <1>5, PolicyArchives DEF Policy!Archives, Policy!AppliesInForce
<1>6. ASSUME NEW v \in Policy!Versions, NEW pc \in {"demote", "archive"}, v \in Policy!Existing,
             session' = [session EXCEPT ![c1] =
                 Policy!Doing(pc, v, Policy!NoVersion, 0, status[v])],
             UNCHANGED <<status, number, chosen, applied>>
      PROVE  PolicyInv' /\ Policy!AppliesInForce
  <2> DEFINE d == Policy!Doing(pc, v, Policy!NoVersion, 0, status[v])
  <2>1. status[v] \in Policy!Status
    BY <1>t DEF Policy!TypeOK
  <2>2. d \in PolicySession /\ d.pc = pc /\ d.version = v /\ d.seen = status[v]
    BY <2>1 DEF Policy!Doing, PolicySession, Policy!Maybe
  <2>3. session' = [session EXCEPT ![c1] = d]
    BY <1>6
  <2> HIDE DEF d
  <2>4. PolicyInv'
    BY <1>6, <2>2, <2>3, PolicyReads
  <2> QED BY <1>6, <2>4 DEF Policy!AppliesInForce
<1>7. ASSUME NEW v \in Policy!Versions, Policy!ReadsToPublish(c1, v) \/ Policy!ReadsToArchive(c1, v)
      PROVE  PolicyInv' /\ Policy!AppliesInForce
  BY <1>6, <1>7 DEF Policy!ReadsToPublish, Policy!ReadsToArchive
<1>8. ASSUME NEW v \in Policy!Versions, Policy!Applies(v)
      PROVE  PolicyInv' /\ Policy!AppliesInForce
  <2>1. applied' = v /\ v = chosen /\ UNCHANGED <<status, number, session, chosen>> /\ v \in Policy!Maybe
    BY <1>8 DEF Policy!Applies, PolicyInv, PolicyInForce, Policy!LastPublishedRules, Policy!Maybe
  <2>2. Policy!TypeOK'
    BY <2>1, <1>t DEF Policy!TypeOK
  <2>3. PolicyNumbers' /\ PolicyInForce'
    BY <2>1 DEF PolicyInv, PolicyNumbers, PolicyInForce, Policy!LastPublishedRules,
       Policy!Existing, Policy!Published
  <2> QED BY <2>1, <2>2, <2>3 DEF Policy!AppliesInForce, PolicyInv
<1> QED BY <1>0, <1>1, <1>2, <1>3, <1>4, <1>5, <1>7, <1>8 DEF Policy!Next

\* A policy that has no version satisfies it.
LEMMA PolicyInit == Policy!Init => PolicyInv
<1> SUFFICES ASSUME Policy!Init PROVE PolicyInv
  OBVIOUS
<1>1. session[c1].pc = "idle" /\ session \in [{c1} -> PolicySession]
  BY PolicyIdle DEF Policy!Init
<1>2. \A v \in Policy!Versions : status[v] = "none"
  BY DEF Policy!Init
<1>3. Policy!TypeOK
  BY <1>1 DEF Policy!Init, Policy!TypeOK, PolicySession, Policy!Maybe, Policy!Status
<1>4. PolicyNumbers /\ PolicyInForce
  BY <1>1, <1>2 DEF PolicyNumbers, PolicyInForce, Policy!LastPublishedRules,
     Policy!Existing, Policy!Published
<1> QED BY <1>3, <1>4 DEF PolicyInv

\* What the invariant says of the versions.
LEMMA PolicyImplies ==
    PolicyInv => Policy!TypeOK /\ Policy!LastPublishedRules /\ Policy!NumbersDistinct
BY DEF PolicyInv, PolicyInForce, PolicyNumbers, Policy!NumbersDistinct

(***************************************************************************)
(* With one session, the version of a policy that is in force is the one    *)
(* published last, and the versions have different numbers.                 *)
(***************************************************************************)
THEOREM PolicyInForceHolds ==
    ASSUME VersionBounds
    PROVE  Policy!Spec => [](Policy!TypeOK /\ Policy!LastPublishedRules /\ Policy!NumbersDistinct)
<1>1. PolicyInv /\ [Policy!Next]_(Policy!vars) => PolicyInv'
  BY PolicyStep
<1> QED BY <1>1, PolicyInit, PolicyImplies, PTL DEF Policy!Spec

(***************************************************************************)
(* With one session, a workflow that is run applies the version of a policy *)
(* that is in force.                                                        *)
(***************************************************************************)
THEOREM PolicyAppliedHolds ==
    ASSUME VersionBounds
    PROVE  Policy!Spec => [][Policy!AppliesInForce]_(Policy!vars)
<1>1. PolicyInv /\ [Policy!Next]_(Policy!vars) => PolicyInv'
  BY PolicyStep
<1>2. PolicyInv /\ [Policy!Next]_(Policy!vars) => [Policy!AppliesInForce]_(Policy!vars)
  BY PolicyStep
<1> QED BY <1>1, <1>2, PolicyInit, PTL DEF Policy!Spec

-----------------------------------------------------------------------------
(* A workflow and any sessions at a time *)

\* A version that has nodes to run.
HasRun(v) == v \in Together!Existing /\ nodes[v] # {}

\* No number is greater than the version's place; a session that is to insert a version has
\* found one, and has the number after that of some version at most.
TogetherOrder ==
    /\ \A v \in Together!Existing :
           number[v] <= v /\ \A o \in Together!Versions : o < v => o \in Together!Existing
    /\ \A c \in Clients :
           /\ session[c].pc \in {"number", "insert"} => session[c].other \in Together!Existing
           /\ session[c].pc = "insert" => \E o \in Together!Existing : session[c].number <= o + 1

\* What is or was published has nodes, and so does what a session is about to publish, or
\* to demote.
TogetherNodes ==
    /\ \A v \in Together!Versions : status[v] \in {"published", "superseded"} => HasRun(v)
    /\ \A c \in Clients :
           /\ session[c].pc \in {"demote", "commit"} => HasRun(session[c].version)
           /\ session[c].pc = "commit" =>
                  session[c].other = Together!NoVersion \/ HasRun(session[c].other)

\* The inductive invariant of a workflow with any sessions at a time.
TogetherInv == Together!TypeOK /\ TogetherOrder /\ TogetherNodes

\* What a session may hold, given the tables.
TogetherHolds(d) ==
    /\ d \in Together!Session
    /\ d.pc \in {"number", "insert"} => d.other \in Together!Existing
    /\ d.pc = "insert" => \E o \in Together!Existing : d.number <= o + 1
    /\ d.pc \in {"demote", "commit"} => HasRun(d.version)
    /\ d.pc = "commit" => d.other = Together!NoVersion \/ HasRun(d.other)

\* The record of a session that has something in hand.
LEMMA TogetherDoing ==
    ASSUME NEW pc \in {"idle", "seed", "number", "insert", "replace", "demote", "commit"},
           NEW v \in Together!Versions \cup {Together!NoVersion},
           NEW o \in Together!Versions \cup {Together!NoVersion},
           NEW n \in Nat, NEW l \in SUBSET SharedGraphs,
           NEW s \in [Together!Versions -> Together!Status]
    PROVE  /\ Together!Doing(pc, v, o, n, l, s) \in Together!Session
           /\ Together!Doing(pc, v, o, n, l, s).pc = pc
           /\ Together!Doing(pc, v, o, n, l, s).version = v
           /\ Together!Doing(pc, v, o, n, l, s).other = o
           /\ Together!Doing(pc, v, o, n, l, s).number = n
BY DEF Together!Doing, Together!Session

\* The record of a session that has nothing in hand.
LEMMA TogetherIdle ==
    /\ Together!Nothing \in [Together!Versions -> Together!Status]
    /\ Together!Idle \in Together!Session /\ Together!Idle.pc = "idle"
<1>1. Together!Nothing \in [Together!Versions -> Together!Status]
  BY DEF Together!Nothing, Together!Status
<1> QED BY <1>1, TogetherDoing DEF Together!Idle

\* The tables keep the versions there are and the nodes of those that have some:
\* whatever the sessions hold stays true.
TogetherKeeps ==
    /\ \A v \in Together!Existing : v \in Together!Existing' /\ number'[v] = number[v]
    /\ \A v \in Together!Versions : HasRun(v) => HasRun(v)'

\* What a session holds stays true with the tables.
LEMMA TogetherSame ==
    ASSUME TogetherKeeps, NEW d, TogetherHolds(d)
    PROVE  TogetherHolds(d)'
<1>1. \A v : HasRun(v) => HasRun(v)'
  BY DEF TogetherKeeps, HasRun, Together!Existing
<1>2. \A v \in Together!Existing : v \in Together!Existing'
  BY DEF TogetherKeeps
<1>3. d.pc \in {"number", "insert"} => d.other \in Together!Existing'
  BY <1>2 DEF TogetherHolds
<1>4. d.pc = "insert" => \E o \in Together!Existing' : d.number <= o + 1
  BY <1>2 DEF TogetherHolds
<1>5. d.pc \in {"demote", "commit"} => HasRun(d.version)'
  BY <1>1 DEF TogetherHolds
<1>6. d.pc = "commit" => d.other = Together!NoVersion \/ HasRun(d.other)'
  BY <1>1 DEF TogetherHolds
<1> QED BY <1>3, <1>4, <1>5, <1>6 DEF TogetherHolds

\* One session goes on: what it holds, and what the others do.
LEMMA TogetherSessions ==
    ASSUME TogetherInv, TogetherKeeps, NEW c \in Clients, NEW d,
           session' = [session EXCEPT ![c] = d], TogetherHolds(d)'
    PROVE  /\ session' \in [Clients -> Together!Session]
           /\ \A b \in Clients : TogetherHolds(session[b])'
<1>1. \A b \in Clients : session'[b] = IF b = c THEN d ELSE session[b]
  BY DEF TogetherInv, Together!TypeOK
<1>2. ASSUME NEW b \in Clients PROVE TogetherHolds(session[b])'
  <2>1. CASE b = c
    BY <1>1, <2>1 DEF TogetherHolds, HasRun
  <2>2. CASE b # c
    <3>1. session'[b] = session[b]
      BY <1>1, <2>2
    <3>2. /\ session[b] \in Together!Session
          /\ session[b].pc \in {"number", "insert"} => session[b].other \in Together!Existing
          /\ session[b].pc = "insert" => \E o \in Together!Existing : session[b].number <= o + 1
          /\ session[b].pc \in {"demote", "commit"} => HasRun(session[b].version)
          /\ session[b].pc = "commit" =>
                 session[b].other = Together!NoVersion \/ HasRun(session[b].other)
      BY DEF TogetherInv, Together!TypeOK, TogetherOrder, TogetherNodes
    <3>3. \A v : HasRun(v) => HasRun(v)'
      BY DEF TogetherKeeps, HasRun, Together!Existing
    <3>4. \A v \in Together!Existing : v \in Together!Existing'
      BY DEF TogetherKeeps
    <3>5. \A e : TogetherHolds(e) => TogetherHolds(e)'
      BY <3>3, <3>4, TogetherSame
    <3>6. \E e : e = session[b] /\ e = session'[b] /\ TogetherHolds(e)
      BY <3>1, <3>2 DEF TogetherHolds
    <3>7. PICK e : e = session[b] /\ e = session'[b] /\ TogetherHolds(e)
      BY <3>6
    <3>8. TogetherHolds(e)'
      BY <3>5, <3>7
    <3> QED BY <3>7, <3>8 DEF TogetherHolds, HasRun
  <2> QED BY <2>1, <2>2
<1>3. session' \in [Clients -> Together!Session]
  <2>1. d \in Together!Session
    BY DEF TogetherHolds
  <2> QED BY <2>1 DEF TogetherInv, Together!TypeOK
<1> QED BY <1>2, <1>3

\* The tables stay.
LEMMA TogetherTables ==
    ASSUME TogetherInv, UNCHANGED Together!tableVars
    PROVE  /\ TogetherKeeps
           /\ \A d : TogetherHolds(d) => TogetherHolds(d)'
           /\ \A v \in Together!Existing' :
                  number'[v] <= v /\ \A o \in Together!Versions : o < v => o \in Together!Existing'
           /\ \A v \in Together!Versions : status'[v] \in {"published", "superseded"} => HasRun(v)'
BY DEF TogetherInv, TogetherKeeps, TogetherHolds, HasRun, TogetherOrder, TogetherNodes,
   Together!Existing, Together!Exists, Together!tableVars

\* A session reads what it needs: the tables stay.
LEMMA TogetherReads ==
    ASSUME TogetherInv, NEW c \in Clients, NEW d, session' = [session EXCEPT ![c] = d],
           UNCHANGED Together!tableVars, UNCHANGED used,
           deaths' \in 0 .. MaxDeaths, TogetherHolds(d)
    PROVE  TogetherInv'
<1>1. /\ TogetherKeeps /\ TogetherHolds(d)'
      /\ \A v \in Together!Existing' :
                  number'[v] <= v /\ \A o \in Together!Versions : o < v => o \in Together!Existing'
      /\ \A v \in Together!Versions : status'[v] \in {"published", "superseded"} => HasRun(v)'
  BY TogetherTables
<1>2. /\ session' \in [Clients -> Together!Session]
      /\ \A b \in Clients : TogetherHolds(session[b])'
  BY <1>1, TogetherSessions
<1>3. Together!TypeOK'
  <2>1. UNCHANGED <<status, number, nodes, used>>
    BY DEF Together!tableVars
  <2> QED BY <1>2, <2>1 DEF TogetherInv, Together!TypeOK
<1> QED BY <1>1, <1>2, <1>3 DEF TogetherInv, TogetherOrder, TogetherNodes, TogetherHolds

\* A version is inserted, at the next free id.
LEMMA TogetherInserts ==
    ASSUME VersionBounds, TogetherInv, NEW v \in Together!Versions, NEW n \in Nat, n <= v,
           NEW gs \in SUBSET SharedGraphs, Together!Inserts(v, n, gs),
           NEW c \in Clients, NEW d,
           session' = [session EXCEPT ![c] = d],
           d \in Together!Session, d.pc \in {"idle", "seed"},
           used' \subseteq SharedGraphs, UNCHANGED deaths
    PROVE  TogetherInv'
<1>1. /\ v \notin Together!Existing /\ \A o \in Together!Versions : o < v => o \in Together!Existing
      /\ \A o \in Together!Versions : /\ status'[o] = (IF o = v THEN "draft" ELSE status[o])
                                      /\ number'[o] = (IF o = v THEN n ELSE number[o])
                                      /\ nodes'[o] = (IF o = v THEN gs ELSE nodes[o])
  BY DEF Together!Inserts, Together!Existing, Together!Exists, TogetherInv, Together!TypeOK
<1>2. Together!Existing' = Together!Existing \cup {v}
  BY <1>1 DEF Together!Existing, Together!Exists
<1>3. TogetherKeeps
  BY <1>1, <1>2 DEF TogetherKeeps, HasRun, Together!Existing
<1>4. TogetherHolds(d)'
  BY DEF TogetherHolds
<1>5. /\ session' \in [Clients -> Together!Session]
      /\ \A b \in Clients : TogetherHolds(session[b])'
  BY <1>3, <1>4, TogetherSessions
<1>6. Together!TypeOK'
  <2>1. /\ status' \in [Together!Versions -> Together!Status]
        /\ number' \in [Together!Versions -> Nat]
        /\ nodes' \in [Together!Versions -> SUBSET SharedGraphs]
    BY DEF Together!Inserts, TogetherInv, Together!TypeOK, Together!Status
  <2> QED BY <1>5, <2>1 DEF TogetherInv, Together!TypeOK
<1>7. \A u \in Together!Existing' :
          number'[u] <= u /\ \A o \in Together!Versions : o < u => o \in Together!Existing'
  BY <1>1, <1>2 DEF TogetherInv, TogetherOrder, Together!Existing
<1>8. \A u \in Together!Versions : status'[u] \in {"published", "superseded"} => HasRun(u)'
  <2>1. SUFFICES ASSUME NEW u \in Together!Versions, status'[u] \in {"published", "superseded"}
                 PROVE  HasRun(u)'
    OBVIOUS
  <2>2. u # v /\ status[u] \in {"published", "superseded"}
    BY <1>1, <2>1
  <2>3. HasRun(u)
    BY <2>2 DEF TogetherInv, TogetherNodes
  <2> QED BY <1>3, <2>3 DEF TogetherKeeps
<1> QED BY <1>5, <1>6, <1>7, <1>8 DEF TogetherInv, TogetherOrder, TogetherNodes, TogetherHolds

\* MAX(version_number) + 1 is the number after that of some version at most.
LEMMA TogetherNumber ==
    ASSUME VersionBounds, TogetherInv, Together!Existing # {}
    PROVE  /\ Together!NextNumber \in Nat
           /\ \E o \in Together!Existing : Together!NextNumber <= o + 1
<1>1. /\ Together!Existing \subseteq 1 .. MaxShared /\ MaxShared \in Nat
      /\ \A v \in Together!Existing : number[v] \in Nat /\ number[v] <= v
  BY DEF Together!Existing, Together!Versions, VersionBounds, TogetherInv, TogetherOrder, Together!TypeOK
<1> DEFINE S == {number[v] : v \in Together!Existing}
<1>2. PICK m \in S : \A k \in S : k <= m
  <2>1. S \in SUBSET Nat /\ S # {}
    BY <1>1
  <2>2. \A k \in S : k <= MaxShared
    <3>1. \A v \in Together!Existing : number[v] <= MaxShared
      BY <1>1
    <3> QED BY <3>1
  <2> HIDE DEF S
  <2> QED BY <1>1, <2>1, <2>2, Largest
<1>3. PICK v \in Together!Existing : number[v] = m
  BY <1>2
<1>4. v \in Together!Latest(Together!Existing)
  BY <1>2, <1>3 DEF Together!Latest
<1>5. number[v] + 1 \in 1 .. MaxShared + 1
  BY <1>1
<1>6. \E n \in 1 .. MaxShared + 1 : \E u \in Together!Latest(Together!Existing) : n = number[u] + 1
  BY <1>4, <1>5
<1>7. /\ Together!NextNumber \in 1 .. MaxShared + 1
      /\ \E u \in Together!Latest(Together!Existing) : Together!NextNumber = number[u] + 1
  BY <1>6 DEF Together!NextNumber
<1>8. PICK u \in Together!Existing : Together!NextNumber = number[u] + 1
  BY <1>7 DEF Together!Latest
<1> QED BY <1>1, <1>7, <1>8

\* The nodes of a draft are replaced by a graph, that has some.
LEMMA TogetherReplaces ==
    ASSUME TogetherInv, NEW c \in Clients, NEW g \in SharedGraphs, Together!Replaces(c, g)
    PROVE  TogetherInv'
<1> DEFINE w == session[c].version
<1>1. /\ nodes' = [nodes EXCEPT ![w] = Together!GraphAfter(c, g)]
      /\ used' = used \cup {g} /\ session' = [session EXCEPT ![c] = Together!Idle]
      /\ UNCHANGED <<status, number, deaths>>
  BY DEF Together!Replaces
<1>2. /\ nodes' \in [Together!Versions -> SUBSET SharedGraphs]
      /\ \A v \in Together!Versions : nodes'[v] = IF v = w THEN (nodes[w] \ session[c].listed) \cup {g} ELSE nodes[v]
  <2>1. nodes[w] \subseteq SharedGraphs \/ w \notin Together!Versions
    BY DEF TogetherInv, Together!TypeOK
  <2> QED BY <1>1, <2>1 DEF TogetherInv, Together!TypeOK, Together!GraphAfter
<1>3. Together!Existing' = Together!Existing
  BY <1>1 DEF Together!Existing, Together!Exists
<1>4. TogetherKeeps
  BY <1>1, <1>2, <1>3 DEF TogetherKeeps, HasRun
<1>5. TogetherHolds(Together!Idle)'
  BY TogetherIdle DEF TogetherHolds
<1>6. /\ session' \in [Clients -> Together!Session]
      /\ \A b \in Clients : TogetherHolds(session[b])'
  BY <1>1, <1>4, <1>5, TogetherSessions
<1>7. Together!TypeOK'
  BY <1>1, <1>2, <1>6 DEF TogetherInv, Together!TypeOK
<1>8. TogetherOrder'
  BY <1>1, <1>3, <1>6 DEF TogetherInv, TogetherOrder, TogetherHolds
<1>9. TogetherNodes'
  BY <1>1, <1>4, <1>6 DEF TogetherInv, TogetherNodes, TogetherHolds, TogetherKeeps
<1> QED BY <1>7, <1>8, <1>9 DEF TogetherInv

\* The commit of a publication.
LEMMA TogetherPublishes ==
    ASSUME TogetherInv, NEW c \in Clients, Together!Publishes(c)
    PROVE  TogetherInv'
<1> DEFINE s == session[c]
<1>1. /\ HasRun(s.version) /\ (s.other = Together!NoVersion \/ HasRun(s.other))
      /\ session' = [session EXCEPT ![c] = Together!Idle]
      /\ UNCHANGED <<number, nodes, used, deaths>>
  BY DEF Together!Publishes, TogetherInv, TogetherNodes
<1>2. /\ status' \in [Together!Versions -> Together!Status]
      /\ \A v \in Together!Versions : status'[v] # status[v] =>
             v \in {s.version, s.other} /\ status'[v] # "none"
  BY DEF Together!Publishes, Together!StatusAfter, TogetherInv, Together!TypeOK, Together!Status
<1>3. Together!NoVersion \notin Together!Versions
  BY DEF Together!NoVersion, Together!Versions
<1>4. \A v \in Together!Versions : status'[v] # status[v] => HasRun(v)
  BY <1>1, <1>2, <1>3
<1>5. Together!Existing' = Together!Existing
  BY <1>2, <1>4 DEF Together!Existing, Together!Exists, HasRun
<1>6. TogetherKeeps
  BY <1>1, <1>5 DEF TogetherKeeps, HasRun
<1>7. TogetherHolds(Together!Idle)'
  BY TogetherIdle DEF TogetherHolds
<1>8. /\ session' \in [Clients -> Together!Session]
      /\ \A b \in Clients : TogetherHolds(session[b])'
  BY <1>1, <1>6, <1>7, TogetherSessions
<1>9. Together!TypeOK'
  BY <1>1, <1>2, <1>8 DEF TogetherInv, Together!TypeOK
<1>10. TogetherOrder'
  BY <1>1, <1>5, <1>8 DEF TogetherInv, TogetherOrder, TogetherHolds
<1>11. TogetherNodes'
  <2>1. ASSUME NEW v \in Together!Versions, status'[v] \in {"published", "superseded"}
        PROVE  HasRun(v)'
    BY <1>4, <1>6, <2>1 DEF TogetherInv, TogetherNodes, TogetherKeeps
  <2> QED BY <1>8, <2>1 DEF TogetherNodes, TogetherHolds
<1> QED BY <1>9, <1>10, <1>11 DEF TogetherInv

\* Every step of every session, and every crash, keeps the invariant.
LEMMA TogetherStep ==
    ASSUME VersionBounds, TogetherInv, [Together!Next]_(Together!vars)
    PROVE  TogetherInv'
<1>0. CASE UNCHANGED Together!vars
  BY <1>0 DEF TogetherInv, TogetherOrder, TogetherNodes, HasRun, Together!TypeOK,
     Together!Existing, Together!Exists, Together!vars, Together!tableVars
<1> SUFFICES ASSUME NEW c \in Clients,
        \/ Together!Creates(c) \/ Together!AppliesTemplate(c)
        \/ Together!OpensDraft(c) \/ Together!ReadsNumber(c) \/ Together!InsertsDraft(c)
        \/ \E v \in Together!Versions : \/ Together!ReadsGraph(c, v)
                                        \/ Together!ReadsToPublish(c, v)
                                        \/ Together!ReadsToRestore(c, v)
        \/ \E g \in SharedGraphs : Together!Clones(c, g) \/ Together!Replaces(c, g)
        \/ Together!ReadsPublished(c) \/ Together!Publishes(c) \/ Together!Dies(c)
             PROVE  TogetherInv'
  BY <1>0 DEF Together!Next
<1> DEFINE s == session[c]
           none == Together!NoVersion
           Maybe == Together!Versions \cup {Together!NoVersion}
<1>t. /\ s \in Together!Session /\ none \in Maybe /\ 0 \in Nat /\ {} \in SUBSET SharedGraphs
      /\ used \subseteq SharedGraphs /\ deaths \in 0 .. MaxDeaths
      /\ status \in [Together!Versions -> Together!Status]
      /\ nodes \in [Together!Versions -> SUBSET SharedGraphs]
  BY DEF TogetherInv, Together!TypeOK
<1>n. Together!Nothing \in [Together!Versions -> Together!Status]
  BY TogetherIdle
<1>i. Together!Idle \in Together!Session /\ Together!Idle.pc = "idle" /\ TogetherHolds(Together!Idle)
  BY TogetherIdle DEF TogetherHolds
<1>v. 1 \in Together!Versions /\ 1 \in Nat /\ 1 <= 1
  BY DEF VersionBounds, Together!Versions
<1>1. CASE Together!Creates(c)
  <2>1. session' = [session EXCEPT ![c] = s]
    BY <1>1 DEF Together!Creates, TogetherInv, Together!TypeOK
  <2>2. /\ Together!Inserts(1, 1, {}) /\ s.pc = "idle" /\ UNCHANGED <<used, deaths>>
    BY <1>1 DEF Together!Creates
  <2>3. used' \subseteq SharedGraphs /\ s.pc \in {"idle", "seed"}
    BY <1>t, <2>2
  <2> HIDE DEF s
  <2> QED BY <1>t, <1>v, <2>1, <2>2, <2>3, TogetherInserts
<1>2. ASSUME NEW g \in SharedGraphs, Together!Clones(c, g) PROVE TogetherInv'
  <2>1. session' = [session EXCEPT ![c] = s]
    BY <1>2 DEF Together!Clones, TogetherInv, Together!TypeOK
  <2>2. /\ Together!Inserts(1, 1, {g}) /\ s.pc = "idle" /\ used' = used \cup {g} /\ UNCHANGED deaths
    BY <1>2 DEF Together!Clones
  <2>3. used' \subseteq SharedGraphs /\ s.pc \in {"idle", "seed"} /\ {g} \in SUBSET SharedGraphs
    BY <1>t, <2>2
  <2> HIDE DEF s
  <2> QED BY <1>t, <1>v, <2>1, <2>2, <2>3, TogetherInserts
<1>3. CASE Together!AppliesTemplate(c)
  <2> DEFINE d == Together!Doing("seed", none, none, 0, {}, Together!Nothing)
  <2>1. d \in Together!Session /\ d.pc = "seed"
    BY <1>t, <1>n DEF Together!Doing, Together!Session
  <2>2. /\ Together!Inserts(1, 1, {}) /\ session' = [session EXCEPT ![c] = d]
        /\ UNCHANGED <<used, deaths>>
    BY <1>3 DEF Together!AppliesTemplate
  <2>3. used' \subseteq SharedGraphs /\ d.pc \in {"idle", "seed"}
    BY <1>t, <2>1, <2>2
  <2> HIDE DEF d
  <2> QED BY <1>t, <1>v, <2>1, <2>2, <2>3, TogetherInserts
<1>4. CASE Together!OpensDraft(c)
  <2>1. PICK v \in Together!Existing :
            session' = [session EXCEPT ![c] = Together!Doing("number", none, v, 0, {}, Together!Nothing)]
    BY <1>4 DEF Together!OpensDraft, Together!Latest
  <2> DEFINE d == Together!Doing("number", none, v, 0, {}, Together!Nothing)
  <2>2. d \in Together!Session /\ d.pc = "number" /\ d.other = v
    BY <1>t, <1>n DEF Together!Doing, Together!Session, Together!Existing
  <2>3. UNCHANGED <<Together!tableVars, used, deaths>>
    BY <1>4 DEF Together!OpensDraft
  <2>4. TogetherHolds(d)
    <3> HIDE DEF d
    <3> QED BY <2>2 DEF TogetherHolds
  <2>5. session' = [session EXCEPT ![c] = d] /\ deaths' \in 0 .. MaxDeaths
    BY <2>1, <2>3, <1>t
  <2> HIDE DEF d
  <2> QED BY <2>3, <2>4, <2>5, TogetherReads
<1>5. CASE Together!ReadsNumber(c)
  <2> DEFINE d == Together!Doing("insert", none, s.other, Together!NextNumber, {}, Together!Nothing)
  <2>1. s.other \in Together!Existing
    BY <1>5 DEF Together!ReadsNumber, TogetherInv, TogetherOrder
  <2>2. /\ Together!NextNumber \in Nat
        /\ \E o \in Together!Existing : Together!NextNumber <= o + 1
    BY <2>1, TogetherNumber
  <2>3. /\ d \in Together!Session /\ d.pc = "insert" /\ d.other = s.other
        /\ d.number = Together!NextNumber
    BY <1>t, <1>n, <2>1, <2>2 DEF Together!Doing, Together!Session, Together!Existing
  <2>4. TogetherHolds(d)
    <3> HIDE DEF d
    <3> QED BY <2>1, <2>2, <2>3 DEF TogetherHolds
  <2>5. session' = [session EXCEPT ![c] = d] /\ UNCHANGED <<Together!tableVars, used, deaths>>
    BY <1>5 DEF Together!ReadsNumber
  <2> HIDE DEF d
  <2> QED BY <1>t, <2>4, <2>5, TogetherReads
<1>6. CASE Together!InsertsDraft(c)
  <2>1. PICK v \in Together!Versions : Together!Inserts(v, s.number, nodes[s.other])
    BY <1>6 DEF Together!InsertsDraft
  <2>2. PICK o \in Together!Existing : s.number <= o + 1
    BY <1>6 DEF Together!InsertsDraft, TogetherInv, TogetherOrder
  <2>3. o < v /\ v \in Nat /\ o \in Nat
    <3>1. v \notin Together!Existing /\ o # v /\ v \in Nat /\ o \in Nat
      BY <2>1 DEF Together!Inserts, Together!Existing, Together!Versions
    <3>2. ~ (v < o)
      BY <3>1 DEF TogetherInv, TogetherOrder
    <3> QED BY <3>1, <3>2
  <2>4. s.number \in Nat
    BY <1>t DEF Together!Session
  <2>5. s.number <= v
    BY <2>2, <2>3, <2>4
  <2>6. nodes[s.other] \in SUBSET SharedGraphs
    BY <1>t, <1>6 DEF Together!InsertsDraft, TogetherInv, TogetherOrder, Together!Existing
  <2>7. session' = [session EXCEPT ![c] = Together!Idle] /\ UNCHANGED <<used, deaths>>
    BY <1>6 DEF Together!InsertsDraft
  <2>8. used' \subseteq SharedGraphs /\ Together!Idle.pc \in {"idle", "seed"}
    BY <1>t, <1>i, <2>7
  <2> HIDE DEF s
  <2> QED BY <1>i, <2>1, <2>4, <2>5, <2>6, <2>7, <2>8, TogetherInserts
<1>7. ASSUME NEW v \in Together!Versions, Together!ReadsGraph(c, v) PROVE TogetherInv'
  <2> DEFINE d == Together!Doing("replace", v, none, 0, nodes[v], Together!Nothing)
  <2>1. d \in Together!Session /\ d.pc = "replace"
    BY <1>t, <1>n DEF Together!Doing, Together!Session
  <2>2. TogetherHolds(d)
    <3> HIDE DEF d
    <3> QED BY <2>1 DEF TogetherHolds
  <2>3. session' = [session EXCEPT ![c] = d] /\ UNCHANGED <<Together!tableVars, used, deaths>>
    BY <1>7 DEF Together!ReadsGraph
  <2> HIDE DEF d
  <2> QED BY <1>t, <2>2, <2>3, TogetherReads
<1>8. ASSUME NEW v \in Together!Versions, HasRun(v),
             NEW seen \in [Together!Versions -> Together!Status],
             session' = [session EXCEPT ![c] = Together!Doing("demote", v, none, 0, {}, seen)],
             UNCHANGED <<Together!tableVars, used, deaths>>
      PROVE  TogetherInv'
  <2> DEFINE d == Together!Doing("demote", v, none, 0, {}, seen)
  <2>1. d \in Together!Session /\ d.pc = "demote" /\ d.version = v
    BY <1>t DEF Together!Doing, Together!Session
  <2>2. TogetherHolds(d)
    <3> HIDE DEF d
    <3> QED BY <1>8, <2>1 DEF TogetherHolds
  <2>3. session' = [session EXCEPT ![c] = d]
    BY <1>8
  <2> HIDE DEF d
  <2> QED BY <1>t, <1>8, <2>2, <2>3, TogetherReads
<1>9. ASSUME NEW v \in Together!Versions, Together!ReadsToPublish(c, v) PROVE TogetherInv'
  <2>1. HasRun(v)
    BY <1>9 DEF Together!ReadsToPublish, Together!Latest, HasRun, Together!Existing, Together!Exists
  <2> QED BY <1>t, <1>8, <1>9, <2>1 DEF Together!ReadsToPublish
<1>10. ASSUME NEW v \in Together!Versions, Together!ReadsToRestore(c, v) PROVE TogetherInv'
  <2> DEFINE seen == [Together!Nothing EXCEPT ![v] = status[v]]
  <2>1. HasRun(v) /\ seen \in [Together!Versions -> Together!Status]
    BY <1>t, <1>n, <1>10 DEF Together!ReadsToRestore, TogetherInv, TogetherNodes
  <2>2. /\ session' = [session EXCEPT ![c] = Together!Doing("demote", v, none, 0, {}, seen)]
        /\ UNCHANGED <<Together!tableVars, used, deaths>>
    BY <1>10 DEF Together!ReadsToRestore
  <2> HIDE DEF seen
  <2> QED BY <1>8, <2>1, <2>2
<1>11. ASSUME NEW g \in SharedGraphs, Together!Replaces(c, g) PROVE TogetherInv'
  BY <1>11, TogetherReplaces
<1>12. CASE Together!ReadsPublished(c)
  <2>1. PICK o \in (IF Together!Published = {} THEN {none} ELSE Together!Published) :
            session' = [session EXCEPT ![c] =
                Together!Doing("commit", s.version, o, 0, {},
                    IF o # none /\ s.seen[o] = "none"
                    THEN [s.seen EXCEPT ![o] = "published"] ELSE s.seen)]
    BY <1>12 DEF Together!ReadsPublished
  <2> DEFINE seen == IF o # none /\ s.seen[o] = "none"
                     THEN [s.seen EXCEPT ![o] = "published"] ELSE s.seen
             d == Together!Doing("commit", s.version, o, 0, {}, seen)
  <2>2. o = none \/ (HasRun(o) /\ o \in Together!Versions)
    BY <2>1 DEF Together!Published, TogetherInv, TogetherNodes
  <2>3. HasRun(s.version) /\ s.version \in Together!Versions
        /\ s.seen \in [Together!Versions -> Together!Status]
    BY <1>12, <1>t DEF Together!ReadsPublished, TogetherInv, TogetherNodes, HasRun,
       Together!Existing, Together!Session
  <2>4. seen \in [Together!Versions -> Together!Status]
    BY <2>3 DEF Together!Status
  <2>5. d \in Together!Session /\ d.pc = "commit" /\ d.version = s.version /\ d.other = o
    <3> HIDE DEF seen
    <3> QED BY <1>t, <2>2, <2>3, <2>4 DEF Together!Doing, Together!Session
  <2>6. TogetherHolds(d)
    <3> HIDE DEF d
    <3> QED BY <2>2, <2>3, <2>5 DEF TogetherHolds
  <2>7. session' = [session EXCEPT ![c] = d] /\ UNCHANGED <<Together!tableVars, used, deaths>>
    BY <1>12, <2>1 DEF Together!ReadsPublished
  <2> HIDE DEF d
  <2> QED BY <1>t, <2>6, <2>7, TogetherReads
<1>13. CASE Together!Publishes(c)
  BY <1>13, TogetherPublishes
<1>14. CASE Together!Dies(c)
  <2>1. /\ session' = [session EXCEPT ![c] = Together!Idle]
        /\ UNCHANGED Together!tableVars /\ UNCHANGED used /\ deaths' = deaths + 1 /\ deaths < MaxDeaths
    BY <1>14 DEF Together!Dies
  <2>2. deaths' \in 0 .. MaxDeaths
    BY <2>1, <1>t DEF VersionBounds
  <2> QED BY <1>i, <2>1, <2>2, TogetherReads
<1> QED BY <1>1, <1>2, <1>3, <1>4, <1>5, <1>6, <1>7, <1>9, <1>10, <1>11, <1>12, <1>13, <1>14

\* A workflow that has no version satisfies it.
LEMMA TogetherInit ==
    ASSUME VersionBounds, Together!Init
    PROVE  TogetherInv
<1>1. /\ \A v \in Together!Versions : status[v] = "none"
      /\ \A c \in Clients : session[c].pc = "idle"
      /\ session \in [Clients -> Together!Session]
  BY TogetherIdle DEF Together!Init, Together!Nothing
<1>2. Together!TypeOK
  BY <1>1, TogetherIdle DEF Together!Init, Together!TypeOK, VersionBounds
<1>3. TogetherOrder /\ TogetherNodes
  BY <1>1 DEF TogetherOrder, TogetherNodes, Together!Existing, Together!Exists
<1> QED BY <1>2, <1>3 DEF TogetherInv

\* What the invariant says of the published versions.
LEMMA TogetherImplies == TogetherInv => Together!TypeOK /\ Together!PublishedHasNodes
BY DEF TogetherInv, TogetherNodes, Together!PublishedHasNodes, Together!Published, HasRun

(***************************************************************************)
(* Whatever sessions edit a workflow at a time, a version that is published *)
(* has nodes: nobody publishes, or rolls back to, what has none, and only   *)
(* drafts have their nodes replaced.                                        *)
(***************************************************************************)
THEOREM PublishedRunsHolds ==
    ASSUME VersionBounds
    PROVE  Together!Spec => [](Together!TypeOK /\ Together!PublishedHasNodes)
<1>1. Together!Init => TogetherInv
  BY TogetherInit
<1>2. TogetherInv /\ [Together!Next]_(Together!vars) => TogetherInv'
  BY TogetherStep
<1> QED BY <1>1, <1>2, TogetherImplies, PTL DEF Together!Spec

-----------------------------------------------------------------------------
(* A connector, one call of the API at a time, and any jobs *)

\* Calls of the API are not jobs, and grants are bounded by a number.
TokenBounds == c1 \notin TokenJobs /\ MaxGrants \in Nat

\* The call of the API, and the jobs.
ConnectorCalls == {c1} \cup TokenJobs

\* What a job has in hand: it writes nothing but "reauth".
JobHolds(d) ==
    /\ d \in Connector!Call
    /\ d.pc \in {"idle", "token", "refresh", "save", "use", "mark"}
    /\ d.pc \in {"refresh", "save"} => d.row # Connector!NoGrant
    /\ d.pc = "mark" => d.seen = "any" /\ d.to = "reauth"

\* The status a call has loaded is that of the row, unless a job has marked it since.
SeenIsKnown(d) == d.seen \in {"any", status} \/ status = "reauth"

\* What the call of the API has in hand: the credentials it has loaded are there until it is
\* through with them itself.
ClientHolds(d) ==
    /\ d \in Connector!Call
    /\ d.pc \in {"load", "store"} => d.grant # Connector!NoGrant
    /\ d.pc \notin {"idle", "load"} => SeenIsKnown(d)
    /\ d.pc \in {"refresh", "save", "use"} => Connector!HasCred
    /\ d.pc \in {"refresh", "save"} => d.row # Connector!NoGrant
    /\ d.pc = "mark" => d.to \in {"connected", "error", "reauth"}
    /\ d.pc = "mark" /\ d.to = "connected" => Connector!HasCred
    /\ d.pc \in {"revoke", "drop"} => d.row = cred.row

\* The row says "connected" with credentials, "disconnected" without.
RowHolds ==
    /\ Connector!StatusMatchesCred
    /\ Connector!HasCred => cred.row # Connector!NoGrant

\* The inductive invariant of a connector.
ConnectorInv ==
    /\ Connector!TypeOK /\ RowHolds
    /\ invites + given <= MaxGrants
    /\ ClientHolds(call[c1])
    /\ \A j \in TokenJobs : JobHolds(call[j])

\* What a client has in hand stays true while the row keeps its credentials and the status
\* is changed by jobs alone.
RowStays ==
    /\ status' \in {status, "reauth"}
    /\ Connector!HasCred' <=> Connector!HasCred
    /\ cred'.row = cred.row

\* A job takes nothing of that away.
LEMMA ClientStays ==
    ASSUME RowStays, NEW d, ClientHolds(d)
    PROVE  ClientHolds(d)'
<1>1. SeenIsKnown(d) => SeenIsKnown(d)'
  BY DEF RowStays, SeenIsKnown
<1> QED BY <1>1 DEF RowStays, ClientHolds

\* A call goes on, a client's or a job's.
LEMMA CallGoes ==
    ASSUME TokenBounds, ConnectorInv, NEW c \in ConnectorCalls, NEW d,
           call' = [call EXCEPT ![c] = d],
           IF c = c1 THEN ClientHolds(d)' ELSE JobHolds(d) /\ RowStays
    PROVE  /\ call' \in [ConnectorCalls -> Connector!Call]
           /\ ClientHolds(call[c1])'
           /\ \A j \in TokenJobs : JobHolds(call[j])'
<1>1. /\ d \in Connector!Call
      /\ call \in [ConnectorCalls -> Connector!Call] /\ c1 \in ConnectorCalls
      /\ \A b \in ConnectorCalls : call'[b] = IF b = c THEN d ELSE call[b]
  BY DEF ConnectorInv, Connector!TypeOK, ConnectorCalls, ClientHolds, JobHolds
<1>2. call' \in [ConnectorCalls -> Connector!Call]
  BY <1>1
<1>3. ClientHolds(call[c1])'
  <2>1. CASE c = c1
    <3>1. call'[c1] = d
      BY <1>1, <2>1
    <3> QED BY <2>1, <3>1 DEF ClientHolds, SeenIsKnown
  <2>2. CASE c # c1
    <3>1. PICK e : e = call[c1] /\ e = call'[c1]
      BY <1>1, <2>2
    <3>2. ClientHolds(e)'
      <4>1. ClientHolds(e)
        BY <3>1 DEF ConnectorInv
      <4> QED BY <2>2, <4>1, ClientStays
    <3> QED BY <3>1, <3>2 DEF ClientHolds, SeenIsKnown
  <2> QED BY <2>1, <2>2
<1>4. ASSUME NEW j \in TokenJobs PROVE JobHolds(call[j])'
  <2>1. j # c1 /\ j \in ConnectorCalls
    BY DEF TokenBounds, ConnectorCalls
  <2>2. CASE j = c
    BY <1>1, <2>1, <2>2 DEF JobHolds
  <2>3. CASE j # c
    BY <1>1, <2>1, <2>3 DEF JobHolds, ConnectorInv
  <2> QED BY <2>2, <2>3
<1> QED BY <1>2, <1>3, <1>4

\* The records of a call and of a job that have nothing in hand.
LEMMA ConnectorIdle ==
    /\ Connector!Idle \in Connector!Call /\ Connector!Idle.pc = "idle"
    /\ JobHolds(Connector!Idle) /\ ClientHolds(Connector!Idle)
<1>1. Connector!Idle \in Connector!Call /\ Connector!Idle.pc = "idle"
  BY DEF Connector!Idle, Connector!Doing, Connector!Call, Connector!Status
<1> QED BY <1>1 DEF JobHolds, ClientHolds

\* Nothing but the call and what Google has changes.
LEMMA CallReads ==
    ASSUME TokenBounds, ConnectorInv, NEW c \in ConnectorCalls, NEW d,
           call' = [call EXCEPT ![c] = d],
           UNCHANGED Connector!rowVars,
           given' \in 0 .. MaxGrants, alive' \subseteq Connector!Grants, invites' \in 0 .. MaxGrants,
           invites' + given' <= MaxGrants,
           c = c1 => ClientHolds(d), c # c1 => JobHolds(d)
    PROVE  ConnectorInv'
<1>1. UNCHANGED <<status, cred>> /\ RowStays
  BY DEF Connector!rowVars, RowStays, Connector!HasCred
<1>2. IF c = c1 THEN ClientHolds(d)' ELSE JobHolds(d) /\ RowStays
  <2>1. ClientHolds(d) => ClientHolds(d)'
    BY <1>1, ClientStays
  <2> QED BY <1>1, <2>1
<1>3. /\ call' \in [ConnectorCalls -> Connector!Call]
      /\ ClientHolds(call[c1])'
      /\ \A j \in TokenJobs : JobHolds(call[j])'
  BY <1>2, CallGoes
<1>4. Connector!TypeOK'
  BY <1>1, <1>3 DEF ConnectorInv, Connector!TypeOK, ConnectorCalls
<1>5. RowHolds'
  BY <1>1 DEF ConnectorInv, RowHolds, Connector!StatusMatchesCred, Connector!HasCred
<1> QED BY <1>3, <1>4, <1>5 DEF ConnectorInv

\* The row is written, and the call ends or goes on.
LEMMA CallWrites ==
    ASSUME TokenBounds, ConnectorInv, NEW c \in ConnectorCalls, NEW d,
           call' = [call EXCEPT ![c] = d],
           status' \in Connector!Status, cred' \in Connector!Cred,
           RowHolds', UNCHANGED <<given, alive, invites>>,
           IF c = c1 THEN ClientHolds(d)' ELSE JobHolds(d) /\ RowStays
    PROVE  ConnectorInv'
<1>1. /\ call' \in [ConnectorCalls -> Connector!Call]
      /\ ClientHolds(call[c1])'
      /\ \A j \in TokenJobs : JobHolds(call[j])'
  BY CallGoes
<1>2. Connector!TypeOK'
  BY <1>1 DEF ConnectorInv, Connector!TypeOK, ConnectorCalls
<1> QED BY <1>1, <1>2 DEF ConnectorInv

\* The steps of an authorization and of a disconnect.
LEMMA ClientSteps ==
    ASSUME TokenBounds, ConnectorInv,
           \/ Connector!Initiates(c1) \/ Connector!Exchanges(c1)
           \/ Connector!LoadsConnector(c1) \/ Connector!Stores(c1)
           \/ Connector!Disconnects(c1) \/ Connector!Revokes(c1) \/ Connector!Drops(c1)
    PROVE  ConnectorInv'
<1> DEFINE s == call[c1]
<1>t. /\ ClientHolds(s) /\ s \in Connector!Call /\ c1 \in ConnectorCalls
      /\ status \in Connector!Status /\ cred \in Connector!Cred
      /\ given \in 0 .. MaxGrants /\ alive \subseteq Connector!Grants
      /\ invites \in 0 .. MaxGrants /\ MaxGrants \in Nat /\ invites + given <= MaxGrants
      /\ call = [call EXCEPT ![c1] = s]
  BY DEF ConnectorInv, Connector!TypeOK, ClientHolds, ConnectorCalls, TokenBounds
<1>1. CASE Connector!Initiates(c1)
  <2>1. /\ UNCHANGED <<status, cred, given, alive, call>> /\ invites' = invites + 1
        /\ invites + given < MaxGrants
    BY <1>1 DEF Connector!Initiates, Connector!rowVars, Connector!googleVars
  <2>2. invites' \in 0 .. MaxGrants /\ invites' + given' <= MaxGrants
    BY <2>1, <1>t
  <2>3. call' = [call EXCEPT ![c1] = s]
    BY <2>1, <1>t
  <2> HIDE DEF s
  <2> QED BY <1>t, <2>1, <2>2, <2>3, CallReads DEF Connector!rowVars
<1>2. CASE Connector!Exchanges(c1)
  <2> DEFINE d == Connector!Doing("load", "any", Connector!NoGrant, given + 1, "connected")
  <2>1. /\ s.pc = "idle" /\ invites > 0 /\ invites' = invites - 1
        /\ given' = given + 1 /\ alive' = alive \cup {given + 1}
        /\ call' = [call EXCEPT ![c1] = d] /\ UNCHANGED <<status, cred>>
    BY <1>2 DEF Connector!Exchanges, Connector!Goes, Connector!rowVars
  <2>2. /\ given + 1 \in Connector!Grants /\ given + 1 # Connector!NoGrant
        /\ given' \in 0 .. MaxGrants /\ alive' \subseteq Connector!Grants
        /\ invites' \in 0 .. MaxGrants /\ invites' + given' <= MaxGrants
    BY <1>t, <2>1 DEF Connector!Grants, Connector!NoGrant
  <2>3. d \in Connector!Call /\ d.pc = "load" /\ d.grant = given + 1
    BY <2>2 DEF Connector!Doing, Connector!Call, Connector!Status
  <2>4. ClientHolds(d)
    <3> HIDE DEF d
    <3> QED BY <2>2, <2>3 DEF ClientHolds
  <2> HIDE DEF d
  <2> QED BY <1>t, <2>1, <2>2, <2>4, CallReads DEF Connector!rowVars
<1>3. CASE Connector!LoadsConnector(c1)
  <2> DEFINE d == [s EXCEPT !.pc = "store", !.seen = status]
  <2>1. /\ call' = [call EXCEPT ![c1] = d] /\ UNCHANGED <<status, cred, given, alive, invites>>
        /\ s.pc = "load"
    BY <1>3 DEF Connector!LoadsConnector, Connector!Goes, Connector!rowVars, Connector!googleVars
  <2>2. /\ d \in Connector!Call /\ d.pc = "store" /\ d.seen = status /\ d.grant = s.grant
    BY <1>t DEF Connector!Call
  <2>3. ClientHolds(d)
    <3> HIDE DEF d
    <3> QED BY <1>t, <2>1, <2>2 DEF ClientHolds, SeenIsKnown
  <2> HIDE DEF d
  <2> QED BY <1>t, <2>1, <2>3, CallReads DEF Connector!rowVars
<1>4. CASE Connector!Stores(c1)
  <2>1. /\ s.pc = "store" /\ call' = [call EXCEPT ![c1] = Connector!Idle]
        /\ UNCHANGED <<given, alive, invites>>
        /\ IF Connector!Collides(c1) THEN UNCHANGED Connector!rowVars
           ELSE /\ status' = Connector!StatusAfter(s.seen, "connected")
                /\ cred' = Connector!CredAfter(s.grant)
    BY <1>4 DEF Connector!Stores, Connector!Goes, Connector!googleVars
  <2>2. CASE Connector!Collides(c1)
    BY <1>t, <2>1, <2>2, ConnectorIdle, CallReads
  <2>3. CASE ~ Connector!Collides(c1)
    <3>1. s.grant \in Connector!Grants /\ s.grant # Connector!NoGrant /\ SeenIsKnown(s)
      BY <1>t, <2>1 DEF ClientHolds, Connector!Call
    <3>2. status' \in {"connected", "reauth"}
      BY <2>1, <2>3, <3>1 DEF Connector!StatusAfter, SeenIsKnown
    <3>3. /\ cred' \in Connector!Cred /\ cred'.row # Connector!NoGrant
          /\ cred'.access = s.grant
      <4> DEFINE r == IF Connector!HasCred THEN cred.row ELSE s.grant
      <4>1. r \in Connector!Grants \cup {Connector!NoGrant} /\ r # Connector!NoGrant
        BY <1>t, <3>1 DEF Connector!Cred, ConnectorInv, RowHolds
      <4>2. cred' = [row |-> r, access |-> s.grant, refresh |-> s.grant, old |-> FALSE]
        BY <2>1, <2>3 DEF Connector!CredAfter, Connector!Holds
      <4> HIDE DEF r
      <4> QED BY <3>1, <4>1, <4>2 DEF Connector!Cred
    <3>4. Connector!HasCred'
      BY <3>1, <3>3 DEF Connector!HasCred, Connector!NoCred, Connector!Holds
    <3>5. RowHolds'
      <4>1. status' # "none" /\ status' # "disconnected"
        BY <3>2
      <4> QED BY <4>1, <3>3, <3>4 DEF RowHolds, Connector!StatusMatchesCred
    <3>6. status' \in Connector!Status
      BY <3>2 DEF Connector!Status
    <3>7. ClientHolds(Connector!Idle)'
      BY ConnectorIdle DEF ClientHolds
    <3> QED BY <1>t, <2>1, <3>3, <3>5, <3>6, <3>7, CallWrites
  <2> QED BY <2>2, <2>3
<1>5. CASE Connector!Disconnects(c1)
  <2> DEFINE d == Connector!Doing(IF Connector!HasCred THEN "revoke" ELSE "drop", status,
                                  cred.row, cred.refresh, "disconnected")
  <2>1. call' = [call EXCEPT ![c1] = d] /\ UNCHANGED <<status, cred, given, alive, invites>>
    BY <1>5 DEF Connector!Disconnects, Connector!Goes, Connector!rowVars, Connector!googleVars
  <2>2. d \in Connector!Call /\ d.pc \in {"revoke", "drop"} /\ d.seen = status /\ d.row = cred.row
    BY <1>t DEF Connector!Doing, Connector!Call, Connector!Status, Connector!Cred
  <2>3. ClientHolds(d)
    <3> HIDE DEF d
    <3> QED BY <2>2 DEF ClientHolds, SeenIsKnown
  <2> HIDE DEF d
  <2> QED BY <1>t, <2>1, <2>3, CallReads DEF Connector!rowVars
<1>6. CASE Connector!Revokes(c1)
  <2> DEFINE d == [s EXCEPT !.pc = "drop"]
  <2>1. /\ call' = [call EXCEPT ![c1] = d] /\ UNCHANGED <<status, cred, given, invites>>
        /\ s.pc = "revoke" /\ alive' \subseteq Connector!Grants
    BY <1>6, <1>t DEF Connector!Revokes, Connector!Goes, Connector!rowVars
  <2>2. /\ d \in Connector!Call /\ d.pc = "drop" /\ d.seen = s.seen /\ d.row = s.row
    BY <1>t DEF Connector!Call
  <2>3. ClientHolds(d)
    <3> HIDE DEF d
    <3> QED BY <1>t, <2>1, <2>2 DEF ClientHolds, SeenIsKnown
  <2> HIDE DEF d
  <2> QED BY <1>t, <2>1, <2>3, CallReads DEF Connector!rowVars
<1>7. CASE Connector!Drops(c1)
  <2>1. /\ s.pc = "drop" /\ call' = [call EXCEPT ![c1] = Connector!Idle]
        /\ UNCHANGED <<given, alive, invites>>
        /\ cred' = Connector!CredDropped(c1)
        /\ status' = Connector!StatusAfter(s.seen, "disconnected")
    BY <1>7 DEF Connector!Drops, Connector!Goes, Connector!googleVars
  <2>2. s.row = cred.row /\ SeenIsKnown(s)
    BY <1>t, <2>1 DEF ClientHolds
  <2>3. cred' = Connector!NoCred /\ ~ Connector!HasCred'
    BY <2>1, <2>2 DEF Connector!CredDropped, Connector!HasCred
  <2>4. status' \in {"disconnected", "reauth"}
    BY <2>1, <2>2 DEF Connector!StatusAfter, SeenIsKnown
  <2>5. /\ cred' \in Connector!Cred /\ status' \in Connector!Status /\ RowHolds'
    BY <2>3, <2>4 DEF Connector!NoCred, Connector!Holds, Connector!Cred, Connector!Status,
       RowHolds, Connector!StatusMatchesCred
  <2>6. ClientHolds(Connector!Idle)'
    BY ConnectorIdle DEF ClientHolds
  <2> QED BY <1>t, <2>1, <2>5, <2>6, CallWrites
<1> QED BY <1>1, <1>2, <1>3, <1>4, <1>5, <1>6, <1>7

\* A call or a job asks for a token, and verify says what became of it.
LEMMA TokenSteps ==
    ASSUME TokenBounds, ConnectorInv, NEW c \in ConnectorCalls,
           \/ Connector!Asks(c) \/ Connector!FindsNothing(c) \/ Connector!ReadsCred(c)
           \/ Connector!Refreshes(c) \/ Connector!NeedsReauth(c) \/ Connector!Unreachable(c)
           \/ Connector!Saves(c) \/ Connector!Uses(c) \/ Connector!Marks(c) \/ Connector!Dies(c)
    PROVE  ConnectorInv'
<1> DEFINE s == call[c]
<1>t. /\ s \in Connector!Call /\ (c = c1 \/ (c # c1 /\ c \in TokenJobs))
      /\ c = c1 => ClientHolds(s)
      /\ c # c1 => JobHolds(s)
      /\ status \in Connector!Status /\ cred \in Connector!Cred
      /\ given \in 0 .. MaxGrants /\ alive \subseteq Connector!Grants
      /\ invites \in 0 .. MaxGrants /\ MaxGrants \in Nat /\ invites + given <= MaxGrants
  BY DEF ConnectorInv, Connector!TypeOK, ConnectorCalls, TokenBounds
<1>c. c \in {c1} <=> c = c1
  OBVIOUS
<1>j. c \in TokenJobs <=> c # c1
  BY <1>t DEF TokenBounds
\* Of a step that leaves the row alone only the new call is of interest.
<1>r. ASSUME NEW d, call' = [call EXCEPT ![c] = d],
             UNCHANGED <<status, cred, given, alive, invites>>,
             c = c1 => ClientHolds(d), c # c1 => JobHolds(d)
      PROVE  ConnectorInv'
  BY <1>t, <1>r, CallReads DEF Connector!rowVars
<1>i. ASSUME call' = [call EXCEPT ![c] = Connector!Idle],
             UNCHANGED <<status, cred, given, alive, invites>>
      PROVE  ConnectorInv'
  BY <1>r, <1>i, ConnectorIdle
<1>m. ASSUME NEW to \in {"error", "reauth"}, c = c1, s.pc \in {"token", "refresh", "use"},
             call' = [call EXCEPT ![c] = [s EXCEPT !.pc = "mark", !.to = to]],
             UNCHANGED <<status, cred, given, alive, invites>>
      PROVE  ConnectorInv'
  <2> DEFINE d == [s EXCEPT !.pc = "mark", !.to = to]
  <2>1. d \in Connector!Call /\ d.pc = "mark" /\ d.to = to /\ d.seen = s.seen
    BY <1>t DEF Connector!Call, Connector!Status
  <2>2. ClientHolds(d)
    <3> HIDE DEF d
    <3> QED BY <1>t, <1>m, <2>1 DEF ClientHolds, SeenIsKnown
  <2>3. call' = [call EXCEPT ![c] = d]
    BY <1>m
  <2> HIDE DEF d
  <2> QED BY <1>r, <1>m, <2>2, <2>3
<1>f. ASSUME NEW to \in {"error", "reauth"}, Connector!Fails(c, to),
             s.pc \in {"token", "refresh", "use"},
             UNCHANGED <<status, cred, given, alive, invites>>
      PROVE  ConnectorInv'
  <2>1. CASE c = c1
    BY <1>c, <1>f, <1>m, <2>1 DEF Connector!Fails, Connector!Goes
  <2>2. CASE c # c1
    BY <1>c, <1>f, <1>i, <2>2 DEF Connector!Fails, Connector!Goes
  <2> QED BY <2>1, <2>2
<1>1. CASE Connector!Asks(c)
  <2> DEFINE d == Connector!Doing("token", status, Connector!NoGrant, Connector!NoGrant, "none")
  <2>1. call' = [call EXCEPT ![c] = d] /\ UNCHANGED <<status, cred, given, alive, invites>>
    BY <1>1 DEF Connector!Asks, Connector!Goes, Connector!rowVars, Connector!googleVars
  <2>2. d \in Connector!Call /\ d.pc = "token" /\ d.seen = status
    BY <1>t DEF Connector!Doing, Connector!Call, Connector!Status
  <2>3. ClientHolds(d) /\ JobHolds(d)
    <3> HIDE DEF d
    <3> QED BY <2>2 DEF ClientHolds, JobHolds, SeenIsKnown
  <2> HIDE DEF d
  <2> QED BY <1>r, <2>1, <2>3
<1>2. CASE Connector!FindsNothing(c)
  <2>1. "error" \in {"error", "reauth"}
    OBVIOUS
  <2> QED BY <1>2, <1>f, <2>1 DEF Connector!FindsNothing, Connector!rowVars, Connector!googleVars
<1>3. CASE Connector!ReadsCred(c)
  <2>1. /\ s.pc = "token" /\ Connector!HasCred
        /\ UNCHANGED <<status, cred, given, alive, invites>>
        /\ cred.row # Connector!NoGrant
    BY <1>3 DEF Connector!ReadsCred, Connector!rowVars, Connector!googleVars, ConnectorInv, RowHolds
  <2>2. CASE cred.old
    <3> DEFINE d == [s EXCEPT !.pc = "refresh", !.row = cred.row, !.grant = cred.refresh]
    <3>1. d \in Connector!Call /\ d.pc = "refresh" /\ d.seen = s.seen /\ d.row = cred.row
      BY <1>t DEF Connector!Call, Connector!Cred
    <3>2. c = c1 => ClientHolds(d)
      <4> HIDE DEF d
      <4> QED BY <1>t, <2>1, <3>1 DEF ClientHolds, SeenIsKnown
    <3>3. c # c1 => JobHolds(d)
      <4> HIDE DEF d
      <4> QED BY <1>t, <2>1, <3>1 DEF JobHolds
    <3>4. call' = [call EXCEPT ![c] = d]
      BY <1>3, <2>2 DEF Connector!ReadsCred, Connector!Goes
    <3> HIDE DEF d
    <3> QED BY <1>r, <2>1, <3>2, <3>3, <3>4
  <2>3. CASE ~ cred.old
    <3> DEFINE d == [s EXCEPT !.pc = "use", !.grant = cred.access]
    <3>1. d \in Connector!Call /\ d.pc = "use" /\ d.seen = s.seen
      BY <1>t DEF Connector!Call, Connector!Cred
    <3>2. c = c1 => ClientHolds(d)
      <4> HIDE DEF d
      <4> QED BY <1>t, <2>1, <3>1 DEF ClientHolds, SeenIsKnown
    <3>3. c # c1 => JobHolds(d)
      <4> HIDE DEF d
      <4> QED BY <1>t, <2>1, <3>1 DEF JobHolds
    <3>4. call' = [call EXCEPT ![c] = d]
      BY <1>3, <2>3 DEF Connector!ReadsCred, Connector!Goes
    <3> HIDE DEF d
    <3> QED BY <1>r, <2>1, <3>2, <3>3, <3>4
  <2> QED BY <2>2, <2>3
<1>4. CASE Connector!Refreshes(c)
  <2> DEFINE d == [s EXCEPT !.pc = "save"]
  <2>1. /\ s.pc = "refresh" /\ UNCHANGED <<status, cred, given, alive, invites>>
        /\ call' = [call EXCEPT ![c] = d]
    BY <1>4 DEF Connector!Refreshes, Connector!Goes, Connector!rowVars, Connector!googleVars
  <2>2. d \in Connector!Call /\ d.pc = "save" /\ d.seen = s.seen /\ d.row = s.row
    BY <1>t DEF Connector!Call
  <2>3. c = c1 => ClientHolds(d)
    <3> HIDE DEF d
    <3> QED BY <1>t, <2>1, <2>2 DEF ClientHolds, SeenIsKnown
  <2>4. c # c1 => JobHolds(d)
    <3> HIDE DEF d
    <3> QED BY <1>t, <2>1, <2>2 DEF JobHolds
  <2> HIDE DEF d
  <2> QED BY <1>r, <2>1, <2>3, <2>4
<1>5. CASE Connector!NeedsReauth(c)
  <2>1. s.pc = "refresh" /\ UNCHANGED <<status, cred, given, alive, invites>>
    BY <1>5 DEF Connector!NeedsReauth, Connector!rowVars, Connector!googleVars
  <2>2. CASE Connector!Fails(c, "reauth")
    <3>1. "reauth" \in {"error", "reauth"}
      OBVIOUS
    <3> QED BY <1>f, <2>1, <2>2, <3>1
  <2>3. CASE c \in TokenJobs /\ Connector!Goes(c, [s EXCEPT !.pc = "mark", !.seen = "any", !.to = "reauth"])
    <3> DEFINE d == [s EXCEPT !.pc = "mark", !.seen = "any", !.to = "reauth"]
    <3>1. d \in Connector!Call /\ d.pc = "mark" /\ d.seen = "any" /\ d.to = "reauth"
      BY <1>t DEF Connector!Call, Connector!Status
    <3>2. JobHolds(d) /\ c # c1
      <4> HIDE DEF d
      <4> QED BY <1>j, <2>3, <3>1 DEF JobHolds
    <3>3. call' = [call EXCEPT ![c] = d]
      BY <2>3 DEF Connector!Goes
    <3> HIDE DEF d
    <3> QED BY <1>r, <2>1, <3>2, <3>3
  <2> QED BY <1>5, <2>2, <2>3 DEF Connector!NeedsReauth
<1>6. CASE Connector!Unreachable(c)
  <2>1. "error" \in {"error", "reauth"}
    OBVIOUS
  <2>2. s.pc \in {"token", "refresh", "use"} /\ UNCHANGED <<status, cred, given, alive, invites>>
    BY <1>6 DEF Connector!Unreachable, Connector!rowVars, Connector!googleVars
  <2> QED BY <1>6, <1>f, <2>1, <2>2 DEF Connector!Unreachable
<1>7. CASE Connector!Saves(c)
  <2>1. /\ s.pc = "save" /\ cred' = Connector!CredRefreshed(c)
        /\ UNCHANGED <<status, given, alive, invites>>
        /\ call' = [call EXCEPT ![c] =
               IF cred.row = s.row THEN [s EXCEPT !.pc = "use", !.seen = "any"] ELSE Connector!Idle]
    BY <1>7 DEF Connector!Saves, Connector!Goes, Connector!googleVars
  <2>2. CASE cred.row = s.row
    <3>0. PICK d : d = [s EXCEPT !.pc = "use", !.seen = "any"]
      OBVIOUS
    <3>1. s.row # Connector!NoGrant
      BY <1>t, <2>1 DEF ClientHolds, JobHolds
    <3>2. /\ cred' \in Connector!Cred /\ cred'.row = cred.row /\ cred'.row # Connector!NoGrant
      BY <1>t, <2>1, <2>2, <3>1 DEF Connector!CredRefreshed, Connector!Holds, Connector!Cred,
         Connector!Call
    <3>3. Connector!HasCred' /\ Connector!HasCred
      BY <2>2, <3>1, <3>2 DEF Connector!HasCred, Connector!NoCred, Connector!Holds
    <3>4. RowHolds' /\ RowStays
      BY <2>1, <3>2, <3>3 DEF RowHolds, RowStays, Connector!StatusMatchesCred, ConnectorInv
    <3>5. d \in Connector!Call /\ d.pc = "use" /\ d.seen = "any"
      BY <1>t, <3>0 DEF Connector!Call
    <3>6. ClientHolds(d)' /\ JobHolds(d)
      BY <3>3, <3>5 DEF ClientHolds, JobHolds, SeenIsKnown
    <3>7. call' = [call EXCEPT ![c] = d]
      BY <2>1, <2>2, <3>0
    <3>8. status' \in Connector!Status
      BY <1>t, <2>1
    <3> QED BY <2>1, <3>2, <3>4, <3>6, <3>7, <3>8, CallWrites
  <2>3. CASE cred.row # s.row
    BY <1>i, <2>1, <2>3 DEF Connector!CredRefreshed
  <2> QED BY <2>2, <2>3
<1>8. CASE Connector!Uses(c)
  <2>1. s.pc = "use" /\ UNCHANGED <<status, cred, given, alive, invites>>
    BY <1>8 DEF Connector!Uses, Connector!rowVars, Connector!googleVars
  <2>2. CASE c # c1
    BY <1>8, <1>i, <1>j, <2>1, <2>2 DEF Connector!Uses, Connector!Goes
  <2>3. CASE c = c1
    <3> DEFINE d == [s EXCEPT !.pc = "mark", !.to = IF s.grant \in alive THEN "connected" ELSE "error"]
    <3>1. d \in Connector!Call /\ d.pc = "mark" /\ d.to \in {"connected", "error"} /\ d.seen = s.seen
      BY <1>t DEF Connector!Call, Connector!Status
    <3>2. ClientHolds(d)
      <4> HIDE DEF d
      <4> QED BY <1>t, <2>1, <2>3, <3>1 DEF ClientHolds, SeenIsKnown
    <3>3. call' = [call EXCEPT ![c] = d]
      BY <1>8, <1>j, <2>3 DEF Connector!Uses, Connector!Goes
    <3> HIDE DEF d
    <3> QED BY <1>r, <2>1, <2>3, <3>2, <3>3
  <2> QED BY <2>2, <2>3
<1>9. CASE Connector!Marks(c)
  <2>1. /\ s.pc = "mark" /\ call' = [call EXCEPT ![c] = Connector!Idle]
        /\ UNCHANGED <<cred, given, alive, invites>>
        /\ status' = Connector!StatusAfter(s.seen, s.to)
    BY <1>9 DEF Connector!Marks, Connector!Goes, Connector!googleVars
  <2>2. /\ Connector!HasCred' <=> Connector!HasCred
        /\ cred' \in Connector!Cred /\ cred'.row = cred.row
        /\ Connector!HasCred' => cred'.row # Connector!NoGrant
    BY <1>t, <2>1 DEF Connector!HasCred, ConnectorInv, RowHolds
  <2>3. CASE c # c1
    <3>1. status' = "reauth"
      BY <1>t, <2>1, <2>3 DEF JobHolds, Connector!StatusAfter, Connector!Status
    <3>2. RowHolds' /\ RowStays /\ status' \in Connector!Status
      BY <2>2, <3>1 DEF RowHolds, RowStays, Connector!StatusMatchesCred, Connector!Status
    <3> QED BY <2>1, <2>2, <2>3, <3>2, ConnectorIdle, CallWrites
  <2>4. CASE c = c1
    <3>1. /\ s.to \in {"connected", "error", "reauth"} /\ SeenIsKnown(s)
          /\ s.to = "connected" => Connector!HasCred
      BY <1>t, <2>1, <2>4 DEF ClientHolds
    <3>2. status' \in {s.to, "reauth"}
      BY <2>1, <3>1 DEF SeenIsKnown, Connector!StatusAfter
    <3>3. RowHolds' /\ status' \in Connector!Status
      <4>1. status' # "none" /\ status' # "disconnected"
        BY <3>1, <3>2
      <4>2. status' = "connected" => Connector!HasCred'
        BY <2>2, <3>1, <3>2
      <4>3. status' \in Connector!Status
        BY <3>1, <3>2 DEF Connector!Status
      <4> QED BY <4>1, <4>2, <4>3, <2>2 DEF RowHolds, Connector!StatusMatchesCred
    <3>4. ClientHolds(Connector!Idle)'
      BY ConnectorIdle DEF ClientHolds
    <3> QED BY <2>1, <2>2, <2>4, <3>3, <3>4, CallWrites
  <2> QED BY <2>3, <2>4
<1>10. CASE Connector!Dies(c)
  BY <1>10, <1>i DEF Connector!Dies, Connector!Goes, Connector!rowVars, Connector!googleVars
<1> QED BY <1>1, <1>2, <1>3, <1>4, <1>5, <1>6, <1>7, <1>8, <1>9, <1>10

\* Neither the row's status nor a call changes.
LEMMA GoogleSteps ==
    ASSUME TokenBounds, ConnectorInv,
           \/ Connector!Lapses \/ Connector!Ages
           \/ \E g \in Connector!Grants : Connector!Withdraws(g)
    PROVE  ConnectorInv'
<1>t. /\ cred \in Connector!Cred /\ alive \subseteq Connector!Grants
      /\ invites \in 0 .. MaxGrants /\ given \in 0 .. MaxGrants /\ MaxGrants \in Nat
      /\ invites + given <= MaxGrants
      /\ call \in [ConnectorCalls -> Connector!Call]
  BY DEF ConnectorInv, Connector!TypeOK, TokenBounds, ConnectorCalls
<1>1. /\ UNCHANGED <<status, given, call>>
      /\ invites' \in 0 .. MaxGrants /\ invites' + given' <= MaxGrants
      /\ alive' \subseteq Connector!Grants /\ cred' \in Connector!Cred
      /\ cred'.row = cred.row /\ (Connector!HasCred' <=> Connector!HasCred)
  <2>1. CASE Connector!Lapses
    BY <1>t, <2>1 DEF Connector!Lapses, Connector!rowVars, Connector!googleVars, Connector!HasCred
  <2>2. CASE Connector!Ages
    <3>1. /\ Connector!HasCred /\ cred' = [cred EXCEPT !.old = TRUE]
          /\ UNCHANGED <<status, given, alive, invites, call>>
      BY <2>2 DEF Connector!Ages, Connector!googleVars
    <3>2. cred' \in Connector!Cred /\ cred'.row = cred.row /\ cred'.old
      BY <1>t, <3>1 DEF Connector!Cred
    <3>3. Connector!HasCred'
      BY <3>2 DEF Connector!HasCred, Connector!NoCred, Connector!Holds
    <3> QED BY <1>t, <3>1, <3>2, <3>3
  <2>3. CASE \E g \in Connector!Grants : Connector!Withdraws(g)
    BY <1>t, <2>3 DEF Connector!Withdraws, Connector!rowVars, Connector!HasCred
  <2> QED BY <2>1, <2>2, <2>3
<1>2. RowStays
  BY <1>1 DEF RowStays
<1>3. ClientHolds(call[c1])'
  <2>1. PICK e : e = call[c1] /\ e = call'[c1]
    BY <1>1
  <2>2. ClientHolds(e)'
    <3>1. ClientHolds(e)
      BY <2>1 DEF ConnectorInv
    <3> QED BY <1>2, <3>1, ClientStays
  <2> QED BY <2>1, <2>2 DEF ClientHolds, SeenIsKnown
<1>4. Connector!TypeOK'
  BY <1>1 DEF ConnectorInv, Connector!TypeOK
<1>5. RowHolds'
  BY <1>1 DEF ConnectorInv, RowHolds, Connector!StatusMatchesCred
<1>6. \A j \in TokenJobs : JobHolds(call[j])'
  BY <1>1 DEF ConnectorInv, JobHolds
<1> QED BY <1>1, <1>3, <1>4, <1>5, <1>6 DEF ConnectorInv

\* Every step keeps the invariant.
LEMMA ConnectorStep ==
    ASSUME TokenBounds, ConnectorInv, [Connector!Next]_(Connector!vars)
    PROVE  ConnectorInv'
<1>1. CASE UNCHANGED Connector!vars
  BY <1>1 DEF ConnectorInv, Connector!TypeOK, RowHolds, Connector!StatusMatchesCred,
     Connector!HasCred, ClientHolds, SeenIsKnown, JobHolds, Connector!vars, Connector!rowVars,
     Connector!googleVars
<1>2. CASE Connector!Next
  BY <1>2, ClientSteps, TokenSteps, GoogleSteps DEF Connector!Next, ConnectorCalls
<1> QED BY <1>1, <1>2

\* A connector that was never connected satisfies it.
LEMMA ConnectorInit ==
    ASSUME TokenBounds, Connector!Init
    PROVE  ConnectorInv
<1>1. /\ call[c1] = Connector!Idle /\ \A j \in TokenJobs : call[j] = Connector!Idle
      /\ call \in [ConnectorCalls -> Connector!Call]
  BY ConnectorIdle DEF Connector!Init, ConnectorCalls
<1>2. status = "none" /\ cred = Connector!NoCred /\ given = 0 /\ alive = {} /\ invites = 0
  BY DEF Connector!Init
<1>3. cred \in Connector!Cred
  BY <1>2 DEF Connector!NoCred, Connector!Holds, Connector!Cred
<1>4. Connector!TypeOK
  BY <1>1, <1>2, <1>3 DEF Connector!TypeOK, ConnectorCalls, TokenBounds, Connector!Status
<1>5. RowHolds
  BY <1>2 DEF RowHolds, Connector!StatusMatchesCred, Connector!HasCred
<1> QED BY <1>1, <1>2, <1>4, <1>5, ConnectorIdle DEF ConnectorInv, TokenBounds

\* What the invariant says of the row.
LEMMA ConnectorImplies == ConnectorInv => Connector!TypeOK /\ Connector!StatusMatchesCred
BY DEF ConnectorInv, RowHolds

(***************************************************************************)
(* A connector that says "connected" has credentials, and one that says     *)
(* "disconnected" has none, whatever jobs ask for a token, refresh it or    *)
(* mark the connector meanwhile, with one call of the API at a time.        *)
(***************************************************************************)
THEOREM StatusMatchesCredHolds ==
    ASSUME TokenBounds
    PROVE  Connector!Spec => [](Connector!TypeOK /\ Connector!StatusMatchesCred)
<1>1. Connector!Init => ConnectorInv
  BY ConnectorInit
<1>2. ConnectorInv /\ [Connector!Next]_(Connector!vars) => ConnectorInv'
  BY ConnectorStep
<1> QED BY <1>1, <1>2, ConnectorImplies, PTL DEF Connector!Spec

-----------------------------------------------------------------------------
(* A conversation and any tabs that ask in it *)

\* What the bounds are: nothing else is assumed of the constants.
TalkBounds == MaxClock \in Nat /\ ToolLimit \in Nat /\ MaxOutages \in Nat

\* What a request that is under way knows of its turn.
TurnHolds(d) ==
    /\ d \in Talk!Request
    /\ d.pc # "idle" => d.turn <= clock /\ d.began <= clock
    /\ d.pc \notin {"idle", "answer"} => \A m \in messages : m.turn # d.turn
    /\ d.pc = "answer" =>
           /\ \A m \in messages : m.turn = d.turn => m.role = "user" /\ ~ m.whole
           /\ \E m \in messages : m.turn = d.turn /\ m.at < d.began

\* No two tabs ask in one turn.
TurnsDiffer ==
    \A a, b \in Tabs :
        a # b /\ request[a].pc # "idle" /\ request[b].pc # "idle" =>
            request[a].turn # request[b].turn

\* The inductive invariant of a conversation.
TalkInv ==
    /\ Talk!TypeOK /\ Talk!QuestionFirst /\ Talk!WindowEnds
    /\ \A m \in messages : m.turn <= clock
    /\ \A b \in Tabs : TurnHolds(request[b])
    /\ TurnsDiffer

\* The types of what is counted.
LEMMA TalkTypes ==
    ASSUME TalkBounds, TalkInv
    PROVE  /\ clock \in Nat /\ outages \in Nat /\ Talk!Times \subseteq Nat
           /\ messages \subseteq Talk!Message
           /\ \A m \in messages : m.turn \in Nat /\ m.at \in Nat
           /\ request \in [Tabs -> Talk!Request]
           /\ \A b \in Tabs : request[b].turn \in Nat /\ request[b].began \in Nat
BY DEF TalkBounds, TalkInv, Talk!TypeOK, Talk!Times, Talk!Message, Talk!Request

\* The request of b goes on, and adds to the messages of its own turn at most.
LEMMA TurnGoes ==
    ASSUME TalkBounds, TalkInv, NEW b \in Tabs, NEW d,
           request' = [request EXCEPT ![b] = d],
           TurnHolds(d)',
           clock' \in Nat, clock <= clock', messages \subseteq messages',
           messages' = messages \/ request[b].pc # "idle",
           \A m \in messages' : m \in messages \/ m.turn = request[b].turn,
           \/ d.pc = "idle"
           \/ d.turn = request[b].turn /\ request[b].pc # "idle"
           \/ \A a \in Tabs : request[a].pc # "idle" => request[a].turn # d.turn
    PROVE  /\ request' \in [Tabs -> Talk!Request]
           /\ \A a \in Tabs : TurnHolds(request[a])'
           /\ TurnsDiffer'
<1>1. /\ d \in Talk!Request /\ request \in [Tabs -> Talk!Request]
      /\ \A a \in Tabs : request'[a] = IF a = b THEN d ELSE request[a]
  BY TalkTypes DEF TurnHolds
<1>2. request' \in [Tabs -> Talk!Request]
  BY <1>1
<1>3. ASSUME NEW a \in Tabs PROVE TurnHolds(request[a])'
  <2>1. CASE a = b
    BY <1>1, <2>1 DEF TurnHolds
  <2>2. CASE a # b
    <3>1. PICK e : e = request[a] /\ e = request'[a]
      BY <1>1, <2>2
    <3>2. TurnHolds(e) /\ e.turn \in Nat /\ e.began \in Nat /\ clock \in Nat
      BY <3>1, TalkTypes DEF TalkInv
    <3>3. ASSUME NEW m \in messages', e.pc # "idle", m.turn = e.turn PROVE m \in messages
      BY <2>2, <3>1, <3>3 DEF TalkInv, TurnsDiffer
    <3>4. TurnHolds(e)'
      <4>1. e.pc # "idle" => e.turn <= clock' /\ e.began <= clock'
        BY <3>2 DEF TurnHolds
      <4>2. e.pc \notin {"idle", "answer"} => \A m \in messages' : m.turn # e.turn
        BY <3>2, <3>3 DEF TurnHolds
      <4>3. e.pc = "answer" =>
               /\ \A m \in messages' : m.turn = e.turn => m.role = "user" /\ ~ m.whole
               /\ \E m \in messages' : m.turn = e.turn /\ m.at < e.began
        BY <3>2, <3>3 DEF TurnHolds
      <4> QED BY <3>2, <4>1, <4>2, <4>3 DEF TurnHolds
    <3> QED BY <3>1, <3>4 DEF TurnHolds
  <2> QED BY <2>1, <2>2
<1>4. TurnsDiffer'
  BY <1>1 DEF TalkInv, TurnsDiffer
<1> QED BY <1>2, <1>3, <1>4

\* The messages stay.
LEMMA TurnReads ==
    ASSUME TalkBounds, TalkInv, NEW b \in Tabs, NEW d,
           request' = [request EXCEPT ![b] = d], TurnHolds(d),
           UNCHANGED <<messages, clock>>,
           d.pc = "idle" \/ (d.turn = request[b].turn /\ request[b].pc # "idle"),
           outages' \in 0 .. MaxOutages,
           counter' \in [value : 0 .. ToolLimit + 1, expires : BOOLEAN],
           Talk!WindowEnds'
    PROVE  TalkInv'
<1>1. TurnHolds(d)' /\ clock' \in Nat /\ clock <= clock'
  BY TalkTypes DEF TurnHolds
<1>2. /\ request' \in [Tabs -> Talk!Request]
      /\ \A a \in Tabs : TurnHolds(request[a])'
      /\ TurnsDiffer'
  BY <1>1, TurnGoes
<1>3. Talk!TypeOK'
  BY <1>2 DEF TalkInv, Talk!TypeOK
<1>4. Talk!QuestionFirst'
  BY DEF TalkInv, Talk!QuestionFirst, Talk!Questions, Talk!Answers
<1> QED BY <1>2, <1>3, <1>4 DEF TalkInv

\* The counter stays, nobody whose task it is to see to its expiry goes away.
LEMMA WindowStays ==
    ASSUME TalkBounds, TalkInv, NEW b \in Tabs, NEW d, request' = [request EXCEPT ![b] = d],
           counter' = counter, request[b].pc # "expire", outages > 0 => outages' > 0
    PROVE  Talk!WindowEnds'
<1>1. \A a \in Tabs : request[a].pc = "expire" => request'[a].pc = "expire"
  BY TalkTypes
<1> QED BY <1>1 DEF TalkInv, Talk!WindowEnds

\* A tab that asks nothing.
LEMMA TalkIdle ==
    ASSUME TalkBounds
    PROVE  Talk!Idle \in Talk!Request /\ Talk!Idle.pc = "idle" /\ TurnHolds(Talk!Idle)
<1>1. Talk!Idle \in Talk!Request /\ Talk!Idle.pc = "idle"
  BY DEF Talk!Idle, Talk!Request, Talk!Times, TalkBounds
<1> QED BY <1>1 DEF TurnHolds

\* The counter of tool calls stays within its bounds.
LEMMA Counting ==
    ASSUME TalkBounds, TalkInv
    PROVE  /\ counter \in [value : 0 .. ToolLimit + 1, expires : BOOLEAN]
           /\ Talk!Incremented \in [value : 0 .. ToolLimit + 1, expires : BOOLEAN]
           /\ Talk!Incremented.value = 1 \/ counter.value > 0
           /\ Talk!Incremented.expires = counter.expires
<1>1. /\ counter \in [value : 0 .. ToolLimit + 1, expires : BOOLEAN] /\ ToolLimit \in Nat
  BY DEF TalkInv, Talk!TypeOK, TalkBounds
<1>2. Talk!Least(counter.value + 1, ToolLimit + 1) \in 0 .. ToolLimit + 1
      /\ (counter.value = 0 => Talk!Least(counter.value + 1, ToolLimit + 1) = 1)
  BY <1>1 DEF Talk!Least
<1>3. Talk!Incremented = [counter EXCEPT !.value = Talk!Least(counter.value + 1, ToolLimit + 1)]
  BY DEF Talk!Incremented
<1> QED BY <1>1, <1>2, <1>3

\* What a step of the rate limit leaves of the request.
LEMMA TurnMoves ==
    ASSUME TalkBounds, TalkInv, NEW b \in Tabs,
           NEW pc \in {"read", "count", "expire", "tools", "search"},
           request[b].pc \notin {"idle", "answer"}, Talk!Goes(b, pc)
    PROVE  \E d : /\ request' = [request EXCEPT ![b] = d]
                  /\ TurnHolds(d) /\ d.pc = pc /\ d.turn = request[b].turn
<1> DEFINE d == [request[b] EXCEPT !.pc = pc]
<1>1. /\ d \in Talk!Request /\ d.pc = pc /\ d.turn = request[b].turn
      /\ d.began = request[b].began
  BY TalkTypes DEF Talk!Request
<1>2. TurnHolds(request[b])
  BY DEF TalkInv
<1>3. TurnHolds(d)
  <2> HIDE DEF d
  <2> QED BY <1>1, <1>2 DEF TurnHolds
<1>4. request' = [request EXCEPT ![b] = d]
  BY DEF Talk!Goes
<1> QED BY <1>1, <1>3, <1>4

\* The steps of the rate limit, and the window's end.
LEMMA CounterSteps ==
    ASSUME TalkBounds, TalkInv, NEW b \in Tabs,
           \/ Talk!Classifies(b) \/ Talk!Fails(b) \/ Talk!Counts(b) \/ Talk!SetsExpiry(b)
           \/ Talk!RedisFails(b) \/ Talk!Dies(b)
    PROVE  TalkInv'
<1>t. /\ counter \in [value : 0 .. ToolLimit + 1, expires : BOOLEAN]
      /\ outages \in 0 .. MaxOutages /\ MaxOutages \in Nat /\ ToolLimit \in Nat
  BY DEF TalkInv, Talk!TypeOK, TalkBounds
<1>1. CASE Talk!Classifies(b)
  <2>1. PICK pc \in {"count", "search"} : Talk!Goes(b, pc)
    BY <1>1 DEF Talk!Classifies
  <2>2. request[b].pc = "read" /\ UNCHANGED <<messages, counter, clock, outages>>
    BY <1>1 DEF Talk!Classifies
  <2>3. PICK d : /\ request' = [request EXCEPT ![b] = d]
                 /\ TurnHolds(d) /\ d.pc = pc /\ d.turn = request[b].turn
    BY <2>1, <2>2, TurnMoves
  <2>4. Talk!WindowEnds'
    BY <1>t, <2>2, <2>3, WindowStays
  <2> QED BY <1>t, <2>2, <2>3, <2>4, TurnReads
<1>2. CASE Talk!Fails(b)
  <2>1. /\ request[b].pc # "expire" /\ UNCHANGED <<messages, counter, clock, outages>>
        /\ request' = [request EXCEPT ![b] = Talk!Idle]
    BY <1>2 DEF Talk!Fails, Talk!Ends
  <2>2. Talk!WindowEnds'
    BY <1>t, <2>1, WindowStays
  <2> QED BY <1>t, <2>1, <2>2, TalkIdle, TurnReads
<1>3. CASE Talk!Counts(b)
  <2> DEFINE n == Talk!Incremented.value
             pc == IF Talk!IsFirst(n) THEN "expire" ELSE IF n <= ToolLimit THEN "tools" ELSE "search"
  <2>1. /\ request[b].pc = "count" /\ counter' = Talk!Incremented
        /\ Talk!Goes(b, pc) /\ UNCHANGED <<messages, clock, outages>>
    BY <1>3 DEF Talk!Counts
  <2>2. PICK d : /\ request' = [request EXCEPT ![b] = d]
                 /\ TurnHolds(d) /\ d.pc = pc /\ d.turn = request[b].turn
    BY <2>1, TurnMoves
  <2>3. Talk!WindowEnds'
    <3>1. CASE n = 1
      <4>1. request'[b].pc = "expire"
        BY <2>2, <3>1, TalkTypes DEF Talk!IsFirst
      <4> QED BY <4>1 DEF Talk!WindowEnds
    <3>2. CASE n # 1
      <4>1. counter.value > 0 /\ counter'.expires = counter.expires
        BY <2>1, <3>2, Counting
      <4>2. \A a \in Tabs : request[a].pc = "expire" => request'[a].pc = "expire"
        BY <2>1, <2>2, TalkTypes
      <4> QED BY <2>1, <4>1, <4>2 DEF TalkInv, Talk!WindowEnds
    <3> QED BY <3>1, <3>2
  <2> QED BY <1>t, <2>1, <2>2, <2>3, Counting, TurnReads
<1>4. CASE Talk!SetsExpiry(b)
  <2>1. /\ request[b].pc = "expire" /\ UNCHANGED <<messages, clock, outages>>
        /\ counter' = [counter EXCEPT !.expires = @ \/ counter.value > 0]
        /\ Talk!Goes(b, "tools")
    BY <1>4 DEF Talk!SetsExpiry
  <2>2. PICK d : /\ request' = [request EXCEPT ![b] = d]
                 /\ TurnHolds(d) /\ d.pc = "tools" /\ d.turn = request[b].turn
    BY <2>1, TurnMoves
  <2>3. /\ counter' \in [value : 0 .. ToolLimit + 1, expires : BOOLEAN]
        /\ counter'.value = counter.value
        /\ counter.value > 0 => counter'.expires
    <3>1. (counter.expires \/ counter.value > 0) \in BOOLEAN
      BY <1>t
    <3> QED BY <1>t, <2>1, <3>1
  <2>4. Talk!WindowEnds'
    BY <2>3 DEF Talk!WindowEnds
  <2> QED BY <1>t, <2>1, <2>2, <2>3, <2>4, TurnReads
<1>5. CASE Talk!RedisFails(b)
  <2>1. /\ request[b].pc \in {"count", "expire"} /\ outages < MaxOutages
        /\ counter' \in {counter, Talk!Incremented}
        /\ Talk!Goes(b, "tools") /\ outages' = outages + 1 /\ UNCHANGED <<messages, clock>>
    BY <1>5 DEF Talk!RedisFails
  <2>2. PICK d : /\ request' = [request EXCEPT ![b] = d]
                 /\ TurnHolds(d) /\ d.pc = "tools" /\ d.turn = request[b].turn
    BY <2>1, TurnMoves
  <2>3. outages' \in 0 .. MaxOutages /\ outages' > 0
    BY <1>t, <2>1
  <2>4. Talk!WindowEnds'
    BY <2>3 DEF Talk!WindowEnds
  <2>5. counter' \in [value : 0 .. ToolLimit + 1, expires : BOOLEAN]
    BY <2>1, Counting
  <2> QED BY <2>1, <2>2, <2>3, <2>4, <2>5, TurnReads
<1>6. CASE Talk!Dies(b)
  <2>1. /\ outages < MaxOutages /\ outages' = outages + 1 /\ UNCHANGED <<messages, counter, clock>>
        /\ request' = [request EXCEPT ![b] = Talk!Idle]
    BY <1>6 DEF Talk!Dies, Talk!Ends
  <2>2. outages' \in 0 .. MaxOutages /\ outages' > 0
    BY <1>t, <2>1
  <2>3. Talk!WindowEnds'
    BY <2>2 DEF Talk!WindowEnds
  <2> QED BY <1>t, <2>1, <2>2, <2>3, TalkIdle, TurnReads
<1> QED BY <1>1, <1>2, <1>3, <1>4, <1>5, <1>6

\* A request begins: its turn is a new one.
LEMMA BeginsHolds ==
    ASSUME TalkBounds, TalkInv, NEW b \in Tabs, Talk!Begins(b)
    PROVE  TalkInv'
<1>1. /\ request[b].pc = "idle" /\ clock < MaxClock /\ clock' = clock + 1
      /\ request' = [request EXCEPT ![b] = [pc |-> "read", turn |-> clock', began |-> clock']]
      /\ UNCHANGED <<messages, counter, outages>>
  BY DEF Talk!Begins
<1>2. /\ clock \in Nat /\ clock' \in Nat /\ clock <= clock' /\ clock' \in Talk!Times
      /\ outages \in 0 .. MaxOutages
  BY <1>1, TalkTypes DEF TalkBounds, Talk!Times, TalkInv, Talk!TypeOK
<1>3. PICK d : d = [pc |-> "read", turn |-> clock', began |-> clock']
  OBVIOUS
<1>4. d \in Talk!Request
  BY <1>2, <1>3 DEF Talk!Request
<1>5. \A m \in messages : m.turn # d.turn
  BY <1>1, <1>2, <1>3, TalkTypes DEF TalkInv
<1>6. TurnHolds(d)'
  BY <1>1, <1>2, <1>3, <1>4, <1>5 DEF TurnHolds
<1>7. \A a \in Tabs : request[a].pc # "idle" => request[a].turn # d.turn
  BY <1>1, <1>2, <1>3, TalkTypes DEF TalkInv, TurnHolds
<1>8. /\ request' \in [Tabs -> Talk!Request]
      /\ \A a \in Tabs : TurnHolds(request[a])'
      /\ TurnsDiffer'
  <2>1. request' = [request EXCEPT ![b] = d]
    BY <1>1, <1>3
  <2> QED BY <1>1, <1>2, <1>6, <1>7, <2>1, TurnGoes
<1>9. Talk!WindowEnds'
  BY <1>1, <1>2, TalkTypes, WindowStays
<1>10. Talk!TypeOK'
  BY <1>1, <1>2, <1>8 DEF TalkInv, Talk!TypeOK
<1>11. Talk!QuestionFirst'
  BY <1>1 DEF TalkInv, Talk!QuestionFirst, Talk!Questions, Talk!Answers
<1>12. \A m \in messages' : m.turn <= clock'
  BY <1>1, <1>2, TalkTypes DEF TalkInv
<1> QED BY <1>8, <1>9, <1>10, <1>11, <1>12 DEF TalkInv

\* What the messages of a turn say.
LEMMA MessageIs ==
    ASSUME TalkBounds, TalkInv, NEW b \in Tabs, NEW role \in {"user", "assistant"},
           NEW whole \in BOOLEAN
    PROVE  /\ Talk!Of(b, role, whole) \in Talk!Message
           /\ Talk!Of(b, role, whole).turn = request[b].turn
           /\ Talk!Of(b, role, whole).role = role
           /\ Talk!Of(b, role, whole).at = request[b].began
           /\ Talk!Of(b, role, whole).whole = whole
BY TalkTypes DEF Talk!Of, Talk!Message, Talk!Request

\* Messages of the turn of b are added.
LEMMA TurnWrites ==
    ASSUME TalkBounds, TalkInv, NEW b \in Tabs, NEW d, NEW new,
           request' = [request EXCEPT ![b] = d], TurnHolds(d)',
           clock' \in Talk!Times, clock <= clock', counter' = counter, outages' = outages,
           request[b].pc # "idle", request[b].pc # "expire",
           messages' = messages \cup new, new \subseteq Talk!Message,
           \A m \in new : m.turn = request[b].turn,
           d.pc = "idle" \/ d.turn = request[b].turn,
           Talk!QuestionFirst'
    PROVE  TalkInv'
<1>1. clock' \in Nat /\ clock \in Nat /\ outages \in Nat
  BY TalkTypes
<1>2. /\ request' \in [Tabs -> Talk!Request]
      /\ \A a \in Tabs : TurnHolds(request[a])'
      /\ TurnsDiffer'
  BY <1>1, TurnGoes
<1>3. Talk!WindowEnds'
  BY <1>1, WindowStays
<1>4. Talk!TypeOK'
  BY <1>2 DEF TalkInv, Talk!TypeOK
<1>5. ASSUME NEW m \in messages' PROVE m.turn <= clock'
  <2>1. request[b].turn <= clock /\ request[b].turn \in Nat
    BY TalkTypes DEF TalkInv, TurnHolds
  <2>2. m \in messages => m.turn <= clock /\ m.turn \in Nat
    BY TalkTypes DEF TalkInv
  <2> QED BY <1>1, <1>5, <2>1, <2>2
<1> QED BY <1>2, <1>3, <1>4, <1>5 DEF TalkInv

\* A question and its answer are saved together.
LEMMA AnswersAtOnceHolds ==
    ASSUME TalkBounds, TalkInv, NEW b \in Tabs, Talk!AnswersAtOnce(b)
    PROVE  TalkInv'
<1>0. PICK q, a : q = Talk!Of(b, "user", TRUE) /\ a = Talk!Of(b, "assistant", TRUE)
  OBVIOUS
<1>1. /\ request[b].pc = "tools" /\ request' = [request EXCEPT ![b] = Talk!Idle]
      /\ messages' = messages \cup {q, a} /\ UNCHANGED <<counter, clock, outages>>
  BY <1>0 DEF Talk!AnswersAtOnce, Talk!Ends
<1>2. /\ {q, a} \subseteq Talk!Message
      /\ q.turn = request[b].turn /\ q.role = "user" /\ q.at = request[b].began /\ q.whole
      /\ a.turn = request[b].turn /\ a.role = "assistant" /\ a.at = request[b].began /\ a.whole
  BY <1>0, MessageIs
<1>3. \A m \in messages : m.turn # request[b].turn
  BY <1>1 DEF TalkInv, TurnHolds
<1>4. Talk!QuestionFirst'
  <2>1. \A m \in messages' : m \in messages \/ m = q \/ m = a
    BY <1>1
  <2>2. q \in messages' /\ a \in messages' /\ messages \subseteq messages'
    BY <1>1
  <2>3. q.at <= q.at
    BY <1>2, TalkTypes
  <2>4. \A m \in messages' : m.role = "assistant" => \E n \in messages' : n.role = "user"
            /\ n.turn = m.turn /\ n.at <= m.at /\ (m.whole \/ n.at < m.at)
    BY <1>2, <2>1, <2>2, <2>3 DEF TalkInv, Talk!QuestionFirst, Talk!Questions, Talk!Answers
  <2>5. \A m \in messages' : m.role = "user" /\ m.whole =>
            \E n \in messages' : n.role = "assistant" /\ n.turn = m.turn
    BY <1>2, <2>1, <2>2 DEF TalkInv, Talk!QuestionFirst, Talk!Questions, Talk!Answers
  <2>6. \A m, n \in messages' : m.turn = n.turn /\ m.role = n.role => m = n
    BY <1>2, <1>3, <2>1 DEF TalkInv, Talk!QuestionFirst
  <2> QED BY <2>4, <2>5, <2>6 DEF Talk!QuestionFirst, Talk!Questions, Talk!Answers
<1>5. TurnHolds(Talk!Idle)'
  BY TalkIdle DEF TurnHolds
<1>6. clock' \in Talk!Times /\ clock <= clock'
  BY <1>1, TalkTypes DEF TalkInv, Talk!TypeOK
<1>8. PICK new : new = {q, a}
  OBVIOUS
<1>9. /\ messages' = messages \cup new /\ new \subseteq Talk!Message
      /\ \A m \in new : m.turn = request[b].turn
      /\ counter' = counter /\ outages' = outages
      /\ request[b].pc # "idle" /\ request[b].pc # "expire"
  BY <1>1, <1>2, <1>8
<1> QED BY <1>1, <1>4, <1>5, <1>6, <1>9, TalkIdle, TurnWrites

\* A question is saved before the answer is asked for.
LEMMA SearchesHolds ==
    ASSUME TalkBounds, TalkInv, NEW b \in Tabs, Talk!Searches(b)
    PROVE  TalkInv'
<1>0. PICK q, d : q = Talk!Of(b, "user", FALSE)
                  /\ d = [request[b] EXCEPT !.pc = "answer", !.began = clock']
  OBVIOUS
<1>1. /\ request[b].pc \in {"search", "tools"} /\ request' = [request EXCEPT ![b] = d]
      /\ messages' = messages \cup {q} /\ UNCHANGED <<counter, outages>>
      /\ clock < MaxClock /\ clock' = clock + 1
  BY <1>0 DEF Talk!Searches
<1>2. /\ q \in Talk!Message
      /\ q.turn = request[b].turn /\ q.role = "user" /\ q.at = request[b].began /\ ~ q.whole
  BY <1>0, MessageIs
<1>3. /\ \A m \in messages : m.turn # request[b].turn
      /\ request[b].turn <= clock /\ request[b].began <= clock
  BY <1>1 DEF TalkInv, TurnHolds
<1>4. Talk!QuestionFirst'
  <2>1. \A m \in messages' : m \in messages \/ m = q
    BY <1>1
  <2>2. messages \subseteq messages'
    BY <1>1
  <2>4. \A m \in messages' : m.role = "assistant" => \E n \in messages' : n.role = "user"
            /\ n.turn = m.turn /\ n.at <= m.at /\ (m.whole \/ n.at < m.at)
    BY <1>2, <2>1, <2>2 DEF TalkInv, Talk!QuestionFirst, Talk!Questions, Talk!Answers
  <2>5. \A m \in messages' : m.role = "user" /\ m.whole =>
            \E n \in messages' : n.role = "assistant" /\ n.turn = m.turn
    BY <1>2, <2>1, <2>2 DEF TalkInv, Talk!QuestionFirst, Talk!Questions, Talk!Answers
  <2>6. \A m, n \in messages' : m.turn = n.turn /\ m.role = n.role => m = n
    BY <1>2, <1>3, <2>1 DEF TalkInv, Talk!QuestionFirst
  <2> QED BY <2>4, <2>5, <2>6 DEF Talk!QuestionFirst, Talk!Questions, Talk!Answers
<1>5. clock \in Nat /\ clock' \in Talk!Times /\ clock' \in Nat /\ clock <= clock'
  BY <1>1, TalkTypes DEF Talk!Times, TalkBounds
<1>6. d \in Talk!Request /\ d.pc = "answer" /\ d.turn = request[b].turn /\ d.began = clock'
  BY <1>0, <1>5, TalkTypes DEF Talk!Request
<1>7. TurnHolds(d)'
  <2>1. d.turn <= clock' /\ d.began <= clock'
    BY <1>1, <1>3, <1>5, <1>6, TalkTypes
  <2>2. \A m \in messages' : m.turn = d.turn => m.role = "user" /\ ~ m.whole
    BY <1>1, <1>2, <1>3, <1>6
  <2>3. q \in messages' /\ q.at < d.began
    BY <1>1, <1>2, <1>3, <1>5, <1>6, TalkTypes
  <2> QED BY <1>2, <1>6, <2>1, <2>2, <2>3 DEF TurnHolds
<1>8. PICK new : new = {q}
  OBVIOUS
<1>9. /\ messages' = messages \cup new /\ new \subseteq Talk!Message
      /\ \A m \in new : m.turn = request[b].turn
      /\ counter' = counter /\ outages' = outages
      /\ request[b].pc # "idle" /\ request[b].pc # "expire"
  BY <1>1, <1>2, <1>8
<1> QED BY <1>1, <1>4, <1>5, <1>6, <1>7, <1>9, TurnWrites

\* The answer is saved after its question.
LEMMA AnswersLaterHolds ==
    ASSUME TalkBounds, TalkInv, NEW b \in Tabs, Talk!AnswersLater(b)
    PROVE  TalkInv'
<1>0. PICK a : a = Talk!Of(b, "assistant", FALSE)
  OBVIOUS
<1>1. /\ request[b].pc = "answer" /\ request' = [request EXCEPT ![b] = Talk!Idle]
      /\ messages' = messages \cup {a} /\ UNCHANGED <<counter, clock, outages>>
  BY <1>0 DEF Talk!AnswersLater, Talk!Ends
<1>2. /\ a \in Talk!Message
      /\ a.turn = request[b].turn /\ a.role = "assistant" /\ a.at = request[b].began /\ ~ a.whole
  BY <1>0, MessageIs
<1>3. /\ \A m \in messages : m.turn = request[b].turn => m.role = "user" /\ ~ m.whole
      /\ \E m \in messages : m.turn = request[b].turn /\ m.at < request[b].began
  BY <1>1 DEF TalkInv, TurnHolds
<1>4. PICK q \in messages : q.turn = request[b].turn /\ q.at < a.at /\ q.role = "user" /\ q.at <= a.at
  <2>1. \A m \in messages : m.at \in Nat
    BY TalkTypes
  <2>2. request[b].began \in Nat
    BY TalkTypes
  <2> QED BY <1>2, <1>3, <2>1, <2>2
<1>5. Talk!QuestionFirst'
  <2>1. \A m \in messages' : m \in messages \/ m = a
    BY <1>1
  <2>2. messages \subseteq messages' /\ a \in messages'
    BY <1>1
  <2>4. \A m \in messages' : m.role = "assistant" => \E n \in messages' : n.role = "user"
            /\ n.turn = m.turn /\ n.at <= m.at /\ (m.whole \/ n.at < m.at)
    BY <1>2, <1>4, <2>1, <2>2 DEF TalkInv, Talk!QuestionFirst, Talk!Questions, Talk!Answers
  <2>5. \A m \in messages' : m.role = "user" /\ m.whole =>
            \E n \in messages' : n.role = "assistant" /\ n.turn = m.turn
    BY <1>2, <2>1, <2>2 DEF TalkInv, Talk!QuestionFirst, Talk!Questions, Talk!Answers
  <2>6. \A m, n \in messages' : m.turn = n.turn /\ m.role = n.role => m = n
    BY <1>2, <1>3, <2>1 DEF TalkInv, Talk!QuestionFirst
  <2> QED BY <2>4, <2>5, <2>6 DEF Talk!QuestionFirst, Talk!Questions, Talk!Answers
<1>6. TurnHolds(Talk!Idle)'
  BY TalkIdle DEF TurnHolds
<1>7. clock' \in Talk!Times /\ clock <= clock'
  BY <1>1, TalkTypes DEF TalkInv, Talk!TypeOK
<1>8. PICK new : new = {a}
  OBVIOUS
<1>9. /\ messages' = messages \cup new /\ new \subseteq Talk!Message
      /\ \A m \in new : m.turn = request[b].turn
      /\ counter' = counter /\ outages' = outages
      /\ request[b].pc # "idle" /\ request[b].pc # "expire"
  BY <1>1, <1>2, <1>8
<1> QED BY <1>1, <1>5, <1>6, <1>7, <1>9, TalkIdle, TurnWrites

\* Every step keeps the invariant.
LEMMA TalkStep ==
    ASSUME TalkBounds, TalkInv, [Talk!Next]_(Talk!vars)
    PROVE  TalkInv'
<1>1. CASE UNCHANGED Talk!vars
  BY <1>1 DEF TalkInv, Talk!TypeOK, Talk!QuestionFirst, Talk!Questions, Talk!Answers,
     Talk!WindowEnds, TurnHolds, TurnsDiffer, Talk!vars
<1>2. CASE Talk!WindowCloses
  <2>1. /\ counter' = [value |-> 0, expires |-> FALSE]
        /\ UNCHANGED <<messages, request, clock, outages>>
    BY <1>2 DEF Talk!WindowCloses
  <2>2. /\ counter' \in [value : 0 .. ToolLimit + 1, expires : BOOLEAN]
        /\ Talk!WindowEnds'
    BY <2>1 DEF TalkBounds, Talk!WindowEnds
  <2>3. Talk!TypeOK'
    BY <2>1, <2>2 DEF TalkInv, Talk!TypeOK
  <2>4. Talk!QuestionFirst'
    BY <2>1 DEF TalkInv, Talk!QuestionFirst, Talk!Questions, Talk!Answers
  <2> QED BY <2>1, <2>2, <2>3, <2>4 DEF TalkInv, TurnHolds, TurnsDiffer
<1>3. CASE Talk!Next
  BY <1>2, <1>3, BeginsHolds, AnswersAtOnceHolds, SearchesHolds, AnswersLaterHolds, CounterSteps
  DEF Talk!Next
<1> QED BY <1>1, <1>3

\* A conversation without messages satisfies it.
LEMMA TalkInit ==
    ASSUME TalkBounds, Talk!Init
    PROVE  TalkInv
<1>1. /\ messages = {} /\ clock = 0 /\ outages = 0
      /\ counter = [value |-> 0, expires |-> FALSE]
      /\ request \in [Tabs -> Talk!Request] /\ \A b \in Tabs : request[b].pc = "idle"
  BY TalkIdle DEF Talk!Init
<1>2. Talk!TypeOK
  BY <1>1 DEF Talk!TypeOK, Talk!Times, TalkBounds
<1>3. Talk!QuestionFirst /\ Talk!WindowEnds
  BY <1>1 DEF Talk!QuestionFirst, Talk!Questions, Talk!Answers, Talk!WindowEnds
<1> QED BY <1>1, <1>2, <1>3 DEF TalkInv, TurnHolds, TurnsDiffer

\* What the invariant says of messages and counter.
LEMMA TalkImplies == TalkInv => Talk!TypeOK /\ Talk!QuestionFirst /\ Talk!WindowEnds
BY DEF TalkInv

(***************************************************************************)
(* Whatever tabs ask in a conversation, an answer comes after its question; *)
(* and a tool limit that was reached comes to an end unless Redis failed or *)
(* a process died between counting and setting the expiry.                  *)
(***************************************************************************)
THEOREM TalkInOrderHolds ==
    ASSUME TalkBounds
    PROVE  Talk!Spec => [](Talk!TypeOK /\ Talk!QuestionFirst /\ Talk!WindowEnds)
<1>1. Talk!Init => TalkInv
  BY TalkInit
<1>2. TalkInv /\ [Talk!Next]_(Talk!vars) => TalkInv'
  BY TalkStep
<1> QED BY <1>1, <1>2, TalkImplies, PTL DEF Talk!Spec

-----------------------------------------------------------------------------
(* Sign-ins: any browsers, each waiting for its answer *)

\* The refresh tokens that a request, and its browser, have in hand.
Hands(r) ==
    {cookie[Sessions!BrowserOf(r)], call[r].token, call[r].new} \ {Sessions!NoCookie}

\* Tokens in hand exist, those of two browsers are of different sign-ins, and the token of
\* a sign-in that is being rotated is its only good one.
TokensInv ==
    /\ \A t \in Sessions!Tokens :
           token[t] # "none" => login[t] \in Sessions!Tokens /\ token[login[t]] # "none"
    /\ \A r \in Sessions!Requests : \A t \in Hands(r) : token[t] # "none"
    /\ \A r, q \in Sessions!Requests :
           r # q => \A t \in Hands(r), o \in Hands(q) : login[t] # login[o]
    /\ \A r \in Sessions!Requests : call[r].pc = "issue" =>
           \A o \in Sessions!Tokens :
               token[o] = "valid" /\ login[o] = login[call[r].token] => o = call[r].token
    /\ Sessions!OneTokenEach

\* An answer that brings a token.
Brings(r) == call[r].pc = "answer" /\ call[r].new # Sessions!NoCookie

\* A refresh is sent with the browser's cookie, which stays; and as long as nothing was
\* lost, the token that a browser relies on is good, and what refuses it has expired.
CookieOf(r) ==
    /\ call[r].pc \in {"refresh", "issue", "answer"} /\ ~ Brings(r) =>
           call[r].token = cookie[Sessions!BrowserOf(r)]
    /\ losses = 0 =>
           /\ call[r].pc = "answer" /\ ~ Brings(r) =>
                  call[r].token \in {Sessions!NoCookie} \cup expired
           /\ IF Brings(r) THEN token[call[r].new] = "valid"
              ELSE cookie[Sessions!BrowserOf(r)] # Sessions!NoCookie =>
                       token[cookie[Sessions!BrowserOf(r)]] = "valid"

\* What every browser relies on.
CookieInv == \A r \in Sessions!Requests : CookieOf(r)

\* What the bounds are: nothing else is assumed of the constants.
SessionBounds == MaxTokens \in Nat /\ MaxLosses \in Nat

\* One request for each browser.
LEMMA RequestFacts ==
    /\ \A r \in Sessions!Requests : Sessions!BrowserOf(r) \in Browsers
    /\ \A r, q \in Sessions!Requests :
           Sessions!BrowserOf(r) = Sessions!BrowserOf(q) => r = q
  BY DEF Sessions!Requests, Sessions!BrowserOf

\* What may be in a cookie.
Cookies == Sessions!Tokens \cup {Sessions!NoCookie}

\* The types of what a request has in hand.
LEMMA CallType ==
    ASSUME Sessions!TypeOK, NEW r \in Sessions!Requests
    PROVE  call[r].token \in Cookies /\ call[r].new \in Cookies
  BY DEF Sessions!TypeOK, Sessions!Call, Cookies

\* A request goes on.
LEMMA CallDoes ==
    ASSUME Sessions!TypeOK, NEW r \in Sessions!Requests,
           NEW pc \in {"idle", "sent", "refresh", "issue", "answer"},
           NEW t \in Cookies, NEW n \in Cookies, Sessions!Goes(r, Sessions!Doing(pc, t, n))
    PROVE  /\ call' \in [Sessions!Requests -> Sessions!Call]
           /\ call'[r].pc = pc /\ call'[r].token = t /\ call'[r].new = n
           /\ \A q \in Sessions!Requests : q # r => call'[q] = call[q]
<1>1. Sessions!Doing(pc, t, n) \in Sessions!Call
  BY DEF Sessions!Doing, Sessions!Call, Cookies
<1>2. call' = [call EXCEPT ![r] = Sessions!Doing(pc, t, n)]
  BY DEF Sessions!Goes
<1>3. call' \in [Sessions!Requests -> Sessions!Call] /\ call'[r] = Sessions!Doing(pc, t, n)
  BY <1>1, <1>2 DEF Sessions!TypeOK
<1>4. \A q \in Sessions!Requests : q # r => call'[q] = call[q]
  BY <1>2 DEF Sessions!TypeOK
<1> QED
  BY <1>3, <1>4 DEF Sessions!Doing

\* A request is over.
LEMMA CallEnds ==
    ASSUME Sessions!TypeOK, NEW r \in Sessions!Requests, Sessions!Goes(r, Sessions!Idle)
    PROVE  /\ call' \in [Sessions!Requests -> Sessions!Call]
           /\ call'[r].pc = "idle"
           /\ call'[r].token = Sessions!NoCookie /\ call'[r].new = Sessions!NoCookie
           /\ \A q \in Sessions!Requests : q # r => call'[q] = call[q]
  BY CallDoes DEF Sessions!Idle, Cookies

\* The page in a browser learns something.
LEMMA PageGoes ==
    ASSUME Sessions!TypeOK, NEW b \in Browsers, NEW a \in {"none", "fresh", "stale"},
           NEW s \in {"loading", "authenticated", "unauthenticated"}, Sessions!Page(b, a, s)
    PROVE  /\ access' \in [Browsers -> {"none", "fresh", "stale"}]
           /\ status' \in [Browsers -> {"loading", "authenticated", "unauthenticated"}]
           /\ status'[b] = s /\ \A o \in Browsers : o # b => status'[o] = status[o]
  BY DEF Sessions!TypeOK, Sessions!Page

\* A rotation has the token that was found valid.
RotatesOne ==
    \A r \in Sessions!Requests : call[r].pc = "issue" => call[r].token # Sessions!NoCookie

\* Types, by the steps of the requests, the pages and the clock.
LEMMA SessionsType ==
    ASSUME SessionBounds, Sessions!TypeOK, RotatesOne, [Sessions!Next]_(Sessions!vars)
    PROVE  Sessions!TypeOK' /\ RotatesOne'
<1> USE RequestFacts
<1> DEFINE Calls == call' \in [Sessions!Requests -> Sessions!Call] /\ RotatesOne'
           States == {"none", "valid", "revoked"}
           Goal == Sessions!TypeOK' /\ RotatesOne'
<1>1. ASSUME NEW r \in Sessions!Requests, Sessions!LogsIn(r) PROVE Goal
  <2>1. PICK t \in Sessions!Tokens :
            /\ token' = [token EXCEPT ![t] = "valid"] /\ login' = [login EXCEPT ![t] = t]
            /\ Sessions!Goes(r, Sessions!Doing("answer", Sessions!NoCookie, t))
    BY <1>1 DEF Sessions!LogsIn
  <2>2. Calls
    BY <2>1, CallDoes DEF RotatesOne, Cookies
  <2> QED
    BY <1>1, <2>1, <2>2 DEF Sessions!TypeOK, Sessions!LogsIn, Sessions!browserVars
<1>2. ASSUME NEW r \in Sessions!Requests, Sessions!Rejects(r) \/ Sessions!FindsValid(r)
      PROVE  Goal
  <2>1. Calls
    <3>1. CASE Sessions!Rejects(r)
      <4>1. Sessions!Goes(r, Sessions!Doing("answer", call[r].token, Sessions!NoCookie))
        BY <3>1 DEF Sessions!Rejects
      <4> QED BY <4>1, CallDoes, CallType DEF Cookies, RotatesOne
    <3>2. CASE Sessions!FindsValid(r)
      BY <3>2, CallDoes, CallType DEF Sessions!FindsValid, Cookies, RotatesOne
    <3> QED BY <1>2, <3>1, <3>2
  <2> QED
    BY <1>2, <2>1 DEF Sessions!TypeOK, Sessions!Rejects, Sessions!FindsValid, Sessions!browserVars,
                      Sessions!tokenVars
<1>3. ASSUME NEW r \in Sessions!Requests, Sessions!DetectsReuse(r) PROVE Goal
  <2>1. token' \in [Sessions!Tokens -> States]
    BY <1>3 DEF Sessions!TypeOK, Sessions!DetectsReuse, Sessions!AfterReuse
  <2>2. Calls
    BY <1>3, CallDoes, CallType DEF Sessions!DetectsReuse, Cookies, RotatesOne
  <2> QED
    BY <1>3, <2>1, <2>2 DEF Sessions!TypeOK, Sessions!DetectsReuse, Sessions!browserVars
<1>4. ASSUME NEW r \in Sessions!Requests, Sessions!Rotates(r) PROVE Goal
  <2>1. PICK t \in Sessions!Tokens :
            /\ token' = Sessions!TokensAfter(call[r].token, t)
            /\ login' = [login EXCEPT ![t] = login[call[r].token]]
            /\ Sessions!Goes(r, Sessions!Doing("answer", call[r].token, t))
    BY <1>4 DEF Sessions!Rotates
  <2>2. Calls
    BY <2>1, CallDoes, CallType DEF Cookies, RotatesOne
  <2>3. token' \in [Sessions!Tokens -> States]
    BY <2>1 DEF Sessions!TypeOK, Sessions!TokensAfter
  <2>4. call[r].token \in Sessions!Tokens
    BY <1>4, CallType DEF Sessions!Rotates, RotatesOne, Cookies
  <2>. QED
    BY <1>4, <2>1, <2>2, <2>3, <2>4 DEF Sessions!TypeOK, Sessions!Rotates, Sessions!browserVars
<1>5. ASSUME NEW r \in Sessions!Requests, Sessions!Asks(r) \/ Sessions!Refreshes(r) PROVE Goal
  <2>1. cookie[Sessions!BrowserOf(r)] \in Sessions!Tokens \cup {Sessions!NoCookie}
    BY DEF Sessions!TypeOK
  <2>2. Calls
    <3>1. CASE Sessions!Asks(r)
      BY <3>1, CallDoes DEF Sessions!Asks, Cookies, RotatesOne
    <3>2. CASE Sessions!Refreshes(r)
      BY <2>1, <3>2, CallDoes DEF Sessions!Refreshes, Cookies, RotatesOne
    <3> QED BY <1>5, <3>1, <3>2
  <2> QED
    BY <1>5, <2>2 DEF Sessions!TypeOK, Sessions!Asks, Sessions!Refreshes, Sessions!browserVars,
                      Sessions!tokenVars
<1>6. ASSUME NEW r \in Sessions!Requests, Sessions!Boots(r) PROVE Goal
  <2>1. cookie[Sessions!BrowserOf(r)] \in Sessions!Tokens \cup {Sessions!NoCookie}
    BY DEF Sessions!TypeOK
  <2>2. Calls
    BY <1>6, <2>1, CallDoes DEF Sessions!Boots, RotatesOne, Cookies
  <2> QED
    BY <1>6, <2>2, PageGoes DEF Sessions!TypeOK, Sessions!Boots, Sessions!tokenVars
<1>7. ASSUME NEW r \in Sessions!Requests, Sessions!Receives(r) PROVE Goal
  <2>1. Calls
    BY <1>7, CallEnds DEF Sessions!Receives, RotatesOne
  <2>2. cookie' \in [Browsers -> Sessions!Tokens \cup {Sessions!NoCookie}]
    BY <1>7, CallType DEF Sessions!TypeOK, Sessions!Receives, Cookies
  <2> QED
    BY <1>7, <2>1, <2>2, PageGoes DEF Sessions!TypeOK, Sessions!Receives, Sessions!tokenVars
<1>8. ASSUME NEW r \in Sessions!Requests, Sessions!IsRefused(r) \/ Sessions!Loses(r) PROVE Goal
  <2>1. Calls
    BY <1>8, CallEnds DEF Sessions!IsRefused, Sessions!Loses, RotatesOne
  <2>2. losses' \in 0 .. MaxLosses
    BY <1>8 DEF Sessions!IsRefused, Sessions!Loses, Sessions!TypeOK, SessionBounds
  <2> QED
    BY <1>8, <2>1, <2>2, PageGoes DEF Sessions!TypeOK, Sessions!IsRefused, Sessions!Loses, Sessions!tokenVars
<1>9. ASSUME NEW r \in Sessions!Requests, Sessions!LogsOut(r) \/ Sessions!FailsToLogOut(r)
      PROVE  Goal
  <2>1. Sessions!Revoked(Sessions!BrowserOf(r)) \in [Sessions!Tokens -> States]
    BY DEF Sessions!TypeOK, Sessions!Revoked
  <2>2. token' \in [Sessions!Tokens -> States]
    BY <1>9, <2>1 DEF Sessions!TypeOK, Sessions!LogsOut, Sessions!FailsToLogOut
  <2>3. losses' \in 0 .. MaxLosses /\ cookie' \in [Browsers -> Sessions!Tokens \cup {Sessions!NoCookie}]
    BY <1>9 DEF Sessions!LogsOut, Sessions!FailsToLogOut, Sessions!TypeOK, SessionBounds
  <2> QED
    BY <1>9, <2>2, <2>3, PageGoes DEF Sessions!TypeOK, Sessions!LogsOut, Sessions!FailsToLogOut, RotatesOne
<1>10. ASSUME NEW b \in Browsers, Sessions!AccessExpires(b) PROVE Goal
  BY <1>10 DEF Sessions!TypeOK, Sessions!AccessExpires, Sessions!tokenVars, RotatesOne
<1>11. ASSUME NEW t \in Sessions!Tokens, Sessions!Expires(t) PROVE Goal
  BY <1>11 DEF Sessions!TypeOK, Sessions!Expires, Sessions!browserVars, RotatesOne
<1>12. ASSUME UNCHANGED Sessions!vars PROVE Goal
  BY <1>12 DEF Sessions!TypeOK, Sessions!vars, Sessions!browserVars, Sessions!tokenVars, RotatesOne
<1> QED
  BY <1>1, <1>2, <1>3, <1>4, <1>5, <1>6, <1>7, <1>8, <1>9, <1>10, <1>11, <1>12
     DEF Sessions!Next

\* Most steps leave in a browser's hands what it had, and make no token good.
FewerHands ==
    /\ login' = login
    /\ \A t \in Sessions!Tokens :
           /\ token'[t] = "none" <=> token[t] = "none"
           /\ token'[t] = "valid" => token[t] = "valid"
    /\ \A r \in Sessions!Requests :
           /\ \A t \in Cookies \ {Sessions!NoCookie} : t \in Hands(r)' => t \in Hands(r)
           /\ call'[r].pc = "issue" =>
                  /\ call'[r].token = call[r].token
                  /\ call[r].pc = "issue" \/ token[call[r].token] = "valid"

\* What is in hand are tokens.
LEMMA HandsType ==
    ASSUME Sessions!TypeOK, NEW r \in Sessions!Requests
    PROVE  Hands(r) \subseteq Sessions!Tokens
  BY CallType, RequestFacts DEF Hands, Cookies, Sessions!TypeOK

\* Such a step keeps the invariant of the tokens.
LEMMA FewerStep ==
    ASSUME Sessions!TypeOK, Sessions!TypeOK', RotatesOne', TokensInv, FewerHands
    PROVE  TokensInv'
<1>1. \A r \in Sessions!Requests : \A t \in Hands(r)' : t \in Sessions!Tokens /\ t \in Hands(r)
  <2> TAKE r \in Sessions!Requests
  <2>1. Hands(r)' \subseteq Sessions!Tokens
    BY RequestFacts DEF Hands, Sessions!TypeOK, Sessions!Call
  <2>2. Sessions!NoCookie \notin Hands(r)'
    BY DEF Hands
  <2> QED BY <2>1, <2>2 DEF FewerHands, Cookies
<1>2. \A t \in Sessions!Tokens :
          token'[t] # "none" => login'[t] \in Sessions!Tokens /\ token'[login'[t]] # "none"
  BY DEF FewerHands, TokensInv
<1>3. \A r \in Sessions!Requests : \A t \in Hands(r)' : token'[t] # "none"
  BY <1>1 DEF FewerHands, TokensInv
<1>4. \A r, q \in Sessions!Requests :
          r # q => \A t \in Hands(r)', o \in Hands(q)' : login'[t] # login'[o]
  BY <1>1 DEF FewerHands, TokensInv
<1>5. ASSUME NEW r \in Sessions!Requests, call'[r].pc = "issue", NEW o \in Sessions!Tokens,
             token'[o] = "valid", login'[o] = login'[call'[r].token]
      PROVE  o = call'[r].token
  <2>1. call[r].token = call'[r].token /\ token[o] = "valid" /\ login[o] = login[call[r].token]
    BY <1>5 DEF FewerHands
  <2>2. CASE call[r].pc = "issue"
    BY <2>1, <2>2 DEF TokensInv
  <2>3. CASE token[call[r].token] = "valid"
    <3>1. call'[r].token \in Sessions!Tokens
      BY <1>5 DEF RotatesOne, Sessions!TypeOK, Sessions!Call
    <3> QED BY <2>1, <2>3, <3>1 DEF TokensInv, Sessions!OneTokenEach
  <2> QED BY <1>5, <2>2, <2>3 DEF FewerHands
<1>6. Sessions!OneTokenEach'
  BY DEF FewerHands, TokensInv, Sessions!OneTokenEach
<1> QED
  BY <1>2, <1>3, <1>4, <1>5, <1>6 DEF TokensInv

\* The request r has what it had, or what is in its browser's cookie.
LEMMA QuietHands ==
    ASSUME Sessions!TypeOK, RotatesOne, NEW r \in Sessions!Requests,
           \/ Sessions!Rejects(r) \/ Sessions!FindsValid(r) \/ Sessions!Asks(r)
           \/ Sessions!Refreshes(r) \/ Sessions!Boots(r) \/ Sessions!Receives(r)
           \/ Sessions!IsRefused(r) \/ Sessions!Loses(r) \/ Sessions!DetectsReuse(r)
    PROVE  FewerHands
<1> DEFINE b == Sessions!BrowserOf(r)
           Same == \A q \in Sessions!Requests : q # r => call'[q] = call[q]
           Less == /\ call'[r].token \in {Sessions!NoCookie, call[r].token, cookie[b]}
                   /\ call'[r].new \in {Sessions!NoCookie, call[r].new}
                   /\ call'[r].pc = "issue" =>
                          call'[r].token = call[r].token /\ token[call[r].token] = "valid"
                   /\ cookie' \in {cookie, [cookie EXCEPT ![b] = call[r].new]}
           Tokens == /\ login' = login
                     /\ \A t \in Sessions!Tokens :
                            /\ token'[t] = "none" <=> token[t] = "none"
                            /\ token'[t] = "valid" => token[t] = "valid"
<1>1. b \in Browsers /\ call[r].token \in Cookies /\ call[r].new \in Cookies /\ cookie[b] \in Cookies
  BY RequestFacts, CallType DEF Sessions!TypeOK, Cookies
<1>2. Sessions!NoCookie \in Cookies
  BY DEF Cookies
<1>3. Same /\ Less /\ Tokens
  <2>1. CASE Sessions!Rejects(r)
    <3>1. Sessions!Goes(r, Sessions!Doing("answer", call[r].token, Sessions!NoCookie))
      BY <2>1 DEF Sessions!Rejects
    <3>2. Same /\ Less /\ token' = token
      BY <1>1, <1>2, <2>1, <3>1, CallDoes DEF Sessions!Rejects, Sessions!tokenVars, Sessions!browserVars
    <3> QED BY <2>1, <3>2 DEF Sessions!Rejects, Sessions!tokenVars
  <2>2. CASE Sessions!FindsValid(r)
    <3>1. Sessions!Goes(r, Sessions!Doing("issue", call[r].token, Sessions!NoCookie))
      BY <2>2 DEF Sessions!FindsValid
    <3>2. Same /\ Less /\ token' = token
      BY <1>1, <1>2, <2>2, <3>1, CallDoes DEF Sessions!FindsValid, Sessions!tokenVars, Sessions!browserVars
    <3> QED BY <2>2, <3>2 DEF Sessions!FindsValid, Sessions!tokenVars
  <2>3. CASE Sessions!Asks(r)
    <3>1. Same /\ Less /\ token' = token
      BY <1>1, <1>2, <2>3, CallDoes DEF Sessions!Asks, Sessions!tokenVars, Sessions!browserVars
    <3> QED BY <2>3, <3>1 DEF Sessions!Asks, Sessions!tokenVars
  <2>4. CASE Sessions!Refreshes(r)
    <3>1. Same /\ Less /\ token' = token
      BY <1>1, <1>2, <2>4, CallDoes DEF Sessions!Refreshes, Sessions!tokenVars, Sessions!browserVars
    <3> QED BY <2>4, <3>1 DEF Sessions!Refreshes, Sessions!tokenVars
  <2>5. CASE Sessions!Boots(r)
    <3>1. Same /\ Less /\ token' = token
      BY <1>1, <1>2, <2>5, CallDoes DEF Sessions!Boots, Sessions!tokenVars
    <3> QED BY <2>5, <3>1 DEF Sessions!Boots, Sessions!tokenVars
  <2>6. CASE Sessions!Receives(r)
    <3>1. Same /\ Less /\ token' = token
      BY <1>1, <1>2, <2>6, CallEnds DEF Sessions!Receives, Sessions!tokenVars
    <3> QED BY <2>6, <3>1 DEF Sessions!Receives, Sessions!tokenVars
  <2>7. CASE Sessions!IsRefused(r) \/ Sessions!Loses(r)
    <3>1. Same /\ Less /\ token' = token
      BY <1>1, <1>2, <2>7, CallEnds DEF Sessions!IsRefused, Sessions!Loses, Sessions!tokenVars
    <3> QED BY <2>7, <3>1 DEF Sessions!IsRefused, Sessions!Loses, Sessions!tokenVars
  <2>8. CASE Sessions!DetectsReuse(r)
    <3>1. Same /\ Less
      BY <1>1, <1>2, <2>8, CallDoes DEF Sessions!DetectsReuse, Sessions!browserVars
    <3>2. Tokens
      BY <2>8 DEF Sessions!DetectsReuse, Sessions!AfterReuse, Sessions!TypeOK
    <3> QED BY <3>1, <3>2
  <2> QED BY <2>1, <2>2, <2>3, <2>4, <2>5, <2>6, <2>7, <2>8
<1>4. \A q \in Sessions!Requests : \A t \in Cookies \ {Sessions!NoCookie} : t \in Hands(q)' => t \in Hands(q)
  <2> TAKE q \in Sessions!Requests
  <2>1. CASE q = r
    <3>1. cookie'[b] \in {cookie[b], call[r].new}
      BY <1>1, <1>3 DEF Sessions!TypeOK
    <3> QED BY <1>3, <2>1, <3>1 DEF Hands
  <2>2. CASE q # r
    <3>1. cookie'[Sessions!BrowserOf(q)] = cookie[Sessions!BrowserOf(q)]
      BY <1>3, <2>2, RequestFacts DEF Sessions!TypeOK
    <3> QED BY <1>3, <2>2, <3>1 DEF Hands
  <2> QED BY <2>1, <2>2
<1> QED
  BY <1>3, <1>4 DEF FewerHands

\* A logout, that arrives or not, revokes one token at most.
LEMMA LogoutHands ==
    ASSUME SessionBounds, Sessions!TypeOK, TokensInv, NEW r \in Sessions!Requests,
           Sessions!LogsOut(r) \/ Sessions!FailsToLogOut(r)
    PROVE  /\ FewerHands
           /\ \A t \in Sessions!Tokens :
                  token[t] = "valid" /\ t # cookie[Sessions!BrowserOf(r)] => token'[t] = "valid"
           /\ call' = call /\ expired' = expired
           /\ \A b \in Browsers : cookie'[b] \in {cookie[b], Sessions!NoCookie}
           /\ \A b \in Browsers : b # Sessions!BrowserOf(r) =>
                  cookie'[b] = cookie[b] /\ status'[b] = status[b]
           /\ cookie'[Sessions!BrowserOf(r)] = Sessions!NoCookie \/ losses' > 0
<1> DEFINE b == Sessions!BrowserOf(r)
<1>1. b \in Browsers
  BY RequestFacts
<1>2. token' \in {token, Sessions!Revoked(b)}
  BY DEF Sessions!LogsOut, Sessions!FailsToLogOut
<1>3. \A t \in Sessions!Tokens :
          /\ token'[t] = "none" <=> token[t] = "none"
          /\ token'[t] = "valid" => token[t] = "valid"
          /\ token[t] = "valid" /\ t # cookie[b] => token'[t] = "valid"
  <2>1. cookie[b] \in Sessions!Tokens \cup {Sessions!NoCookie}
    BY <1>1 DEF Sessions!TypeOK
  <2>2. cookie[b] # Sessions!NoCookie => token[cookie[b]] # "none"
    BY DEF TokensInv, Hands
  <2> QED
    BY <1>2, <2>1, <2>2 DEF Sessions!Revoked, Sessions!TypeOK
<1>9. login' = login /\ call' = call /\ expired' = expired
  BY DEF Sessions!LogsOut, Sessions!FailsToLogOut
<1>4. cookie' \in {cookie, [cookie EXCEPT ![b] = Sessions!NoCookie]}
  BY DEF Sessions!LogsOut, Sessions!FailsToLogOut
<1>5. \A o \in Browsers :
          /\ cookie'[o] \in {cookie[o], Sessions!NoCookie}
          /\ o # b => cookie'[o] = cookie[o]
  BY <1>4 DEF Sessions!TypeOK
<1>6. cookie'[b] = Sessions!NoCookie \/ losses' > 0
  BY <1>1 DEF Sessions!LogsOut, Sessions!FailsToLogOut, Sessions!TypeOK, SessionBounds
<1>7. \A o \in Browsers : o # b => status'[o] = status[o]
  BY <1>1, PageGoes DEF Sessions!LogsOut, Sessions!FailsToLogOut
<1>8. \A q \in Sessions!Requests : Hands(q)' \ {Sessions!NoCookie} \subseteq Hands(q)
  BY <1>9, <1>5, RequestFacts DEF Hands
<1> QED
  BY <1>3, <1>9, <1>5, <1>6, <1>7, <1>8 DEF FewerHands, TokensInv

\* A sign-in issues a token of a new family, and a rotation one in place of the token in hand.
LEMMA IssueStep ==
    ASSUME Sessions!TypeOK, RotatesOne, TokensInv, NEW r \in Sessions!Requests,
           Sessions!LogsIn(r) \/ Sessions!Rotates(r)
    PROVE  TokensInv'
<1> DEFINE old == call[r].token
           b == Sessions!BrowserOf(r)
<1>1. PICK t \in Sessions!Tokens :
          /\ token[t] = "none"
          /\ \/ /\ token' = [token EXCEPT ![t] = "valid"]
                /\ login' = [login EXCEPT ![t] = t]
                /\ Sessions!Goes(r, Sessions!Doing("answer", Sessions!NoCookie, t))
             \/ /\ call[r].pc = "issue"
                /\ token' = [token EXCEPT ![t] = "valid", ![old] = "revoked"]
                /\ login' = [login EXCEPT ![t] = login[old]]
                /\ Sessions!Goes(r, Sessions!Doing("answer", old, t))
          /\ cookie' = cookie
  BY DEF Sessions!LogsIn, Sessions!Rotates, Sessions!Unused, Sessions!TokensAfter, Sessions!browserVars
<1>2. old \in Cookies /\ Sessions!NoCookie \in Cookies /\ t \in Cookies /\ b \in Browsers
  BY CallType, RequestFacts DEF Cookies
<1>3. /\ call'[r].pc = "answer" /\ call'[r].new = t
      /\ call'[r].token \in {Sessions!NoCookie, old}
      /\ \A q \in Sessions!Requests : q # r => call'[q] = call[q]
  <2>1. CASE Sessions!Goes(r, Sessions!Doing("answer", Sessions!NoCookie, t))
    BY <1>2, <2>1, CallDoes
  <2>2. CASE Sessions!Goes(r, Sessions!Doing("answer", old, t))
    BY <1>2, <2>2, CallDoes
  <2> QED BY <1>1, <2>1, <2>2
<1>4. call[r].pc = "issue" => old \in Sessions!Tokens /\ old \in Hands(r) /\ old # t
  BY <1>1, <1>2 DEF RotatesOne, Hands, Cookies, TokensInv
<1>5. \/ /\ \A x \in Sessions!Tokens \ {t} : token'[x] = token[x] /\ login'[x] = login[x]
         /\ token'[t] = "valid" /\ login'[t] = t
      \/ /\ call[r].pc = "issue"
         /\ \A x \in Sessions!Tokens \ {t, old} : token'[x] = token[x]
         /\ \A x \in Sessions!Tokens \ {t} : login'[x] = login[x]
         /\ token'[t] = "valid" /\ token'[old] = "revoked" /\ login'[t] = login[old]
  BY <1>1, <1>4 DEF Sessions!TypeOK
<1>6. \A x \in Sessions!Tokens : token[x] # "none" => x # t /\ login[x] # t /\ token'[x] # "none"
  BY <1>1, <1>5 DEF TokensInv
<1>7. \A q \in Sessions!Requests : \A x \in Hands(q)' : x \in Hands(q) \/ (q = r /\ x = t)
  <2> TAKE q \in Sessions!Requests
  <2>1. cookie'[Sessions!BrowserOf(q)] = cookie[Sessions!BrowserOf(q)]
    BY <1>1
  <2>2. CASE q = r
    BY <1>3, <2>1, <2>2 DEF Hands
  <2>3. CASE q # r
    BY <1>3, <2>1, <2>3 DEF Hands
  <2> QED BY <2>2, <2>3
<1>8. \A q \in Sessions!Requests : \A x \in Hands(q) : x \in Sessions!Tokens /\ token[x] # "none"
  BY HandsType DEF TokensInv
<1>9. \A x \in Sessions!Tokens :
          token'[x] # "none" => login'[x] \in Sessions!Tokens /\ token'[login'[x]] # "none"
  <2> TAKE x \in Sessions!Tokens
  <2>1. CASE x = t
    BY <1>4, <1>5, <1>6, <1>8, <2>1 DEF TokensInv
  <2>2. CASE x # t
    <3>1. token'[x] # "none" => token[x] # "none" /\ login'[x] = login[x]
      BY <1>4, <1>5, <1>8, <2>2
    <3> QED BY <1>6, <3>1 DEF TokensInv
  <2> QED BY <2>1, <2>2
<1>10. \A q \in Sessions!Requests : \A x \in Hands(q)' : token'[x] # "none"
  BY <1>5, <1>6, <1>7, <1>8
<1>11. ASSUME NEW p \in Sessions!Requests, NEW q \in Sessions!Requests, p # q,
              NEW x \in Hands(p)', NEW y \in Hands(q)'
       PROVE  login'[x] # login'[y]
  <2>1. CASE x \in Hands(p) /\ y \in Hands(q)
    <3>1. login'[x] = login[x] /\ login'[y] = login[y]
      BY <1>5, <1>6, <1>8, <2>1
    <3> QED BY <1>11, <2>1, <3>1 DEF TokensInv
  <2>2. CASE p = r /\ x = t /\ y \in Hands(q)
    <3>1. y \in Sessions!Tokens /\ y # t /\ login'[y] = login[y] /\ login[y] # t
      BY <1>5, <1>6, <1>8, <2>2
    <3>2. CASE login'[t] = t
      BY <2>2, <3>1, <3>2
    <3>3. CASE call[r].pc = "issue" /\ login'[t] = login[old]
      BY <1>4, <1>11, <2>2, <3>1, <3>3 DEF TokensInv
    <3> QED BY <1>5, <3>2, <3>3
  <2>3. CASE q = r /\ y = t /\ x \in Hands(p)
    <3>1. x \in Sessions!Tokens /\ x # t /\ login'[x] = login[x] /\ login[x] # t
      BY <1>5, <1>6, <1>8, <2>3
    <3>2. CASE login'[t] = t
      BY <2>3, <3>1, <3>2
    <3>3. CASE call[r].pc = "issue" /\ login'[t] = login[old]
      BY <1>4, <1>11, <2>3, <3>1, <3>3 DEF TokensInv
    <3> QED BY <1>5, <3>2, <3>3
  <2> QED BY <1>7, <1>11, <2>1, <2>2, <2>3
<1>12. ASSUME NEW q \in Sessions!Requests, call'[q].pc = "issue", NEW x \in Sessions!Tokens,
              token'[x] = "valid", login'[x] = login'[call'[q].token]
       PROVE  x = call'[q].token
  <2>1. q # r /\ call'[q] = call[q] /\ call[q].pc = "issue"
    BY <1>3, <1>12
  <2>2. call[q].token \in Hands(q)
    BY <2>1 DEF RotatesOne, Hands
  <2>3. call[q].token # t /\ login'[call[q].token] = login[call[q].token] /\ login[call[q].token] # t
    BY <1>5, <1>6, <1>8, <2>2
  <2>4. x # t
    BY <1>4, <1>5, <1>12, <2>1, <2>2, <2>3 DEF TokensInv
  <2>5. token[x] = "valid" /\ login'[x] = login[x]
    BY <1>5, <1>12, <2>4
  <2> QED BY <1>12, <2>1, <2>3, <2>5 DEF TokensInv
<1>13. ASSUME NEW x \in Sessions!Tokens, NEW y \in Sessions!Tokens,
              token'[x] = "valid", token'[y] = "valid", login'[x] = login'[y]
       PROVE  x = y
  <2>1. ASSUME NEW v \in Sessions!Tokens, v # t, token'[v] = "valid"
        PROVE  token[v] = "valid" /\ login'[v] = login[v] /\ login'[v] # login'[t]
    <3>1. token[v] = "valid" /\ login'[v] = login[v] /\ login[v] # t
      BY <1>4, <1>5, <1>6, <2>1
    <3>2. CASE login'[t] = t
      BY <3>1, <3>2
    <3>3. CASE call[r].pc = "issue" /\ login'[t] = login[old] /\ token'[old] = "revoked"
      BY <2>1, <3>1, <3>3 DEF TokensInv
    <3> QED BY <1>5, <3>1, <3>2, <3>3
  <2> QED BY <1>13, <2>1 DEF TokensInv, Sessions!OneTokenEach
<1> QED
  BY <1>9, <1>10, <1>11, <1>12, <1>13 DEF TokensInv, Sessions!OneTokenEach

\* Every step keeps the invariant of the tokens.
LEMMA TokensStep ==
    ASSUME SessionBounds, Sessions!TypeOK, RotatesOne, TokensInv, [Sessions!Next]_(Sessions!vars)
    PROVE  TokensInv'
<1>1. Sessions!TypeOK' /\ RotatesOne'
  BY SessionsType
<1>2. SUFFICES \/ FewerHands
               \/ \E r \in Sessions!Requests : Sessions!LogsIn(r) \/ Sessions!Rotates(r)
  BY <1>1, FewerStep, IssueStep
<1>3. CASE UNCHANGED <<token, login, cookie, call>>
  BY <1>3 DEF FewerHands, Hands
<1>4. ASSUME NEW b \in Browsers, Sessions!AccessExpires(b) PROVE UNCHANGED <<token, login, cookie, call>>
  BY <1>4 DEF Sessions!AccessExpires, Sessions!tokenVars
<1>5. ASSUME NEW t \in Sessions!Tokens, Sessions!Expires(t) PROVE UNCHANGED <<token, login, cookie, call>>
  BY <1>5 DEF Sessions!Expires, Sessions!browserVars
<1>6. ASSUME UNCHANGED Sessions!vars PROVE UNCHANGED <<token, login, cookie, call>>
  BY <1>6 DEF Sessions!vars, Sessions!tokenVars, Sessions!browserVars
<1> QED
  BY <1>3, <1>4, <1>5, <1>6, QuietHands, LogoutHands DEF Sessions!Next

\* Every step keeps what the browsers rely on, and who is signed out is so for cause.
LEMMA CookieStep ==
    ASSUME SessionBounds, Sessions!TypeOK, RotatesOne, TokensInv, CookieInv,
           [Sessions!Next]_(Sessions!vars)
    PROVE  CookieInv' /\ Sessions!SignsOutForCause
<1> DEFINE Goal == CookieInv' /\ Sessions!SignsOutForCause
           Calm(b) == status'[b] = status[b]
<1>1. \A r, q \in Sessions!Requests : r # q => Sessions!BrowserOf(r) # Sessions!BrowserOf(q)
  BY RequestFacts
<1>2. Sessions!TypeOK' /\ TokensInv'
  BY SessionsType, TokensStep
\* A step of r that does not revoke what others have, and brings no loss with it.
<1>3. ASSUME NEW r \in Sessions!Requests,
             \A q \in Sessions!Requests : q # r => call'[q] = call[q],
             \A b \in Browsers : b # Sessions!BrowserOf(r) => cookie'[b] = cookie[b] /\ status'[b] = status[b],
             \A q \in Sessions!Requests : q # r =>
                 \A t \in Hands(q) : losses' = 0 /\ token[t] = "valid" => token'[t] = "valid",
             losses' = losses \/ losses' # 0, expired \subseteq expired', CookieOf(r)',
             LET b == Sessions!BrowserOf(r)
             IN  status[b] # "unauthenticated" /\ status'[b] = "unauthenticated" =>
                     cookie'[b] \in {Sessions!NoCookie} \cup expired \/ losses' > 0
      PROVE  Goal
  <2>1. ASSUME NEW q \in Sessions!Requests, q # r PROVE CookieOf(q)'
    <3>1. call'[q] = call[q] /\ cookie'[Sessions!BrowserOf(q)] = cookie[Sessions!BrowserOf(q)]
      BY <1>1, <1>3, <2>1, RequestFacts
    <3>2. Brings(q)' <=> Brings(q)
      BY <3>1 DEF Brings
    <3>3. \A t \in {call[q].new, cookie[Sessions!BrowserOf(q)]} :
              t # Sessions!NoCookie /\ losses' = 0 /\ token[t] = "valid" => token'[t] = "valid"
      BY <1>3, <2>1 DEF Hands
    <3> QED BY <1>3, <3>1, <3>2, <3>3 DEF CookieInv, CookieOf, Brings
  <2>2. \A b \in Browsers : b # Sessions!BrowserOf(r) => status'[b] = status[b]
    BY <1>3
  <2> QED BY <1>3, <2>1, <2>2 DEF CookieInv, Sessions!SignsOutForCause
<1>4. ASSUME NEW r \in Sessions!Requests, Sessions!LogsIn(r) PROVE Goal
  <2>1. PICK t \in Sessions!Tokens :
            /\ Sessions!Unused(t) /\ token' = [token EXCEPT ![t] = "valid"]
            /\ Sessions!Goes(r, Sessions!Doing("answer", Sessions!NoCookie, t))
    BY <1>4 DEF Sessions!LogsIn
  <2>2. /\ call'[r].pc = "answer" /\ call'[r].new = t
        /\ \A q \in Sessions!Requests : q # r => call'[q] = call[q]
    BY <2>1, CallDoes DEF Cookies
  <2>3. \A x \in Sessions!Tokens : token[x] = "valid" => token'[x] = "valid"
    BY <2>1 DEF Sessions!TypeOK
  <2>4. token'[t] = "valid" /\ t # Sessions!NoCookie
    BY <2>1 DEF Sessions!TypeOK, Sessions!Tokens, Sessions!NoCookie, SessionBounds
  <2>5. CookieOf(r)'
    BY <2>2, <2>4 DEF CookieOf, Brings
  <2> QED
    BY <1>3, <1>4, <2>2, <2>3, <2>5, HandsType DEF Sessions!LogsIn, Sessions!browserVars
<1>5. ASSUME NEW r \in Sessions!Requests, Sessions!Rejects(r) PROVE Goal
  <2>1. /\ call'[r].pc = "answer" /\ call'[r].new = Sessions!NoCookie /\ call'[r].token = call[r].token
        /\ \A q \in Sessions!Requests : q # r => call'[q] = call[q]
    <3>1. Sessions!Goes(r, Sessions!Doing("answer", call[r].token, Sessions!NoCookie))
      BY <1>5 DEF Sessions!Rejects
    <3> QED BY <3>1, CallDoes, CallType DEF Cookies
  <2>2. call[r].pc = "refresh" /\ call[r].token \in {Sessions!NoCookie} \cup expired
    BY <1>5 DEF Sessions!Rejects
  <2>3. UNCHANGED <<token, expired, cookie, status, losses>>
    BY <1>5 DEF Sessions!Rejects, Sessions!tokenVars, Sessions!browserVars
  <2>4. CookieOf(r)'
    BY <2>1, <2>2, <2>3 DEF CookieInv, CookieOf, Brings
  <2> QED
    BY <1>3, <2>1, <2>3, <2>4
<1>6. ASSUME NEW r \in Sessions!Requests, Sessions!DetectsReuse(r) PROVE Goal
  <2>1. /\ call'[r].pc = "answer" /\ call'[r].new = Sessions!NoCookie /\ call'[r].token = call[r].token
        /\ \A q \in Sessions!Requests : q # r => call'[q] = call[q]
    <3>1. Sessions!Goes(r, Sessions!Doing("answer", call[r].token, Sessions!NoCookie))
      BY <1>6 DEF Sessions!DetectsReuse
    <3> QED BY <3>1, CallDoes, CallType DEF Cookies
  <2>2. call[r].pc = "refresh" /\ call[r].token # Sessions!NoCookie /\ token[call[r].token] = "revoked"
    BY <1>6 DEF Sessions!DetectsReuse
  <2>3. UNCHANGED <<expired, cookie, status, losses>>
    BY <1>6 DEF Sessions!DetectsReuse, Sessions!browserVars
  <2>4. losses # 0
    BY <2>2 DEF CookieInv, CookieOf, Brings
  <2>5. CookieOf(r)'
    BY <2>1, <2>2, <2>3, <2>4 DEF CookieInv, CookieOf, Brings
  <2> QED
    BY <1>3, <2>1, <2>3, <2>4, <2>5
<1>7. ASSUME NEW r \in Sessions!Requests, Sessions!FindsValid(r) PROVE Goal
  <2>1. /\ call'[r].pc = "issue" /\ call'[r].new = Sessions!NoCookie /\ call'[r].token = call[r].token
        /\ \A q \in Sessions!Requests : q # r => call'[q] = call[q]
    <3>1. Sessions!Goes(r, Sessions!Doing("issue", call[r].token, Sessions!NoCookie))
      BY <1>7 DEF Sessions!FindsValid
    <3> QED BY <3>1, CallDoes, CallType DEF Cookies
  <2>2. call[r].pc = "refresh"
    BY <1>7 DEF Sessions!FindsValid
  <2>3. UNCHANGED <<token, expired, cookie, status, losses>>
    BY <1>7 DEF Sessions!FindsValid, Sessions!tokenVars, Sessions!browserVars
  <2>4. CookieOf(r)'
    BY <2>1, <2>2, <2>3 DEF CookieInv, CookieOf, Brings
  <2> QED
    BY <1>3, <2>1, <2>3, <2>4
<1>8. ASSUME NEW r \in Sessions!Requests, Sessions!Rotates(r) PROVE Goal
  <2> DEFINE old == call[r].token
  <2>1. PICK t \in Sessions!Tokens :
            /\ Sessions!Unused(t)
            /\ token' = [token EXCEPT ![t] = "valid", ![old] = "revoked"]
            /\ Sessions!Goes(r, Sessions!Doing("answer", old, t))
    BY <1>8 DEF Sessions!Rotates, Sessions!TokensAfter
  <2>2. /\ call'[r].pc = "answer" /\ call'[r].new = t
        /\ \A q \in Sessions!Requests : q # r => call'[q] = call[q]
    BY <2>1, CallDoes, CallType DEF Cookies
  <2>3. old \in Hands(r) /\ old \in Sessions!Tokens
    BY <1>8, HandsType DEF Sessions!Rotates, RotatesOne, Hands
  <2>4. token[t] = "none" /\ token[old] # "none" /\ t # Sessions!NoCookie
    BY <2>1, <2>3 DEF Sessions!Unused, TokensInv, Sessions!Tokens, Sessions!NoCookie, SessionBounds
  <2>5. /\ token'[t] = "valid"
        /\ \A x \in Sessions!Tokens : x # old /\ token[x] = "valid" => token'[x] = "valid"
    BY <2>1, <2>3, <2>4 DEF Sessions!TypeOK
  <2>6. UNCHANGED <<expired, cookie, status, losses>>
    BY <1>8 DEF Sessions!Rotates, Sessions!browserVars
  <2>7. CookieOf(r)'
    BY <2>2, <2>4, <2>5 DEF CookieOf, Brings
  <2>8. \A q \in Sessions!Requests : q # r => old \notin Hands(q)
    BY <2>3 DEF TokensInv
  <2> QED
    BY <1>3, <2>2, <2>5, <2>6, <2>7, <2>8, HandsType
<1>9. ASSUME NEW r \in Sessions!Requests, Sessions!Asks(r) \/ Sessions!Refreshes(r) \/ Sessions!Boots(r) PROVE Goal
  <2> DEFINE b == Sessions!BrowserOf(r)
  <2>1. b \in Browsers /\ cookie[b] \in Cookies /\ Sessions!NoCookie \in Cookies
    BY RequestFacts DEF Sessions!TypeOK, Cookies
  <2>2. /\ call'[r].new = Sessions!NoCookie
        /\ \/ call'[r].pc = "sent"
           \/ call'[r].pc = "refresh" /\ call'[r].token = cookie[b]
        /\ \A q \in Sessions!Requests : q # r => call'[q] = call[q]
    <3>1. CASE Sessions!Asks(r)
      BY <2>1, <3>1, CallDoes DEF Sessions!Asks
    <3>2. CASE Sessions!Refreshes(r)
      BY <2>1, <3>2, CallDoes DEF Sessions!Refreshes
    <3>3. CASE Sessions!Boots(r)
      BY <2>1, <3>3, CallDoes DEF Sessions!Boots
    <3> QED BY <1>9, <3>1, <3>2, <3>3
  <2>3. UNCHANGED <<token, expired, cookie, losses>>
    BY <1>9 DEF Sessions!Asks, Sessions!Refreshes, Sessions!Boots, Sessions!tokenVars, Sessions!browserVars
  <2>4. ~ Brings(r)
    BY <1>9, <2>1 DEF Sessions!Asks, Sessions!Refreshes, Sessions!Boots, Sessions!Quiet, Brings
  <2>5. CookieOf(r)'
    BY <2>2, <2>3, <2>4 DEF CookieInv, CookieOf, Brings
  <2>6. /\ \A o \in Browsers : o # b => status'[o] = status[o]
        /\ status[b] # "unauthenticated" => status'[b] # "unauthenticated"
    BY <1>9, <2>1, PageGoes DEF Sessions!Asks, Sessions!Refreshes, Sessions!Boots, Sessions!browserVars
  <2> QED
    BY <1>3, <2>2, <2>3, <2>5, <2>6
<1>10. ASSUME NEW r \in Sessions!Requests, Sessions!Receives(r) PROVE Goal
  <2> DEFINE b == Sessions!BrowserOf(r)
  <2>1. /\ call'[r].pc = "idle" /\ \A q \in Sessions!Requests : q # r => call'[q] = call[q]
    BY <1>10, CallEnds DEF Sessions!Receives
  <2>2. b \in Browsers /\ Brings(r) /\ UNCHANGED <<token, expired, losses>>
    BY <1>10, RequestFacts DEF Sessions!Receives, Sessions!tokenVars, Brings
  <2>3. cookie'[b] = call[r].new /\ \A o \in Browsers : o # b => cookie'[o] = cookie[o]
    BY <1>10, <2>2 DEF Sessions!Receives, Sessions!TypeOK
  <2>4. status'[b] = "authenticated" /\ \A o \in Browsers : o # b => status'[o] = status[o]
    BY <1>10, <2>2, PageGoes DEF Sessions!Receives
  <2>5. CookieOf(r)'
    BY <2>1, <2>2, <2>3 DEF CookieInv, CookieOf, Brings
  <2> QED
    BY <1>3, <2>1, <2>2, <2>3, <2>4, <2>5
<1>11. ASSUME NEW r \in Sessions!Requests, Sessions!IsRefused(r) PROVE Goal
  <2> DEFINE b == Sessions!BrowserOf(r)
  <2>1. /\ call'[r].pc = "idle" /\ \A q \in Sessions!Requests : q # r => call'[q] = call[q]
    BY <1>11, CallEnds DEF Sessions!IsRefused
  <2>2. b \in Browsers /\ UNCHANGED <<token, expired, cookie, losses>>
    BY <1>11, RequestFacts DEF Sessions!IsRefused, Sessions!tokenVars
  <2>3. call[r].pc = "answer" /\ ~ Brings(r)
    BY <1>11 DEF Sessions!IsRefused, Brings
  <2>4. \A o \in Browsers : o # b => status'[o] = status[o]
    BY <1>11, <2>2, PageGoes DEF Sessions!IsRefused
  <2>5. CookieOf(r)'
    BY <2>1, <2>2, <2>3 DEF CookieInv, CookieOf, Brings
  <2>6. cookie'[b] \in {Sessions!NoCookie} \cup expired \/ losses' > 0
    <3>1. losses \in Nat
      BY DEF Sessions!TypeOK, SessionBounds
    <3> QED BY <2>2, <2>3, <3>1 DEF CookieInv, CookieOf
  <2> QED
    BY <1>3, <2>1, <2>2, <2>4, <2>5, <2>6
<1>12. ASSUME NEW r \in Sessions!Requests, Sessions!Loses(r) PROVE Goal
  <2> DEFINE b == Sessions!BrowserOf(r)
  <2>1. call'[r].pc = "idle" /\ \A q \in Sessions!Requests : q # r => call'[q] = call[q]
    BY <1>12, CallEnds DEF Sessions!Loses
  <2>2. b \in Browsers /\ UNCHANGED <<token, expired, cookie>>
    BY <1>12, RequestFacts DEF Sessions!Loses, Sessions!tokenVars
  <2>3. losses' > 0
    BY <1>12 DEF Sessions!Loses, Sessions!TypeOK, SessionBounds
  <2>4. \A o \in Browsers : o # b => status'[o] = status[o]
    BY <1>12, <2>2, PageGoes DEF Sessions!Loses
  <2>5. CookieOf(r)'
    BY <2>1, <2>3 DEF CookieOf, Brings
  <2> QED
    BY <1>3, <2>1, <2>2, <2>3, <2>4, <2>5
<1>13. ASSUME NEW r \in Sessions!Requests, Sessions!LogsOut(r) \/ Sessions!FailsToLogOut(r) PROVE Goal
  <2> DEFINE b == Sessions!BrowserOf(r)
  <2>1. /\ call' = call /\ expired' = expired /\ call[r].pc = "idle"
        /\ cookie'[b] = Sessions!NoCookie \/ losses' > 0
    BY <1>13, LogoutHands DEF Sessions!LogsOut, Sessions!FailsToLogOut
  <2>2. losses' = losses \/ losses' > 0
    BY <1>13 DEF Sessions!LogsOut, Sessions!FailsToLogOut, Sessions!TypeOK, SessionBounds
  <2>3. \A t \in Sessions!Tokens : token[t] = "valid" /\ t # cookie[b] => token'[t] = "valid"
    BY <1>13, LogoutHands
  <2>4. CookieOf(r)'
    BY <2>1 DEF CookieOf, Brings
  <2>5. \A q \in Sessions!Requests : q # r => \A t \in Hands(q) : t \in Sessions!Tokens /\ t # cookie[b]
    <3> SUFFICES ASSUME NEW q \in Sessions!Requests, q # r, NEW t \in Hands(q)
                 PROVE  t \in Sessions!Tokens /\ t # cookie[b]
      OBVIOUS
    <3>1. t \in Sessions!Tokens /\ t # Sessions!NoCookie
      BY HandsType DEF Hands
    <3>2. cookie[b] # Sessions!NoCookie => cookie[b] \in Hands(r)
      BY DEF Hands
    <3> QED BY <3>1, <3>2 DEF TokensInv
  <2> QED
    BY <1>3, <1>13, <2>1, <2>2, <2>3, <2>4, <2>5, LogoutHands
<1>14. ASSUME UNCHANGED <<token, cookie, status, call, losses>>, expired \subseteq expired' PROVE Goal
  BY <1>14 DEF CookieInv, CookieOf, Brings, Sessions!SignsOutForCause
<1>15. ASSUME NEW b \in Browsers, Sessions!AccessExpires(b) PROVE Goal
  BY <1>14, <1>15 DEF Sessions!AccessExpires, Sessions!tokenVars
<1>16. ASSUME NEW t \in Sessions!Tokens, Sessions!Expires(t) PROVE Goal
  BY <1>14, <1>16 DEF Sessions!Expires, Sessions!browserVars
<1>17. ASSUME UNCHANGED Sessions!vars PROVE Goal
  BY <1>14, <1>17 DEF Sessions!vars, Sessions!tokenVars, Sessions!browserVars
<1> QED
  BY <1>4, <1>5, <1>6, <1>7, <1>8, <1>9, <1>10, <1>11, <1>12, <1>13, <1>15, <1>16, <1>17
     DEF Sessions!Next

\* Browsers that are not signed in satisfy the invariant.
LEMMA SessionsInit ==
    ASSUME SessionBounds, Sessions!Init
    PROVE  Sessions!TypeOK /\ RotatesOne /\ TokensInv /\ CookieInv
<1>1. Sessions!Idle \in Sessions!Call /\ Sessions!Idle.pc = "idle"
      /\ Sessions!Idle.token = Sessions!NoCookie /\ Sessions!Idle.new = Sessions!NoCookie
  BY DEF Sessions!Idle, Sessions!Doing, Sessions!Call
<1>2. Sessions!TypeOK
  BY <1>1 DEF Sessions!Init, Sessions!TypeOK, SessionBounds
<1>3. \A r \in Sessions!Requests :
          call[r] = Sessions!Idle /\ cookie[Sessions!BrowserOf(r)] = Sessions!NoCookie
  BY RequestFacts DEF Sessions!Init
<1>4. \A r \in Sessions!Requests : Hands(r) = {}
  BY <1>1, <1>3 DEF Hands
<1>5. \A t \in Sessions!Tokens : token[t] = "none"
  BY DEF Sessions!Init
<1> QED
  BY <1>1, <1>2, <1>3, <1>4, <1>5 DEF RotatesOne, TokensInv, Sessions!OneTokenEach, CookieInv, CookieOf, Brings

(***************************************************************************)
(* However the refreshes, logouts and sign-ins of any browsers interleave,  *)
(* a sign-in has one good refresh token at most, as long as a browser waits *)
(* for each answer.                                                         *)
(***************************************************************************)
THEOREM OneTokenEachHolds ==
    ASSUME SessionBounds
    PROVE  Sessions!Spec => [](Sessions!TypeOK /\ Sessions!OneTokenEach)
<1> DEFINE Inv == Sessions!TypeOK /\ RotatesOne /\ TokensInv
<1>1. Sessions!Init => Inv
  BY SessionsInit
<1>2. Inv /\ [Sessions!Next]_(Sessions!vars) => Inv'
  BY SessionsType, TokensStep
<1>3. Inv => Sessions!TypeOK /\ Sessions!OneTokenEach
  BY DEF TokensInv
<1> QED
  BY <1>1, <1>2, <1>3, PTL DEF Sessions!Spec

(***************************************************************************)
(* A page that waits for its answers, and receives them, is signed out by   *)
(* nothing but a logout, an expired token or a reuse that revokes the       *)
(* account's tokens.                                                        *)
(***************************************************************************)
THEOREM StaysSignedInHolds ==
    ASSUME SessionBounds
    PROVE  Sessions!Spec => Sessions!StaysSignedIn
<1> DEFINE Inv == Sessions!TypeOK /\ RotatesOne /\ TokensInv /\ CookieInv
<1>1. Sessions!Init => Inv
  BY SessionsInit
<1>2. Inv /\ [Sessions!Next]_(Sessions!vars) => Inv' /\ [Sessions!SignsOutForCause]_(Sessions!vars)
  BY SessionsType, TokensStep, CookieStep
<1> QED
  BY <1>1, <1>2, PTL DEF Sessions!Spec, Sessions!StaysSignedIn

-----------------------------------------------------------------------------
(* A source: any folders, files, changes and scans *)

\* No folder is a file or the root, no token a number; the bounds are numbers.
MirrorBounds ==
    /\ Folders \cap Mirrored = {} /\ Root \notin Folders \cup Mirrored /\ NoToken \notin Nat
    /\ MaxChanges \in Nat /\ MaxScans \in Nat /\ MaxAborts \in Nat

\* The place of the last change of i among the first n of a log.
LastOf(l, i, n) ==
    LET ks == {k \in 1 .. n : l[k] = i}
    IN  IF ks = {} THEN 0 ELSE CHOOSE k \in ks : \A o \in ks : o <= k

\* It is one, unless there is none, and the last one.
LEMMA LastOfIs ==
    ASSUME NEW l, NEW i, NEW n \in Nat
    PROVE  /\ LastOf(l, i, n) \in 0 .. n
           /\ LastOf(l, i, n) # 0 => l[LastOf(l, i, n)] = i
           /\ \A k \in 1 .. n : l[k] = i => k <= LastOf(l, i, n)
<1> DEFINE ks == {k \in 1 .. n : l[k] = i}
<1>1. CASE ks = {}
  BY <1>1 DEF LastOf
<1>2. CASE ks # {}
  <2>1. \E m \in ks : \A s \in ks : s <= m
    <3>1. ks \in SUBSET Nat /\ \A s \in ks : s <= n
      OBVIOUS
    <3> HIDE DEF ks
    <3> QED BY <1>2, <3>1, Largest
  <2>2. LastOf(l, i, n) = CHOOSE k \in ks : \A o \in ks : o <= k
    BY <1>2 DEF LastOf
  <2>3. LastOf(l, i, n) \in ks /\ \A o \in ks : o <= LastOf(l, i, n)
    BY <2>1, <2>2
  <2> QED BY <2>3
<1> QED BY <1>1, <1>2

\* Nothing else is.
LEMMA LastOfOnly ==
    ASSUME NEW l, NEW i, NEW n \in Nat, NEW v \in 0 .. n, v # 0 => l[v] = i,
           \A k \in 1 .. n : l[k] = i => k <= v
    PROVE  v = LastOf(l, i, n)
<1>1. PICK w \in 0 .. n : /\ w = LastOf(l, i, n)
                          /\ w # 0 => l[w] = i
                          /\ \A k \in 1 .. n : l[k] = i => k <= w
  BY LastOfIs
<1>2. v <= w
  BY <1>1
<1>3. w <= v
  BY <1>1
<1> QED BY <1>1, <1>2, <1>3

\* The version of an item is the place of its last change.
LEMMA VersionIs ==
    ASSUME NEW i
    PROVE  /\ Mirror!Version(i) = LastOf(log, i, Len(log))
           /\ Mirror!Version(i)' = LastOf(log', i, Len(log'))
           /\ \A n : Mirror!LastChange(i, n) = LastOf(log, i, n)
BY DEF Mirror!Version, Mirror!LastChange, LastOf

\* A row that is as its item is.
Fresh(r, i) == r[i].ver = Mirror!Version(i) /\ r[i].parent = drive[i].at

\* Folders lie at the root, and what is live in folders that are.
TreeInv ==
    /\ \A d \in Folders : drive[d].at = Root
    /\ \A i \in Mirror!Items : Mirror!Live(i) /\ drive[i].at # Root => Mirror!Live(drive[i].at)

\* A row's folder is its parent or not resolved.
RowInv(r) ==
    /\ \A d \in Folders : r[d].parent = Root
    /\ \A i \in Mirror!Items : r[i].folder \in {Root, r[i].parent}

\* What is live and did not change after the token has its row, committed and not.
TokenInv == token # NoToken =>
    /\ token <= Len(log)
    /\ \A i \in Mirror!Items : Mirror!Live(i) /\ Mirror!Version(i) <= token =>
           Fresh(row, i) /\ Fresh(base, i)

\* A full scan, during which Drive stands still, has brought up to date what it has come to.
FullInv ==
    /\ scan.pc = "list" => scan.full
    /\ scan.pc \in {"idle", "changes"} => ~ scan.full
    /\ scan.full => \A i \in Mirror!Items : Mirror!Live(i) =>
                        (scan.pc = "list" /\ i \in scan.left) \/ Fresh(row, i)

\* An incremental one has brought up to date, removals and all, what changed for the last
\* time between its token and where it is.
ChangesInv == scan.pc # "idle" /\ ~ scan.full =>
    /\ token # NoToken /\ token <= scan.at /\ scan.at <= Len(log)
    /\ \A i \in Mirror!Items : token < Mirror!Version(i) /\ Mirror!Version(i) <= scan.at =>
           IF Mirror!Live(i) THEN Fresh(row, i) ELSE row[i] = Mirror!NoRow

\* Nothing is left to commit but in a listing; a scan that touched something has resolved
\* what it is to resolve before it saves its token.
SettledInv ==
    /\ scan.pc \notin {"list", "changes"} => base = row
    /\ scan.pc = "token" /\ (scan.full \/ scan.at > token) =>
           \A i \in Mirror!Items : row[i] # Mirror!NoRow => row[i].folder = Mirror!ParentRow(i)

\* The inductive invariant of the mirror.
MirrorInv ==
    /\ Mirror!TypeOK /\ TreeInv /\ RowInv(row) /\ RowInv(base)
    /\ TokenInv /\ FullInv /\ ChangesInv /\ SettledInv

\* The types, one by one.
LEMMA MirrorTypes ==
    ASSUME MirrorBounds, Mirror!TypeOK
    PROVE  /\ drive \in [Mirror!Items -> [at : Mirror!Places, is : {"live", "trashed", "gone"}]]
           /\ log \in Seq(Mirror!Items) /\ Len(log) \in Nat
           /\ row \in [Mirror!Items -> Mirror!Row] /\ base \in [Mirror!Items -> Mirror!Row]
           /\ token \in Nat \cup {NoToken} /\ scan \in Mirror!Scan /\ scan.at \in Nat
           /\ \A i \in Mirror!Items : Mirror!Version(i) \in 0 .. Len(log)
           /\ Mirror!NoRow \in Mirror!Row
<1>1. log \in Seq(Mirror!Items) /\ Len(log) \in Nat
  BY DEF Mirror!TypeOK
<1>2. \A i \in Mirror!Items : Mirror!Version(i) \in 0 .. Len(log)
  <2> SUFFICES ASSUME NEW i \in Mirror!Items PROVE Mirror!Version(i) \in 0 .. Len(log)
    OBVIOUS
  <2>1. Mirror!Version(i) = LastOf(log, i, Len(log))
    BY VersionIs
  <2> QED BY <1>1, <2>1, LastOfIs
<1>3. Mirror!NoRow \in Mirror!Row
  BY DEF Mirror!NoRow, Mirror!Row, Mirror!Places
<1> QED BY <1>1, <1>2, <1>3 DEF Mirror!TypeOK, Mirror!Scan

\* The change that is logged is the item's last one, and nobody else's.
LEMMA LogGrows ==
    ASSUME MirrorBounds, Mirror!TypeOK, NEW i \in Mirror!Items, log' = Append(log, i)
    PROVE  /\ Len(log') = Len(log) + 1
           /\ Mirror!Version(i)' = Len(log) + 1
           /\ \A o \in Mirror!Items : o # i => Mirror!Version(o)' = Mirror!Version(o)
<1> DEFINE n == Len(log)
<1>1. log \in Seq(Mirror!Items) /\ n \in Nat
  BY MirrorTypes
<1>2. Len(log') = n + 1 /\ log'[n + 1] = i /\ \A k \in 1 .. n : log'[k] = log[k]
  BY <1>1
<1> HIDE DEF n
<1>3. n + 1 = LastOf(log', i, n + 1)
  <2>1. \A k \in 1 .. n + 1 : k <= n + 1
    BY <1>1
  <2>2. PICK l, m : l = log' /\ m = n + 1
    OBVIOUS
  <2>3. m \in Nat /\ m \in 0 .. m /\ l[m] = i /\ \A k \in 1 .. m : l[k] = i => k <= m
    BY <1>1, <1>2, <2>2
  <2>4. m = LastOf(l, i, m)
    BY <2>3, LastOfOnly
  <2> QED BY <2>2, <2>4
<1>4. ASSUME NEW o \in Mirror!Items, o # i
      PROVE  LastOf(log, o, n) = LastOf(log', o, n + 1)
  <2>1. PICK v \in 0 .. n : /\ v = LastOf(log, o, n)
                            /\ v # 0 => log[v] = o
                            /\ \A k \in 1 .. n : log[k] = o => k <= v
    BY <1>1, LastOfIs
  <2>2. v \in 0 .. n + 1 /\ (v # 0 => log'[v] = o)
    BY <1>1, <1>2, <2>1
  <2>3. ASSUME NEW k \in 1 .. n + 1, log'[k] = o PROVE k <= v
    <3>1. k # n + 1
      BY <1>2, <1>4, <2>3
    <3>2. k \in 1 .. n
      BY <1>1, <3>1
    <3> QED BY <1>2, <2>1, <2>3, <3>2
  <2>4. PICK l, m : l = log' /\ m = n + 1
    OBVIOUS
  <2>5. m \in Nat /\ v \in 0 .. m
    BY <1>1, <2>2, <2>4
  <2>6. v # 0 => l[v] = o
    BY <2>2, <2>4
  <2>7. \A k \in 1 .. m : l[k] = o => k <= v
    BY <2>3, <2>4
  <2>8. v = LastOf(l, o, m)
    BY <2>5, <2>6, <2>7, LastOfOnly
  <2> QED BY <2>1, <2>4, <2>8
<1> QED BY <1>1, <1>2, <1>3, <1>4, VersionIs DEF n

\* As long as the log stays, versions do.
LEMMA VersionsStay ==
    ASSUME UNCHANGED log
    PROVE  \A i : Mirror!Version(i)' = Mirror!Version(i)
BY VersionIs

\* What an item is ingested as is what it is.
LEMMA IngestedIs ==
    ASSUME MirrorBounds, Mirror!TypeOK, TreeInv, NEW i \in Mirror!Items
    PROVE  /\ Mirror!Ingested(i) \in Mirror!Row
           /\ Mirror!Ingested(i).ver = Mirror!Version(i)
           /\ Mirror!Ingested(i).parent = drive[i].at
           /\ Mirror!Ingested(i).folder = Root
           /\ i \in Folders => Mirror!Ingested(i).parent = Root
<1>1. /\ drive[i].at \in Mirror!Places /\ Mirror!Version(i) \in Nat
      /\ row[i].steps \in BOOLEAN /\ Root \in Mirror!Places
  BY MirrorTypes DEF Mirror!Row, Mirror!Places
<1>2. i \in Folders => drive[i].at = Root
  BY DEF TreeInv
<1> QED BY <1>1, <1>2 DEF Mirror!Ingested, Mirror!FolderUpsert, Mirror!FileUpsert, Mirror!Row

\* The rows keep their shape when one is ingested.
LEMMA RowIngested ==
    ASSUME MirrorBounds, Mirror!TypeOK, TreeInv, RowInv(row), NEW i \in Mirror!Items,
           NEW r, r = [row EXCEPT ![i] = Mirror!Ingested(i)]
    PROVE  /\ r \in [Mirror!Items -> Mirror!Row] /\ RowInv(r) /\ Fresh(r, i)
           /\ \A o \in Mirror!Items : o # i => r[o] = row[o]
<1>1. row \in [Mirror!Items -> Mirror!Row]
  BY MirrorTypes
<1>2. r[i] = Mirror!Ingested(i) /\ \A o \in Mirror!Items : o # i => r[o] = row[o]
  BY <1>1
<1>3. r \in [Mirror!Items -> Mirror!Row]
  BY <1>1, IngestedIs
<1>4. Fresh(r, i)
  BY <1>2, IngestedIs DEF Fresh
<1>5. RowInv(r)
  <2>1. ASSUME NEW d \in Folders PROVE r[d].parent = Root
    BY <1>2, IngestedIs DEF RowInv, Mirror!Items
  <2>2. ASSUME NEW o \in Mirror!Items PROVE r[o].folder \in {Root, r[o].parent}
    BY <1>2, IngestedIs DEF RowInv
  <2> QED BY <2>1, <2>2 DEF RowInv
<1> QED BY <1>2, <1>3, <1>4, <1>5

\* A removal takes what is gone, and no row that is as its item is.
LEMMA RowRemoved ==
    ASSUME MirrorBounds, Mirror!TypeOK, TreeInv, RowInv(row), NEW i \in Mirror!Items,
           ~ Mirror!Live(i), NEW r, r = Mirror!RemoveItem(i)
    PROVE  /\ r \in [Mirror!Items -> Mirror!Row] /\ RowInv(r) /\ r[i] = Mirror!NoRow
           /\ \A o \in Mirror!Items : r[o] \in {row[o], Mirror!NoRow}
           /\ \A o \in Mirror!Items : Mirror!Live(o) /\ Fresh(row, o) => r[o] = row[o]
<1>1. row \in [Mirror!Items -> Mirror!Row] /\ Mirror!NoRow \in Mirror!Row
  BY MirrorTypes
<1>2. /\ r \in [Mirror!Items -> Mirror!Row] /\ r[i] = Mirror!NoRow
      /\ \A o \in Mirror!Items : r[o] \in {row[o], Mirror!NoRow}
  <2>1. CASE i \in Folders
    BY <1>1, <2>1 DEF Mirror!RemoveItem, Mirror!WithoutFolder
  <2>2. CASE i \notin Folders
    BY <1>1, <2>2 DEF Mirror!RemoveItem, Mirror!WithoutFile
  <2> QED BY <2>1, <2>2
<1>3. ASSUME NEW o \in Mirror!Items, Mirror!Live(o), Fresh(row, o) PROVE r[o] = row[o]
  <2>1. o # i
    BY <1>3
  <2>2. CASE i \in Folders
    <3>1. row[o].folder # i
      <4>1. i # Root
        BY <2>2 DEF MirrorBounds
      <4>2. row[o].parent # i
        BY <1>3, <4>1 DEF TreeInv, Fresh
      <4> QED BY <4>1, <4>2 DEF RowInv
    <3>2. ASSUME row[o].folder # Root PROVE row[row[o].folder].folder # i
      <4>1. row[o].folder \in Folders
        BY <1>1, <3>2 DEF Mirror!Row, Mirror!Places
      <4>2. row[row[o].folder].folder = Root
        BY <4>1 DEF RowInv, Mirror!Items
      <4> QED BY <2>2, <4>2 DEF MirrorBounds
    <3> QED BY <2>1, <2>2, <3>1, <3>2 DEF Mirror!RemoveItem, Mirror!WithoutFolder
  <2>3. CASE i \notin Folders
    BY <1>1, <2>1, <2>3 DEF Mirror!RemoveItem, Mirror!WithoutFile
  <2> QED BY <2>2, <2>3
<1>4. RowInv(r)
  <2>1. Mirror!NoRow.parent = Root /\ Mirror!NoRow.folder = Root
    BY DEF Mirror!NoRow
  <2>2. ASSUME NEW d \in Folders PROVE r[d].parent = Root
    BY <1>2, <2>1 DEF RowInv, Mirror!Items
  <2>3. ASSUME NEW o \in Mirror!Items PROVE r[o].folder \in {Root, r[o].parent}
    BY <1>2, <2>1 DEF RowInv
  <2> QED BY <2>2, <2>3 DEF RowInv
<1> QED BY <1>2, <1>3, <1>4

\* Resolving a hierarchy changes nothing but placeholders.
LEMMA RowResolved ==
    ASSUME MirrorBounds, Mirror!TypeOK, RowInv(row), NEW these,
           NEW r, r = Mirror!Resolved(these)
    PROVE  /\ r \in [Mirror!Items -> Mirror!Row] /\ RowInv(r)
           /\ \A o \in Mirror!Items :
                  /\ r[o].ver = row[o].ver /\ r[o].parent = row[o].parent
                  /\ row[o] = Mirror!NoRow => r[o] = Mirror!NoRow
                  /\ row[o] # Mirror!NoRow /\ o \in these => r[o].folder = Mirror!ParentRow(o)
                  /\ o \notin these => r[o] = row[o]
           /\ \A d \in Folders : r[d] = row[d]
<1>1. row \in [Mirror!Items -> Mirror!Row]
  BY MirrorTypes
<1>2. ASSUME NEW o \in Mirror!Items
      PROVE  Mirror!ParentRow(o) \in Mirror!Places /\ Mirror!ParentRow(o) \in {Root, row[o].parent}
  BY <1>1 DEF Mirror!ParentRow, Mirror!Row, Mirror!Places
<1>3. ASSUME NEW o \in Mirror!Items
      PROVE  /\ r[o] \in Mirror!Row
             /\ r[o].ver = row[o].ver /\ r[o].parent = row[o].parent
             /\ row[o] = Mirror!NoRow => r[o] = Mirror!NoRow
             /\ row[o] # Mirror!NoRow /\ o \in these => r[o].folder = Mirror!ParentRow(o)
             /\ o \notin these => r[o] = row[o]
             /\ r[o].folder \in {row[o].folder, Mirror!ParentRow(o)}
  <2>1. r[o] = IF o \in these /\ row[o] # Mirror!NoRow
               THEN [row[o] EXCEPT !.folder = Mirror!ParentRow(o)] ELSE row[o]
    BY DEF Mirror!Resolved
  <2>2. row[o] \in Mirror!Row
    BY <1>1
  <2>3. CASE o \in these /\ row[o] # Mirror!NoRow
    <3>1. r[o] = [row[o] EXCEPT !.folder = Mirror!ParentRow(o)]
      BY <2>1, <2>3
    <3> QED BY <1>2, <2>2, <2>3, <3>1 DEF Mirror!Row
  <2>4. CASE ~ (o \in these /\ row[o] # Mirror!NoRow)
    BY <2>1, <2>2, <2>4
  <2> QED BY <2>3, <2>4
<1>4. r = [o \in Mirror!Items |-> r[o]]
  BY DEF Mirror!Resolved
<1>5. r \in [Mirror!Items -> Mirror!Row]
  BY <1>3, <1>4
<1>6. RowInv(r)
  <2>1. ASSUME NEW d \in Folders PROVE r[d].parent = Root
    BY <1>3 DEF RowInv, Mirror!Items
  <2>2. ASSUME NEW o \in Mirror!Items PROVE r[o].folder \in {Root, r[o].parent}
    BY <1>2, <1>3 DEF RowInv
  <2> QED BY <2>1, <2>2 DEF RowInv
<1>7. ASSUME NEW d \in Folders PROVE r[d] = row[d]
  <2>1. d \in Mirror!Items /\ row[d] \in Mirror!Row
    BY <1>1 DEF Mirror!Items
  <2>2. row[d].parent = Root /\ row[d].folder = Root /\ Mirror!ParentRow(d) = Root
    BY <2>1 DEF RowInv, Mirror!ParentRow
  <2>3. r[d] \in Mirror!Row /\ r[d] = IF d \in these /\ row[d] # Mirror!NoRow
               THEN [row[d] EXCEPT !.folder = Root] ELSE row[d]
    BY <1>3, <2>1, <2>2 DEF Mirror!Resolved
  <2>4. [row[d] EXCEPT !.folder = Root] = row[d]
    BY <2>1, <2>2 DEF Mirror!Row
  <2> QED BY <2>3, <2>4
<1> QED BY <1>3, <1>5, <1>6, <1>7

\* Two states of the rows that differ in steps alone.
SameRows(r, s) ==
    \A o \in Mirror!Items :
        /\ s[o].ver = r[o].ver /\ s[o].parent = r[o].parent /\ s[o].folder = r[o].folder
        /\ s[o] = Mirror!NoRow <=> r[o] = Mirror!NoRow

\* What the rows have of the items that have not changed, they have of them still.
LEMMA DriveMoves ==
    ASSUME MirrorBounds, MirrorInv, NEW i \in Mirror!Items, log' = Append(log, i), ~ scan.full,
           \A o \in Mirror!Items : o # i => drive'[o] = drive[o],
           UNCHANGED <<token, scan>>, SameRows(row, row'), SameRows(base, base'),
           base = row => base' = row'
    PROVE  RowInv(row)' /\ RowInv(base)' /\ TokenInv' /\ FullInv' /\ ChangesInv' /\ SettledInv'
<1>1. Mirror!TypeOK
  BY DEF MirrorInv
<1>2. /\ Len(log') = Len(log) + 1 /\ Len(log) \in Nat
      /\ Mirror!Version(i)' = Len(log) + 1
      /\ \A o \in Mirror!Items : o # i => Mirror!Version(o)' = Mirror!Version(o)
  BY <1>1, LogGrows, MirrorTypes
<1>3. /\ RowInv(row)' /\ RowInv(base)'
  BY DEF MirrorInv, RowInv, SameRows, Mirror!Items
<1>4. ASSUME NEW o \in Mirror!Items, o # i
      PROVE  /\ Mirror!Live(o)' <=> Mirror!Live(o)
             /\ Fresh(row, o) => Fresh(row, o)'
             /\ Fresh(base, o) => Fresh(base, o)'
  BY <1>2, <1>4 DEF Mirror!Live, Fresh, SameRows
<1>5. TokenInv'
  <2> SUFFICES ASSUME token # NoToken
               PROVE  /\ token <= Len(log')
                      /\ \A o \in Mirror!Items : Mirror!Live(o)' /\ Mirror!Version(o)' <= token =>
                             Fresh(row, o)' /\ Fresh(base, o)'
    BY DEF TokenInv
  <2>1. token \in Nat /\ token <= Len(log)
    BY <1>1, MirrorTypes DEF MirrorInv, TokenInv
  <2>2. ASSUME NEW o \in Mirror!Items, Mirror!Live(o)', Mirror!Version(o)' <= token
        PROVE  Fresh(row, o)' /\ Fresh(base, o)'
    <3>1. o # i
      BY <1>2, <2>1, <2>2
    <3>2. Mirror!Live(o) /\ Mirror!Version(o) <= token
      BY <1>2, <1>4, <2>2, <3>1
    <3> QED BY <1>4, <3>1, <3>2 DEF MirrorInv, TokenInv
  <2> QED BY <1>2, <2>1, <2>2
<1>6. FullInv'
  BY DEF MirrorInv, FullInv
<1>7. ChangesInv'
  <2> SUFFICES ASSUME scan.pc # "idle"
               PROVE  /\ token # NoToken /\ token <= scan.at /\ scan.at <= Len(log')
                      /\ \A o \in Mirror!Items :
                             token < Mirror!Version(o)' /\ Mirror!Version(o)' <= scan.at =>
                             IF Mirror!Live(o)' THEN Fresh(row, o)' ELSE row'[o] = Mirror!NoRow
    BY DEF ChangesInv
  <2>1. token # NoToken /\ token <= scan.at /\ scan.at <= Len(log) /\ scan.at \in Nat
    BY <1>1, MirrorTypes DEF MirrorInv, ChangesInv
  <2>2. ASSUME NEW o \in Mirror!Items,
               token < Mirror!Version(o)' /\ Mirror!Version(o)' <= scan.at
        PROVE  IF Mirror!Live(o)' THEN Fresh(row, o)' ELSE row'[o] = Mirror!NoRow
    <3>1. o # i
      BY <1>2, <2>1, <2>2
    <3>2. token < Mirror!Version(o) /\ Mirror!Version(o) <= scan.at
      BY <1>2, <2>2, <3>1
    <3>3. IF Mirror!Live(o) THEN Fresh(row, o) ELSE row[o] = Mirror!NoRow
      BY <3>2 DEF MirrorInv, ChangesInv
    <3> QED BY <1>4, <3>1, <3>3 DEF SameRows
  <2> QED BY <1>2, <2>1, <2>2
<1>8. SettledInv'
  <2>1. ASSUME NEW o \in Mirror!Items PROVE Mirror!ParentRow(o)' = Mirror!ParentRow(o)
    <3>1. row[o].parent \in Mirror!Places
      BY <1>1, MirrorTypes DEF Mirror!Row
    <3> QED BY <3>1 DEF Mirror!ParentRow, SameRows, Mirror!Places, Mirror!Items
  <2> QED BY <2>1 DEF MirrorInv, SettledInv, SameRows
<1> QED BY <1>3, <1>5, <1>6, <1>7, <1>8

\* A user saves an item: the tree stays one.
LEMMA UserSavesHolds ==
    ASSUME MirrorBounds, MirrorInv, NEW i \in Mirror!Items, NEW place \in Mirror!Places,
           Mirror!UserSaves(i, place)
    PROVE  MirrorInv'
<1>1. Mirror!TypeOK /\ TreeInv
  BY DEF MirrorInv
<1>2. /\ ~ scan.full /\ Len(log) < MaxChanges
      /\ drive' = [drive EXCEPT ![i] = [at |-> place, is |-> "live"]] /\ log' = Append(log, i)
      /\ UNCHANGED <<row, base, token, scan, scans, aborts>>
      /\ place # i /\ (place # Root => Mirror!Live(place)) /\ (i \in Folders => place = Root)
  BY DEF Mirror!UserSaves, Mirror!Changes, Mirror!boundVars
<1>3. /\ drive \in [Mirror!Items -> [at : Mirror!Places, is : {"live", "trashed", "gone"}]]
      /\ log \in Seq(Mirror!Items) /\ Len(log) \in Nat
  BY <1>1, MirrorTypes
<1>4. /\ drive'[i] = [at |-> place, is |-> "live"]
      /\ \A o \in Mirror!Items : o # i => drive'[o] = drive[o]
  BY <1>2, <1>3
<1>5. Mirror!TypeOK'
  <2>1. drive' \in [Mirror!Items -> [at : Mirror!Places, is : {"live", "trashed", "gone"}]]
    BY <1>2, <1>3
  <2>2. log' \in Seq(Mirror!Items) /\ Len(log') <= MaxChanges
    BY <1>2, <1>3 DEF MirrorBounds
  <2> QED BY <1>1, <1>2, <2>1, <2>2 DEF Mirror!TypeOK
<1>6. TreeInv'
  <2>1. ASSUME NEW d \in Folders PROVE drive'[d].at = Root
    BY <1>1, <1>2, <1>4 DEF TreeInv, Mirror!Items
  <2>2. ASSUME NEW o \in Mirror!Items, Mirror!Live(o)', drive'[o].at # Root
        PROVE  Mirror!Live(drive[o].at)'
    <3>1. CASE o = i
      <4>1. drive'[o].at = place /\ place \in Mirror!Items /\ Mirror!Live(place)
        BY <1>2, <1>4, <2>2, <3>1 DEF Mirror!Places, Mirror!Items
      <4> QED BY <1>2, <1>4, <4>1 DEF Mirror!Live
    <3>2. CASE o # i
      <4>1. /\ drive'[o] = drive[o] /\ Mirror!Live(o) /\ drive[o].at # Root
            /\ drive[o].at \in Mirror!Items
        BY <1>3, <1>4, <2>2, <3>2 DEF Mirror!Live, Mirror!Places, Mirror!Items
      <4>2. Mirror!Live(drive[o].at)
        BY <1>1, <4>1 DEF TreeInv
      <4> QED BY <1>4, <4>1, <4>2 DEF Mirror!Live
    <3> QED BY <3>1, <3>2
  <2> QED BY <2>1, <2>2 DEF TreeInv
<1>7. SameRows(row, row') /\ SameRows(base, base') /\ (base = row => base' = row')
  BY <1>2 DEF SameRows
<1> QED BY <1>2, <1>4, <1>5, <1>6, <1>7, DriveMoves DEF MirrorInv

\* An item is removed, that has no live ones in it.
LEMMA UserRemovesHolds ==
    ASSUME MirrorBounds, MirrorInv, NEW i \in Mirror!Items, NEW how \in {"trashed", "gone"},
           Mirror!UserRemoves(i, how)
    PROVE  MirrorInv'
<1>1. Mirror!TypeOK /\ TreeInv
  BY DEF MirrorInv
<1>2. /\ ~ scan.full /\ Len(log) < MaxChanges
      /\ drive' = [drive EXCEPT ![i] = [drive[i] EXCEPT !.is = how]] /\ log' = Append(log, i)
      /\ UNCHANGED <<row, base, token, scan, scans, aborts>>
      /\ \A o \in Mirror!Items : Mirror!Live(o) => drive[o].at # i
  BY DEF Mirror!UserRemoves, Mirror!Changes, Mirror!boundVars
<1>3. /\ drive \in [Mirror!Items -> [at : Mirror!Places, is : {"live", "trashed", "gone"}]]
      /\ log \in Seq(Mirror!Items) /\ Len(log) \in Nat
  BY <1>1, MirrorTypes
<1>4. /\ drive'[i].at = drive[i].at /\ drive'[i].is = how
      /\ \A o \in Mirror!Items : o # i => drive'[o] = drive[o]
  BY <1>2, <1>3
<1>5. Mirror!TypeOK'
  <2>1. drive' \in [Mirror!Items -> [at : Mirror!Places, is : {"live", "trashed", "gone"}]]
    BY <1>2, <1>3
  <2>2. log' \in Seq(Mirror!Items) /\ Len(log') <= MaxChanges
    BY <1>2, <1>3 DEF MirrorBounds
  <2> QED BY <1>1, <1>2, <2>1, <2>2 DEF Mirror!TypeOK
<1>6. TreeInv'
  <2>1. ASSUME NEW d \in Folders PROVE drive'[d].at = Root
    BY <1>1, <1>4 DEF TreeInv, Mirror!Items
  <2>2. ASSUME NEW o \in Mirror!Items, Mirror!Live(o)', drive'[o].at # Root
        PROVE  Mirror!Live(drive[o].at)'
    <3>1. o # i
      BY <1>4, <2>2 DEF Mirror!Live
    <3>2. /\ drive'[o] = drive[o] /\ Mirror!Live(o) /\ drive[o].at # Root
          /\ drive[o].at \in Mirror!Items
      BY <1>3, <1>4, <2>2, <3>1 DEF Mirror!Live, Mirror!Places, Mirror!Items
    <3>3. Mirror!Live(drive[o].at) /\ drive[o].at # i
      BY <1>1, <1>2, <3>2 DEF TreeInv
    <3> QED BY <1>4, <3>2, <3>3 DEF Mirror!Live
  <2> QED BY <2>1, <2>2 DEF TreeInv
<1>7. SameRows(row, row') /\ SameRows(base, base') /\ (base = row => base' = row')
  BY <1>2 DEF SameRows
<1> QED BY <1>2, <1>4, <1>5, <1>6, <1>7, DriveMoves DEF MirrorInv

\* The engine trashes a file, which has nothing in it.
LEMMA EngineTrashesHolds ==
    ASSUME MirrorBounds, MirrorInv, NEW f \in Mirrored, Mirror!EngineTrashes(f)
    PROVE  MirrorInv'
<1>1. Mirror!TypeOK /\ TreeInv /\ f \in Mirror!Items
  BY DEF MirrorInv, Mirror!Items
<1>2. /\ ~ scan.full /\ Len(log) < MaxChanges
      /\ drive' = [drive EXCEPT ![f] = [drive[f] EXCEPT !.is = "trashed"]]
      /\ log' = Append(log, f)
      /\ row' = [row EXCEPT ![f].steps = TRUE] /\ base' = [base EXCEPT ![f].steps = TRUE]
      /\ base[f] # Mirror!NoRow /\ row[f] = base[f]
      /\ UNCHANGED <<token, scan, scans, aborts>>
  BY DEF Mirror!EngineTrashes, Mirror!Changes, Mirror!boundVars
<1>3. /\ drive \in [Mirror!Items -> [at : Mirror!Places, is : {"live", "trashed", "gone"}]]
      /\ log \in Seq(Mirror!Items) /\ Len(log) \in Nat
      /\ row \in [Mirror!Items -> Mirror!Row] /\ base \in [Mirror!Items -> Mirror!Row]
  BY <1>1, MirrorTypes
<1>4. /\ drive'[f].at = drive[f].at /\ drive'[f].is = "trashed"
      /\ \A o \in Mirror!Items : o # f => drive'[o] = drive[o]
  BY <1>1, <1>2, <1>3
<1>5. /\ row' \in [Mirror!Items -> Mirror!Row] /\ base' \in [Mirror!Items -> Mirror!Row]
      /\ SameRows(row, row') /\ SameRows(base, base')
  <2>1. ASSUME NEW r \in [Mirror!Items -> Mirror!Row], r[f] # Mirror!NoRow,
               NEW s, s = [r EXCEPT ![f].steps = TRUE]
        PROVE  s \in [Mirror!Items -> Mirror!Row] /\ SameRows(r, s)
    <3>1. r[f] \in Mirror!Row /\ s[f] = [r[f] EXCEPT !.steps = TRUE]
      BY <1>1, <2>1
    <3>2. /\ s[f] \in Mirror!Row /\ s[f].steps = TRUE /\ s[f].ver = r[f].ver
          /\ s[f].parent = r[f].parent /\ s[f].folder = r[f].folder
      BY <3>1 DEF Mirror!Row
    <3>3. s[f] # Mirror!NoRow
      BY <3>2 DEF Mirror!NoRow
    <3>4. \A o \in Mirror!Items : o # f => s[o] = r[o]
      BY <2>1
    <3>5. SameRows(r, s)
      BY <2>1, <3>2, <3>3, <3>4 DEF SameRows
    <3> QED BY <2>1, <3>1, <3>2, <3>5
  <2> QED BY <1>2, <1>3, <2>1
<1>6. Mirror!TypeOK'
  <2>1. drive' \in [Mirror!Items -> [at : Mirror!Places, is : {"live", "trashed", "gone"}]]
    BY <1>2, <1>3
  <2>2. log' \in Seq(Mirror!Items) /\ Len(log') <= MaxChanges
    BY <1>1, <1>2, <1>3 DEF MirrorBounds
  <2> QED BY <1>1, <1>2, <1>5, <2>1, <2>2 DEF Mirror!TypeOK
<1>7. TreeInv'
  <2>1. ASSUME NEW d \in Folders PROVE drive'[d].at = Root
    BY <1>1, <1>4 DEF TreeInv, Mirror!Items
  <2>2. ASSUME NEW o \in Mirror!Items, Mirror!Live(o)', drive'[o].at # Root
        PROVE  Mirror!Live(drive[o].at)'
    <3>1. o # f
      BY <1>4, <2>2 DEF Mirror!Live
    <3>2. /\ drive'[o] = drive[o] /\ Mirror!Live(o) /\ drive[o].at # Root
          /\ drive[o].at \in Folders
      BY <1>3, <1>4, <2>2, <3>1 DEF Mirror!Live, Mirror!Places
    <3>3. Mirror!Live(drive[o].at) /\ drive[o].at # f
      BY <1>1, <3>2 DEF TreeInv, MirrorBounds
    <3> QED BY <1>4, <3>2, <3>3 DEF Mirror!Live, Mirror!Items
  <2> QED BY <2>1, <2>2 DEF TreeInv
<1>8. base = row => base' = row'
  BY <1>2
<1> QED BY <1>1, <1>2, <1>4, <1>5, <1>6, <1>7, <1>8, DriveMoves DEF MirrorInv

\* Drive stands still, and no row that is as its item is gets lost.
LEMMA ScanMoves ==
    ASSUME MirrorBounds, MirrorInv, UNCHANGED <<drive, log>>
    PROVE  /\ TreeInv'
           /\ \A o \in Mirror!Items :
                  /\ Mirror!Live(o)' <=> Mirror!Live(o)
                  /\ Mirror!Version(o)' = Mirror!Version(o)
                  /\ Fresh(row, o)' <=> Fresh(row', o)
                  /\ Fresh(base, o)' <=> Fresh(base', o)
           /\ /\ token' = token
              /\ \A o \in Mirror!Items : Mirror!Live(o) /\ Fresh(row, o) /\ Fresh(base, o) =>
                     Fresh(row', o) /\ Fresh(base', o)
              => TokenInv'
<1>1. TreeInv'
  BY DEF MirrorInv, TreeInv, Mirror!Live
<1>2. ASSUME NEW o \in Mirror!Items
      PROVE  /\ Mirror!Live(o)' <=> Mirror!Live(o)
             /\ Mirror!Version(o)' = Mirror!Version(o)
             /\ Fresh(row, o)' <=> Fresh(row', o)
             /\ Fresh(base, o)' <=> Fresh(base', o)
  BY VersionsStay DEF Mirror!Live, Fresh
<1>3. ASSUME token' = token,
             \A o \in Mirror!Items : Mirror!Live(o) /\ Fresh(row, o) /\ Fresh(base, o) =>
                 Fresh(row', o) /\ Fresh(base', o)
      PROVE  TokenInv'
  BY <1>2, <1>3 DEF MirrorInv, TokenInv
<1> QED BY <1>1, <1>2, <1>3

\* How a scan begins, or begins again.
LEMMA FirstStepIs ==
    ASSUME MirrorBounds, Mirror!TypeOK, NEW full \in BOOLEAN,
           NEW s, s = Mirror!FirstStep(full)
    PROVE  /\ s \in Mirror!Scan
           /\ \/ /\ s.pc = "list" /\ s.full
                 /\ \A i \in Mirror!Items : Mirror!Live(i) => i \in s.left
              \/ s.pc = "changes" /\ ~ s.full /\ token # NoToken /\ s.at = token
<1>1. token \in Nat \cup {NoToken}
  BY MirrorTypes
<1>2. CASE full \/ token = NoToken
  BY <1>2 DEF Mirror!FirstStep, Mirror!AtScan, Mirror!Scan
<1>3. CASE ~ (full \/ token = NoToken)
  BY <1>1, <1>3 DEF Mirror!FirstStep, Mirror!AtScan, Mirror!Scan
<1> QED BY <1>2, <1>3

\* A source without a scan.
LEMMA IdleIs ==
    /\ Mirror!Idle \in Mirror!Scan /\ Mirror!Idle.pc = "idle" /\ ~ Mirror!Idle.full
BY DEF Mirror!Idle, Mirror!AtScan, Mirror!Scan

\* What a scan that begins, or ends, has of the rows.
LEMMA ScanTurns ==
    ASSUME MirrorBounds, MirrorInv, UNCHANGED <<drive, log, token>>, TokenInv',
           NEW full \in BOOLEAN, base' = row' \/ scan'.pc # "idle",
           scan' \in {Mirror!FirstStep(full), Mirror!Idle}
    PROVE  scan' \in Mirror!Scan /\ FullInv' /\ ChangesInv' /\ SettledInv'
<1>1. Mirror!TypeOK
  BY DEF MirrorInv
<1>2. \A o \in Mirror!Items : /\ Mirror!Live(o)' <=> Mirror!Live(o)
                              /\ Mirror!Version(o)' = Mirror!Version(o)
  BY ScanMoves
<1>3. CASE scan' = Mirror!Idle
  BY <1>3, IdleIs DEF FullInv, ChangesInv, SettledInv
<1>4. CASE scan' = Mirror!FirstStep(full)
  <2>1. PICK s : s = scan'
    OBVIOUS
  <2>2. /\ s \in Mirror!Scan
        /\ \/ /\ s.pc = "list" /\ s.full
              /\ \A i \in Mirror!Items : Mirror!Live(i) => i \in s.left
           \/ s.pc = "changes" /\ ~ s.full /\ token # NoToken /\ s.at = token
    BY <1>1, <1>4, <2>1, FirstStepIs
  <2>3. CASE s.pc = "list" /\ s.full /\ \A i \in Mirror!Items : Mirror!Live(i) => i \in s.left
    BY <1>2, <2>1, <2>2, <2>3 DEF FullInv, ChangesInv, SettledInv
  <2>4. CASE s.pc = "changes" /\ ~ s.full /\ token # NoToken /\ s.at = token
    <3>1. token \in Nat /\ token <= Len(log) /\ Len(log') = Len(log)
      BY <1>1, <2>4, MirrorTypes DEF MirrorInv, TokenInv
    <3>2. \A o \in Mirror!Items : Mirror!Version(o)' \in Nat
      BY <1>1, <1>2, MirrorTypes
    <3>3. ChangesInv'
      BY <2>1, <2>4, <3>1, <3>2 DEF ChangesInv
    <3> QED BY <2>1, <2>2, <2>4, <3>3 DEF FullInv, SettledInv
  <2> QED BY <2>2, <2>3, <2>4
<1> QED BY <1>3, <1>4

\* A scan begins.
LEMMA StartsScanHolds ==
    ASSUME MirrorBounds, MirrorInv, NEW full \in BOOLEAN, Mirror!StartsScan(full)
    PROVE  MirrorInv'
<1>1. /\ UNCHANGED <<drive, log, row, base, token, aborts>>
      /\ scan' = Mirror!FirstStep(full) /\ scans < MaxScans /\ scans' = scans + 1
      /\ scan.pc = "idle"
  BY DEF Mirror!StartsScan, Mirror!driveVars
<1>2. TokenInv' /\ TreeInv' /\ RowInv(row)' /\ RowInv(base)'
  BY <1>1, ScanMoves DEF MirrorInv, RowInv
<1>3. base' = row'
  BY <1>1 DEF MirrorInv, SettledInv
<1>4. scan' \in Mirror!Scan /\ FullInv' /\ ChangesInv' /\ SettledInv'
  BY <1>1, <1>2, <1>3, ScanTurns
<1>5. Mirror!TypeOK'
  BY <1>1, <1>4 DEF MirrorInv, Mirror!TypeOK, MirrorBounds
<1> QED BY <1>2, <1>4, <1>5 DEF MirrorInv

\* A scan is cancelled, and keeps what it has ingested.
LEMMA CancelledHolds ==
    ASSUME MirrorBounds, MirrorInv, Mirror!Cancelled
    PROVE  MirrorInv'
<1>1. /\ UNCHANGED <<drive, log, row, token, scans>>
      /\ scan' = Mirror!Idle /\ base' = row /\ aborts < MaxAborts /\ aborts' = aborts + 1
  BY DEF Mirror!Cancelled, Mirror!driveVars
<1>2. TokenInv' /\ TreeInv' /\ RowInv(row)' /\ RowInv(base)'
  BY <1>1, ScanMoves DEF MirrorInv, RowInv
<1>3. scan' \in Mirror!Scan /\ FullInv' /\ ChangesInv' /\ SettledInv'
  BY <1>1, <1>2, ScanTurns
<1>4. Mirror!TypeOK'
  BY <1>1, <1>3 DEF MirrorInv, Mirror!TypeOK, MirrorBounds
<1> QED BY <1>2, <1>3, <1>4 DEF MirrorInv

\* A scan is cut short, loses what was not committed, and may begin again.
LEMMA CutShortHolds ==
    ASSUME MirrorBounds, MirrorInv, NEW again \in BOOLEAN, Mirror!CutShort(again)
    PROVE  MirrorInv'
<1>1. /\ UNCHANGED <<drive, log, base, token, scans>>
      /\ scan' = IF again THEN Mirror!FirstStep(scan.full) ELSE Mirror!Idle
      /\ row' = base /\ aborts < MaxAborts /\ aborts' = aborts + 1
  BY DEF Mirror!CutShort, Mirror!driveVars
<1>2. TokenInv' /\ TreeInv' /\ RowInv(row)' /\ RowInv(base)'
  BY <1>1, ScanMoves DEF MirrorInv, RowInv
<1>3. scan' \in Mirror!Scan /\ FullInv' /\ ChangesInv' /\ SettledInv'
  <2>1. PICK full \in BOOLEAN : full = scan.full
    BY DEF MirrorInv, Mirror!TypeOK, Mirror!Scan
  <2> QED BY <1>1, <1>2, <2>1, ScanTurns
<1>4. Mirror!TypeOK'
  BY <1>1, <1>3 DEF MirrorInv, Mirror!TypeOK, MirrorBounds
<1> QED BY <1>2, <1>3, <1>4 DEF MirrorInv

\* A full scan comes to an item.
LEMMA ListsItemHolds ==
    ASSUME MirrorBounds, MirrorInv, NEW i \in Mirror!Items, Mirror!ListsItem(i)
    PROVE  MirrorInv'
<1>1. /\ UNCHANGED <<drive, log, token, scans, aborts>>
      /\ scan.pc = "list" /\ scan' = [scan EXCEPT !.left = @ \ {i}]
      /\ row' = IF Mirror!Live(i) THEN [row EXCEPT ![i] = Mirror!Ingested(i)] ELSE row
      /\ base' = row' \/ base' = base
  BY DEF Mirror!ListsItem, Mirror!driveVars, Mirror!boundVars, Mirror!MayCommit
<1>2. Mirror!TypeOK /\ TreeInv /\ RowInv(row) /\ RowInv(base) /\ FullInv
  BY DEF MirrorInv
<1>3. PICK r : r = row'
  OBVIOUS
<1>4. /\ r \in [Mirror!Items -> Mirror!Row] /\ RowInv(r)
      /\ Mirror!Live(i) => Fresh(r, i)
      /\ \A o \in Mirror!Items : o # i => r[o] = row[o]
      /\ ~ Mirror!Live(i) => r = row
  BY <1>1, <1>2, <1>3, RowIngested, MirrorTypes
<1>5. ASSUME NEW o \in Mirror!Items, Mirror!Live(o), Fresh(row, o) PROVE Fresh(r, o)
  BY <1>4, <1>5 DEF Fresh
<1>6. TokenInv' /\ TreeInv'
  BY <1>1, <1>3, <1>5, ScanMoves
<1>7. RowInv(row)' /\ RowInv(base)'
  BY <1>1, <1>2, <1>3, <1>4 DEF RowInv
<1>8. scan.full /\ scan'.full /\ scan'.pc = "list" /\ scan'.left = scan.left \ {i}
      /\ scan' \in Mirror!Scan
  BY <1>1, <1>2 DEF FullInv, Mirror!TypeOK, Mirror!Scan
<1>9. FullInv'
  <2>1. ASSUME NEW o \in Mirror!Items, Mirror!Live(o)
        PROVE  o \in scan'.left \/ Fresh(row', o)
    BY <1>1, <1>2, <1>3, <1>4, <1>5, <1>8, <2>1 DEF FullInv
  <2> QED BY <1>1, <1>8, <2>1, ScanMoves DEF FullInv
<1>10. ChangesInv' /\ SettledInv'
  BY <1>8 DEF ChangesInv, SettledInv
<1>11. Mirror!TypeOK'
  BY <1>1, <1>2, <1>3, <1>4, <1>8 DEF Mirror!TypeOK
<1> QED BY <1>6, <1>7, <1>9, <1>10, <1>11 DEF MirrorInv

\* A full scan has come to all of them.
LEMMA EndsListingHolds ==
    ASSUME MirrorBounds, MirrorInv, Mirror!EndsListing
    PROVE  MirrorInv'
<1>1. /\ UNCHANGED <<drive, log, row, token, scans, aborts>> /\ base' = row
      /\ scan.pc = "list" /\ scan.left = {} /\ scan' = [scan EXCEPT !.pc = "folders"]
  BY DEF Mirror!EndsListing, Mirror!driveVars, Mirror!boundVars
<1>2. TokenInv' /\ TreeInv' /\ RowInv(row)' /\ RowInv(base)'
  BY <1>1, ScanMoves DEF MirrorInv, RowInv
<1>3. /\ scan.full /\ scan'.full /\ scan'.pc = "folders" /\ scan' \in Mirror!Scan
      /\ \A o \in Mirror!Items : Mirror!Live(o) => Fresh(row, o)
  BY <1>1 DEF MirrorInv, FullInv, Mirror!TypeOK, Mirror!Scan
<1>4. FullInv' /\ ChangesInv' /\ SettledInv'
  BY <1>1, <1>3, ScanMoves DEF FullInv, ChangesInv, SettledInv
<1>5. Mirror!TypeOK'
  BY <1>1, <1>3 DEF MirrorInv, Mirror!TypeOK
<1> QED BY <1>2, <1>4, <1>5 DEF MirrorInv

\* What a change that is taken makes of the rows.
LEMMA ChangeTaken ==
    ASSUME MirrorBounds, MirrorInv, Mirror!TakesChange
    PROVE  \E i \in Mirror!Items, r \in [Mirror!Items -> Mirror!Row] :
               /\ i = log[scan.at + 1] /\ r = row' /\ RowInv(r)
               /\ \A o \in Mirror!Items : Mirror!Live(o) /\ Fresh(row, o) => Fresh(r, o)
               /\ \A o \in Mirror!Items :
                      ~ Mirror!Live(o) /\ row[o] = Mirror!NoRow => r[o] = Mirror!NoRow
               /\ \/ Mirror!Version(i) > scan.at + 1
                  \/ IF Mirror!Live(i) THEN Fresh(r, i) ELSE r[i] = Mirror!NoRow
<1>1. Mirror!TypeOK /\ TreeInv /\ RowInv(row)
  BY DEF MirrorInv
<1>2. PICK i \in Mirror!Items : i = log[scan.at + 1]
  <2>1. scan.at \in Nat /\ scan.at < Len(log) /\ log \in Seq(Mirror!Items) /\ Len(log) \in Nat
    BY <1>1, MirrorTypes DEF Mirror!TakesChange
  <2>2. scan.at + 1 \in 1 .. Len(log)
    BY <2>1
  <2> QED BY <2>1, <2>2
<1>3. PICK r : r = row'
  OBVIOUS
<1>4. \/ r = IF Mirror!Live(i) THEN [row EXCEPT ![i] = Mirror!Ingested(i)] ELSE Mirror!RemoveItem(i)
      \/ Mirror!Version(i) > scan.at + 1 /\ r = row
  BY <1>2, <1>3 DEF Mirror!TakesChange
<1>5. CASE Mirror!Live(i) /\ r = [row EXCEPT ![i] = Mirror!Ingested(i)]
  <2>1. /\ r \in [Mirror!Items -> Mirror!Row] /\ RowInv(r) /\ Fresh(r, i)
        /\ \A o \in Mirror!Items : o # i => r[o] = row[o]
    BY <1>1, <1>5, RowIngested
  <2>2. \A o \in Mirror!Items : Fresh(row, o) => Fresh(r, o)
    BY <2>1 DEF Fresh
  <2> QED BY <1>2, <1>3, <1>5, <2>1, <2>2
<1>6. CASE ~ Mirror!Live(i) /\ r = Mirror!RemoveItem(i)
  <2>1. /\ r \in [Mirror!Items -> Mirror!Row] /\ RowInv(r) /\ r[i] = Mirror!NoRow
        /\ \A o \in Mirror!Items : r[o] \in {row[o], Mirror!NoRow}
        /\ \A o \in Mirror!Items : Mirror!Live(o) /\ Fresh(row, o) => r[o] = row[o]
    BY <1>1, <1>6, RowRemoved
  <2>2. \A o \in Mirror!Items : Mirror!Live(o) /\ Fresh(row, o) => Fresh(r, o)
    BY <2>1 DEF Fresh
  <2> QED BY <1>2, <1>3, <1>6, <2>1, <2>2
<1>7. CASE Mirror!Version(i) > scan.at + 1 /\ r = row
  <2>1. r \in [Mirror!Items -> Mirror!Row]
    BY <1>1, <1>7, MirrorTypes
  <2> QED BY <1>1, <1>2, <1>3, <1>7, <2>1
<1> QED BY <1>4, <1>5, <1>6, <1>7

\* An incremental scan takes a change: one that is its item's last is taken for good.
LEMMA TakesChangeHolds ==
    ASSUME MirrorBounds, MirrorInv, Mirror!TakesChange
    PROVE  MirrorInv'
<1>1. /\ UNCHANGED <<drive, log, token, scans, aborts>>
      /\ scan.pc = "changes" /\ scan.at < Len(log) /\ scan' = [scan EXCEPT !.at = @ + 1]
      /\ base' = row' \/ base' = base
  BY DEF Mirror!TakesChange, Mirror!driveVars, Mirror!boundVars, Mirror!MayCommit
<1>2. Mirror!TypeOK /\ RowInv(base)
  BY DEF MirrorInv
<1>3. PICK i \in Mirror!Items, r \in [Mirror!Items -> Mirror!Row] :
               /\ i = log[scan.at + 1] /\ r = row' /\ RowInv(r)
               /\ \A o \in Mirror!Items : Mirror!Live(o) /\ Fresh(row, o) => Fresh(r, o)
               /\ \A o \in Mirror!Items :
                      ~ Mirror!Live(o) /\ row[o] = Mirror!NoRow => r[o] = Mirror!NoRow
               /\ \/ Mirror!Version(i) > scan.at + 1
                  \/ IF Mirror!Live(i) THEN Fresh(r, i) ELSE r[i] = Mirror!NoRow
  BY ChangeTaken
<1>4. TokenInv' /\ TreeInv'
  BY <1>1, <1>3, ScanMoves
<1>5. RowInv(row)' /\ RowInv(base)'
  BY <1>1, <1>2, <1>3 DEF RowInv
<1>6. /\ ~ scan.full /\ ~ scan'.full /\ scan'.pc = "changes" /\ scan'.at = scan.at + 1
      /\ scan' \in Mirror!Scan /\ scan.at \in Nat /\ Len(log) \in Nat
      /\ token # NoToken /\ token <= scan.at /\ token \in Nat
  <2>1. scan \in Mirror!Scan /\ scan.at \in Nat /\ Len(log) \in Nat /\ token \in Nat \cup {NoToken}
    BY <1>2, MirrorTypes
  <2>2. ~ scan.full /\ token # NoToken /\ token <= scan.at
    BY <1>1 DEF MirrorInv, FullInv, ChangesInv
  <2> QED BY <1>1, <2>1, <2>2 DEF Mirror!Scan
<1>7. ASSUME NEW o \in Mirror!Items, token < Mirror!Version(o), Mirror!Version(o) <= scan.at + 1
      PROVE  IF Mirror!Live(o) THEN Fresh(r, o) ELSE r[o] = Mirror!NoRow
  <2>1. PICK v \in Nat : v = Mirror!Version(o)
    BY <1>2, MirrorTypes
  <2>2. CASE v <= scan.at
    <3>1. IF Mirror!Live(o) THEN Fresh(row, o) ELSE row[o] = Mirror!NoRow
      BY <1>1, <1>6, <1>7, <2>1, <2>2 DEF MirrorInv, ChangesInv
    <3> QED BY <1>3, <3>1
  <2>3. CASE v = scan.at + 1
    <3>1. v = LastOf(log, o, Len(log))
      BY <2>1, VersionIs
    <3>2. log[v] = o
      BY <1>6, <2>3, <3>1, LastOfIs
    <3>3. o = i
      BY <1>3, <2>3, <3>2
    <3>4. ~ (Mirror!Version(i) > scan.at + 1)
      <4>1. Mirror!Version(i) = v
        BY <2>1, <3>3
      <4> QED BY <1>6, <2>3, <4>1
    <3>5. IF Mirror!Live(i) THEN Fresh(r, i) ELSE r[i] = Mirror!NoRow
      BY <1>3, <3>4
    <3> QED BY <3>3, <3>5
  <2> QED BY <1>6, <1>7, <2>1, <2>2, <2>3
<1>8. ChangesInv'
  <2>1. ASSUME NEW o \in Mirror!Items,
               token < Mirror!Version(o)', Mirror!Version(o)' <= scan.at + 1
        PROVE  IF Mirror!Live(o)' THEN Fresh(row, o)' ELSE row'[o] = Mirror!NoRow
    BY <1>1, <1>3, <1>7, <2>1, ScanMoves
  <2>2. token <= scan.at + 1 /\ scan.at + 1 <= Len(log')
    BY <1>1, <1>6
  <2> QED BY <1>1, <1>6, <2>1, <2>2 DEF ChangesInv
<1>9. FullInv' /\ SettledInv'
  BY <1>6 DEF FullInv, SettledInv
<1>10. Mirror!TypeOK'
  BY <1>1, <1>2, <1>3, <1>6 DEF Mirror!TypeOK
<1> QED BY <1>4, <1>5, <1>8, <1>9, <1>10 DEF MirrorInv

\* An incremental scan is through with the changes.
LEMMA EndsChangesHolds ==
    ASSUME MirrorBounds, MirrorInv, Mirror!EndsChanges
    PROVE  MirrorInv'
<1>1. /\ UNCHANGED <<drive, log, row, token, scans, aborts>> /\ base' = row
      /\ scan.pc = "changes"
      /\ scan' = [scan EXCEPT !.pc = IF scan.at > token THEN "folders" ELSE "token"]
  BY DEF Mirror!EndsChanges, Mirror!driveVars, Mirror!boundVars
<1>2. TokenInv' /\ TreeInv' /\ RowInv(row)' /\ RowInv(base)'
  BY <1>1, ScanMoves DEF MirrorInv, RowInv
<1>3. /\ ~ scan.full /\ ~ scan'.full /\ scan'.at = scan.at /\ scan' \in Mirror!Scan
      /\ scan'.pc = IF scan.at > token THEN "folders" ELSE "token"
  BY <1>1 DEF MirrorInv, FullInv, Mirror!TypeOK, Mirror!Scan
<1>4. ChangesInv'
  BY <1>1, <1>3, ScanMoves DEF MirrorInv, ChangesInv
<1>5. FullInv' /\ SettledInv'
  BY <1>1, <1>3 DEF FullInv, SettledInv
<1>6. Mirror!TypeOK'
  BY <1>1, <1>3 DEF MirrorInv, Mirror!TypeOK
<1> QED BY <1>2, <1>4, <1>5, <1>6 DEF MirrorInv

\* A pass over the hierarchy.
LEMMA ResolvesHolds ==
    ASSUME MirrorBounds, MirrorInv, NEW these, NEW p \in {"files", "token"},
           scan.pc \in {"folders", "files"}, scan' = [scan EXCEPT !.pc = p],
           row' = Mirror!Resolved(these), base' = row', p = "token" => these = Mirrored,
           UNCHANGED <<drive, log, token, scans, aborts>>
    PROVE  MirrorInv'
<1>1. Mirror!TypeOK /\ RowInv(row)
  BY DEF MirrorInv
<1>2. PICK r \in [Mirror!Items -> Mirror!Row] :
          /\ r = row' /\ RowInv(r)
          /\ \A o \in Mirror!Items :
                 /\ r[o].ver = row[o].ver /\ r[o].parent = row[o].parent
                 /\ row[o] = Mirror!NoRow => r[o] = Mirror!NoRow
                 /\ row[o] # Mirror!NoRow /\ o \in these => r[o].folder = Mirror!ParentRow(o)
                 /\ o \notin these => r[o] = row[o]
          /\ \A d \in Folders : r[d] = row[d]
  <2>1. PICK r : r = Mirror!Resolved(these)
    OBVIOUS
  <2> QED BY <1>1, <2>1, RowResolved
<1>3. \A o \in Mirror!Items : Fresh(row, o) => Fresh(r, o)
  BY <1>2 DEF Fresh
<1>4. base = row
  BY DEF MirrorInv, SettledInv
<1>5. TokenInv' /\ TreeInv'
  BY <1>2, <1>3, <1>4, ScanMoves
<1>6. RowInv(row)' /\ RowInv(base)'
  BY <1>2 DEF RowInv
<1>7. /\ scan'.full = scan.full /\ scan'.at = scan.at /\ scan' \in Mirror!Scan /\ scan'.pc = p
      /\ scan.full \in BOOLEAN
  BY <1>1 DEF Mirror!TypeOK, Mirror!Scan
<1>8. FullInv'
  <2>1. scan.full => \A o \in Mirror!Items : Mirror!Live(o) => Fresh(row', o)
    BY <1>2, <1>3 DEF MirrorInv, FullInv
  <2> QED BY <1>7, <2>1, ScanMoves DEF FullInv
<1>9. ChangesInv'
  <2>1. ~ scan.full =>
            /\ token # NoToken /\ token <= scan.at /\ scan.at <= Len(log)
            /\ \A o \in Mirror!Items :
                   token < Mirror!Version(o) /\ Mirror!Version(o) <= scan.at =>
                   IF Mirror!Live(o) THEN Fresh(row', o) ELSE row'[o] = Mirror!NoRow
    BY <1>2, <1>3 DEF MirrorInv, ChangesInv
  <2> QED BY <1>7, <2>1, ScanMoves DEF ChangesInv
<1>10. SettledInv'
  <2>1. ASSUME these = Mirrored, NEW o \in Mirror!Items, row'[o] # Mirror!NoRow
        PROVE  row'[o].folder = Mirror!ParentRow(o)'
    <3>1. CASE o \in Folders
      BY <1>2, <3>1 DEF RowInv, Mirror!ParentRow
    <3>2. CASE o \notin Folders
      <4>1. /\ row[o] # Mirror!NoRow /\ o \in these /\ row'[o].parent = row[o].parent
            /\ row'[o].folder = Mirror!ParentRow(o)
        BY <1>2, <2>1, <3>2 DEF Mirror!Items
      <4>2. row[o].parent # Root => row'[row[o].parent] = row[row[o].parent]
        BY <1>1, <1>2, MirrorTypes DEF Mirror!Row, Mirror!Places
      <4> QED BY <4>1, <4>2 DEF Mirror!ParentRow
    <3> QED BY <3>1, <3>2
  <2> QED BY <1>7, <2>1 DEF SettledInv
<1>11. Mirror!TypeOK'
  BY <1>1, <1>2, <1>7 DEF Mirror!TypeOK
<1> QED BY <1>5, <1>6, <1>8, <1>9, <1>10, <1>11 DEF MirrorInv

\* The token is saved: what it is ahead of its predecessor by is in the rows.
LEMMA SavesTokenHolds ==
    ASSUME MirrorBounds, MirrorInv, Mirror!SavesToken
    PROVE  MirrorInv' /\ Mirror!CaughtUp /\ Mirror!NoPlaceholder
<1>1. /\ UNCHANGED <<drive, log, row, base, scans, aborts>>
      /\ scan.pc = "token" /\ scan' = Mirror!Idle
      /\ token' = IF scan.full THEN Len(log) ELSE scan.at
  BY DEF Mirror!SavesToken, Mirror!NextToken, Mirror!driveVars, Mirror!boundVars
<1>2. Mirror!TypeOK /\ base = row
  BY <1>1 DEF MirrorInv, SettledInv
<1>3. /\ scan.at \in Nat /\ Len(log) \in Nat /\ scan.full \in BOOLEAN /\ token \in Nat \cup {NoToken}
      /\ \A o \in Mirror!Items : Mirror!Version(o) \in Nat
  BY <1>2, MirrorTypes DEF Mirror!Scan
<1>4. ~ scan.full => /\ token # NoToken /\ token <= scan.at /\ scan.at <= Len(log)
                     /\ \A o \in Mirror!Items :
                            token < Mirror!Version(o) /\ Mirror!Version(o) <= scan.at =>
                            IF Mirror!Live(o) THEN Fresh(row, o) ELSE row[o] = Mirror!NoRow
  BY <1>1 DEF MirrorInv, ChangesInv
<1>5. TreeInv' /\ RowInv(row)' /\ RowInv(base)'
  BY <1>1, ScanMoves DEF MirrorInv, RowInv
<1>6. TokenInv'
  <2>1. token' <= Len(log') /\ token' \in Nat
    BY <1>1, <1>3, <1>4
  <2>2. ASSUME NEW o \in Mirror!Items, Mirror!Live(o), Mirror!Version(o) <= token'
        PROVE  Fresh(row, o)
    <3>1. CASE scan.full
      BY <1>1, <2>2, <3>1 DEF MirrorInv, FullInv
    <3>2. CASE ~ scan.full
      <4>1. CASE Mirror!Version(o) <= token
        BY <1>4, <2>2, <3>2, <4>1 DEF MirrorInv, TokenInv
      <4>2. CASE ~ (Mirror!Version(o) <= token)
        BY <1>1, <1>3, <1>4, <2>2, <3>2, <4>2
      <4> QED BY <4>1, <4>2
    <3> QED BY <1>3, <3>1, <3>2
  <2>3. ASSUME NEW o \in Mirror!Items, Mirror!Live(o)', Mirror!Version(o)' <= token'
        PROVE  Fresh(row, o)' /\ Fresh(base, o)'
    BY <1>1, <1>2, <2>2, <2>3, ScanMoves
  <2> QED BY <2>1, <2>3 DEF TokenInv
<1>7. scan' \in Mirror!Scan /\ FullInv' /\ ChangesInv' /\ SettledInv'
  BY <1>1, <1>2, IdleIs DEF FullInv, ChangesInv, SettledInv
<1>8. Mirror!TypeOK'
  BY <1>1, <1>2, <1>3, <1>7 DEF Mirror!TypeOK
<1>9. Mirror!CaughtUp
  <2> SUFFICES ASSUME ~ scan.full, NEW o \in Mirror!Items,
                      token < Mirror!LastChange(o, scan.at), Mirror!Version(o) <= scan.at
               PROVE  Mirror!Reflects(o)
    BY DEF Mirror!CaughtUp
  <2>1. PICK v \in 0 .. scan.at : /\ v = Mirror!LastChange(o, scan.at)
                                  /\ v # 0 => log[v] = o
    BY <1>3, VersionIs, LastOfIs
  <2>2. v <= Mirror!Version(o)
    <3>1. CASE v = 0
      BY <1>3, <3>1
    <3>2. CASE v # 0
      <4>1. v \in 1 .. Len(log) /\ log[v] = o
        BY <1>3, <1>4, <2>1, <3>2
      <4> QED BY <1>3, <4>1, VersionIs, LastOfIs
    <3> QED BY <3>1, <3>2
  <2>3. token < Mirror!Version(o)
    BY <1>3, <1>4, <2>1, <2>2
  <2> QED BY <1>2, <1>4, <2>3 DEF Mirror!Reflects, Fresh
<1>10. Mirror!NoPlaceholder
  <2> SUFFICES ASSUME scan.full \/ scan.at > token, NEW o \in Mirror!Items,
                      row[o] # Mirror!NoRow
               PROVE  row[o].folder = Mirror!ParentRow(o)
    BY <1>1, <1>2 DEF Mirror!NoPlaceholder, Mirror!ParentRow
  <2> QED BY <1>1 DEF MirrorInv, SettledInv
<1> QED BY <1>5, <1>6, <1>7, <1>8, <1>9, <1>10 DEF MirrorInv

\* Every step keeps the invariant, and a scan that saves its token has caught up.
LEMMA MirrorStep ==
    ASSUME MirrorBounds, MirrorInv, [Mirror!Next]_(Mirror!vars)
    PROVE  /\ MirrorInv'
           /\ Mirror!SavesToken => Mirror!CaughtUp /\ Mirror!NoPlaceholder
<1>0. Mirror!SavesToken => MirrorInv' /\ Mirror!CaughtUp /\ Mirror!NoPlaceholder
  BY SavesTokenHolds
<1> SUFFICES MirrorInv'
  BY <1>0
<1>1. CASE \E i \in Mirror!Items, place \in Mirror!Places : Mirror!UserSaves(i, place)
  BY <1>1, UserSavesHolds
<1>2. CASE \E i \in Mirror!Items, how \in {"trashed", "gone"} : Mirror!UserRemoves(i, how)
  BY <1>2, UserRemovesHolds
<1>3. CASE \E f \in Mirrored : Mirror!EngineTrashes(f)
  BY <1>3, EngineTrashesHolds
<1>4. CASE \E b \in BOOLEAN : Mirror!StartsScan(b) \/ Mirror!CutShort(b)
  BY <1>4, StartsScanHolds, CutShortHolds
<1>5. CASE \E i \in Mirror!Items : Mirror!ListsItem(i)
  BY <1>5, ListsItemHolds
<1>6. CASE Mirror!EndsListing
  BY <1>6, EndsListingHolds
<1>7. CASE Mirror!TakesChange
  BY <1>7, TakesChangeHolds
<1>8. CASE Mirror!EndsChanges
  BY <1>8, EndsChangesHolds
<1>9. CASE Mirror!ResolvesFolders
  BY <1>9, ResolvesHolds DEF Mirror!ResolvesFolders, Mirror!driveVars, Mirror!boundVars
<1>10. CASE Mirror!ResolvesFiles
  BY <1>10, ResolvesHolds DEF Mirror!ResolvesFiles, Mirror!driveVars, Mirror!boundVars
<1>11. CASE Mirror!Cancelled
  BY <1>11, CancelledHolds
<1>12. CASE UNCHANGED Mirror!vars
  <2>1. UNCHANGED <<drive, log, row, base, token, scan, scans, aborts>>
    BY <1>12 DEF Mirror!vars, Mirror!driveVars, Mirror!boundVars
  <2>2. TokenInv' /\ TreeInv'
    BY <2>1, ScanMoves
  <2>3. RowInv(row)' /\ RowInv(base)' /\ Mirror!TypeOK'
    BY <2>1 DEF MirrorInv, RowInv, Mirror!TypeOK
  <2>4. FullInv' /\ ChangesInv'
    BY <2>1, ScanMoves DEF MirrorInv, FullInv, ChangesInv
  <2>5. SettledInv'
    BY <2>1 DEF MirrorInv, SettledInv, Mirror!ParentRow
  <2> QED BY <2>2, <2>3, <2>4, <2>5 DEF MirrorInv
<1> QED BY <1>0, <1>1, <1>2, <1>3, <1>4, <1>5, <1>6, <1>7, <1>8, <1>9, <1>10, <1>11, <1>12
        DEF Mirror!Next, Mirror!ScanStep

\* A drive and a source with nothing in them satisfy it.
LEMMA MirrorInit ==
    ASSUME MirrorBounds, Mirror!Init
    PROVE  MirrorInv
<1>1. /\ drive = [i \in Mirror!Items |-> [at |-> Root, is |-> "gone"]] /\ log = <<>>
      /\ row = [i \in Mirror!Items |-> Mirror!NoRow] /\ base = row
      /\ token = NoToken /\ scan = Mirror!Idle /\ scans = 0 /\ aborts = 0
  BY DEF Mirror!Init
<1>2. Mirror!TypeOK
  <2>1. Mirror!NoRow \in Mirror!Row /\ Root \in Mirror!Places
    BY DEF Mirror!NoRow, Mirror!Row, Mirror!Places
  <2>2. log \in Seq(Mirror!Items) /\ Len(log) <= MaxChanges
    BY <1>1 DEF MirrorBounds
  <2> QED BY <1>1, <2>1, <2>2, IdleIs DEF Mirror!TypeOK, MirrorBounds
<1>3. TreeInv
  BY <1>1 DEF TreeInv, Mirror!Live, Mirror!Items
<1>4. RowInv(row) /\ RowInv(base)
  BY <1>1 DEF RowInv, Mirror!NoRow, Mirror!Items
<1>5. TokenInv /\ FullInv /\ ChangesInv /\ SettledInv
  BY <1>1, IdleIs DEF TokenInv, FullInv, ChangesInv, SettledInv
<1> QED BY <1>2, <1>3, <1>4, <1>5 DEF MirrorInv

\* What the invariant says of the committed rows.
LEMMA MirrorImplies ==
    ASSUME MirrorBounds, MirrorInv
    PROVE  Mirror!TypeOK /\ Mirror!NothingMissed
BY DEF MirrorInv, TokenInv, Fresh, Mirror!NothingMissed, Mirror!Reflects

(***************************************************************************)
(* However scans of either kind are cut short and run again between the     *)
(* changes of a Drive without nested folders, whose folders go empty, that   *)
(* stands still during full scans, what is live and did not change after the *)
(* source's token has its row as of its last change.                        *)
(***************************************************************************)
THEOREM NothingMissedHolds ==
    ASSUME MirrorBounds
    PROVE  Mirror!Spec => []Mirror!NothingMissed
<1>1. Mirror!Init => MirrorInv
  BY MirrorInit
<1>2. MirrorInv /\ [Mirror!Next]_(Mirror!vars) => MirrorInv'
  BY MirrorStep
<1>3. MirrorInv => Mirror!NothingMissed
  BY MirrorImplies
<1> QED BY <1>1, <1>2, <1>3, PTL DEF Mirror!Spec

(***************************************************************************)
(* In such a Drive, an incremental scan that saves its token has brought up *)
(* to date all that changed since the old one, whatever came before it, and *)
(* any scan that resolved the hierarchy leaves each row under its parent's. *)
(***************************************************************************)
THEOREM ScansCatchUpHolds ==
    ASSUME MirrorBounds
    PROVE  Mirror!Spec =>
               [][Mirror!SavesToken => Mirror!CaughtUp /\ Mirror!NoPlaceholder]_(Mirror!vars)
<1>1. Mirror!Init => MirrorInv
  BY MirrorInit
<1>2. MirrorInv /\ [Mirror!Next]_(Mirror!vars) =>
          /\ MirrorInv'
          /\ [Mirror!SavesToken => Mirror!CaughtUp /\ Mirror!NoPlaceholder]_(Mirror!vars)
  BY MirrorStep
<1> QED BY <1>1, <1>2, PTL DEF Mirror!Spec

-----------------------------------------------------------------------------
(* Duplicates: any files, contents, acts of users and runs of the jobs *)

\* No file and no key has the name of one; the bounds are numbers.
CopyBounds == NoKey \notin Checksums /\ NoFile \notin Files /\ MaxActs \in Nat /\ MaxRuns \in Nat

\* Whoever trashes the live ones of fs, leaves a copy of each.
Spared(fs) ==
    \A f \in fs : Copies!Live(f) =>
        \E g \in Files \ fs : Copies!Live(g) /\ drive[g].content = drive[f].content

\* The copy that is marked to be kept of the set of c.
KeptOf(r, c) == CHOOSE f \in r.of[c] : f \in r.keep

\* One copy of each set that was read is marked to be kept.
ReadingMarks(r) == \A c \in Checksums : r.of[c] # {} => \E f \in r.of[c] : f \in r.keep

\* What was read of Drive as it is spares a copy: all that the rule calls redundant
\* together, and each set of the analysis without its copy to keep.
SoundReadings ==
    /\ \A j \in Copies!Jobs : ReadingMarks(reading[j])
    /\ reading["recommendation"].sound => Spared(Copies!Redundant(reading["recommendation"]))
    /\ reading["analysis"].sound => \A c \in Checksums : reading["analysis"].of[c] # {} =>
           Spared(reading["analysis"].of[c] \ {KeptOf(reading["analysis"], c)})

\* So does what was stored.
SoundStores ==
    /\ rec.sound => Spared(rec.files)
    /\ \A c \in Checksums : group[c].sound => Spared(group[c].members \ {group[c].keep})

\* So does what a plan has left to trash.
SoundPlans == \A o \in Copies!Origins : plan[o].sound => Spared(plan[o].left)

\* The inductive invariant of the duplicates.
CopyInv == Copies!TypeOK /\ SoundReadings /\ SoundStores /\ SoundPlans

\* Who trashes less, spares what was spared.
LEMMA SparedFewer ==
    ASSUME NEW fs \in SUBSET Files, NEW gs \in SUBSET fs, Spared(fs)
    PROVE  Spared(gs)
BY DEF Spared

\* As long as Drive stays.
LEMMA SparedStays ==
    ASSUME UNCHANGED drive, NEW fs, Spared(fs)
    PROVE  Spared(fs)'
BY DEF Spared, Copies!Live

\* The types, one by one.
LEMMA CopyTypes ==
    ASSUME CopyInv
    PROVE  /\ drive \in [Files -> Copies!InDrive] /\ row \in [Files -> Copies!Row]
           /\ rec \in Copies!Recommendation /\ group \in [Checksums -> Copies!Group]
           /\ reading \in [Copies!Jobs -> Copies!Reading]
           /\ plan \in [Copies!Origins -> Copies!Plan]
           /\ acts \in 0 .. MaxActs /\ runs \in 0 .. MaxRuns
BY DEF CopyInv, Copies!TypeOK

\* Nothing in Drive changes: what was sound before and is as it was, or less, is sound.
LEMMA PlansStay ==
    ASSUME CopyInv, UNCHANGED drive,
           \A o \in Copies!Origins :
               plan'[o].sound => \/ Spared(plan'[o].left)
                                 \/ plan[o].sound /\ plan'[o].left \subseteq plan[o].left
    PROVE  SoundPlans'
<1> SUFFICES ASSUME NEW o \in Copies!Origins, plan'[o].sound PROVE Spared(plan[o].left)'
  BY DEF SoundPlans
<1>1. PICK fs : fs = plan'[o].left
  OBVIOUS
<1>2. Spared(fs)
  <2>1. CASE Spared(plan'[o].left)
    BY <1>1, <2>1 DEF Spared
  <2>2. CASE plan[o].sound /\ plan'[o].left \subseteq plan[o].left
    <3>1. plan[o].left \subseteq Files /\ Spared(plan[o].left)
      BY <2>2, CopyTypes DEF CopyInv, SoundPlans, Copies!Plan
    <3> QED BY <1>1, <2>2, <3>1, SparedFewer
  <2> QED BY <2>1, <2>2
<1>3. Spared(fs)'
  BY <1>2, SparedStays
<1> QED BY <1>1, <1>3 DEF Spared

\* The readings stay.
LEMMA ReadingsStay ==
    ASSUME CopyInv, UNCHANGED <<drive, reading>>
    PROVE  SoundReadings'
BY DEF CopyInv, SoundReadings, ReadingMarks, KeptOf, Spared, Copies!Redundant, Copies!Live

\* What is stored stays.
LEMMA StoresStay ==
    ASSUME CopyInv, UNCHANGED <<drive, rec, group>>
    PROVE  SoundStores'
BY DEF CopyInv, SoundStores, Spared, Copies!Live

\* The copy to keep is in the set, and marked.
LEMMA Marked ==
    ASSUME NEW r \in Copies!Reading, ReadingMarks(r), NEW c \in Checksums, r.of[c] # {}
    PROVE  KeptOf(r, c) \in r.of[c] /\ KeptOf(r, c) \in r.keep /\ KeptOf(r, c) \in Files
<1>1. \E f : f \in r.of[c] /\ f \in r.keep
  BY DEF ReadingMarks
<1>2. KeptOf(r, c) \in r.of[c] /\ KeptOf(r, c) \in r.keep
  BY <1>1 DEF KeptOf, ReadingMarks
<1> QED BY <1>2 DEF Copies!Reading

\* A job that has read nothing.
LEMMA NoReadingIs ==
    /\ Copies!NoReading \in Copies!Reading /\ ReadingMarks(Copies!NoReading)
    /\ Copies!NoReading.pc = "idle" /\ ~ Copies!NoReading.sound
BY DEF Copies!NoReading, Copies!Reading, ReadingMarks

\* What a job has read is dropped.
LEMMA ReadingDropped ==
    ASSUME CopyInv, NEW j \in Copies!Jobs, UNCHANGED drive,
           reading' = [reading EXCEPT ![j] = Copies!NoReading]
    PROVE  SoundReadings' /\ reading' \in [Copies!Jobs -> Copies!Reading]
<1>1. /\ reading' \in [Copies!Jobs -> Copies!Reading]
      /\ \A k \in Copies!Jobs : reading'[k] = IF k = j THEN Copies!NoReading ELSE reading[k]
  BY CopyTypes, NoReadingIs
<1>2. ASSUME NEW k \in Copies!Jobs PROVE ReadingMarks(reading[k])'
  <2>1. ReadingMarks(reading[k]) /\ ReadingMarks(Copies!NoReading)
    BY NoReadingIs DEF CopyInv, SoundReadings
  <2> QED BY <1>1, <2>1 DEF ReadingMarks
<1>3. ASSUME NEW k \in Copies!Jobs, reading'[k].sound PROVE reading'[k] = reading[k]
  BY <1>1, <1>3, NoReadingIs
<1>4. "recommendation" \in Copies!Jobs /\ "analysis" \in Copies!Jobs
  BY DEF Copies!Jobs
<1>5. reading'["recommendation"].sound => Spared(Copies!Redundant(reading["recommendation"]))'
  BY <1>3, <1>4 DEF CopyInv, SoundReadings, Spared, Copies!Redundant, Copies!Live
<1>6. reading'["analysis"].sound => \A c \in Checksums : reading'["analysis"].of[c] # {} =>
          Spared(reading["analysis"].of[c] \ {KeptOf(reading["analysis"], c)})'
  BY <1>3, <1>4 DEF CopyInv, SoundReadings, Spared, KeptOf, Copies!Live
<1> QED BY <1>1, <1>2, <1>5, <1>6 DEF SoundReadings

\* Drive has changed: nothing that was read or stored is sound any more.
LEMMA UnsoundIs ==
    ASSUME CopyInv, Copies!Unsound
    PROVE  /\ rec' \in Copies!Recommendation /\ group' \in [Checksums -> Copies!Group]
           /\ reading' \in [Copies!Jobs -> Copies!Reading]
           /\ SoundReadings' /\ SoundStores'
<1>1. /\ rec' = [rec EXCEPT !.sound = FALSE]
      /\ group' = [c \in Checksums |-> [group[c] EXCEPT !.sound = FALSE]]
      /\ reading' = [j \in Copies!Jobs |-> [reading[j] EXCEPT !.sound = FALSE]]
  BY DEF Copies!Unsound
<1>2. rec' \in Copies!Recommendation /\ ~ rec'.sound
  BY <1>1, CopyTypes DEF Copies!Recommendation
<1>3. \A c \in Checksums : [group[c] EXCEPT !.sound = FALSE] \in Copies!Group
                           /\ ~ [group[c] EXCEPT !.sound = FALSE].sound
  BY CopyTypes DEF Copies!Group
<1>4. \A j \in Copies!Jobs : /\ [reading[j] EXCEPT !.sound = FALSE] \in Copies!Reading
                             /\ ~ [reading[j] EXCEPT !.sound = FALSE].sound
                             /\ [reading[j] EXCEPT !.sound = FALSE].of = reading[j].of
                             /\ [reading[j] EXCEPT !.sound = FALSE].keep = reading[j].keep
  BY CopyTypes DEF Copies!Reading
<1>5. group' \in [Checksums -> Copies!Group] /\ \A c \in Checksums : ~ group'[c].sound
  BY <1>1, <1>3
<1>6. /\ reading' \in [Copies!Jobs -> Copies!Reading]
      /\ \A j \in Copies!Jobs : /\ ~ reading'[j].sound
                                /\ reading'[j].of = reading[j].of /\ reading'[j].keep = reading[j].keep
  BY <1>1, <1>4
<1>7. \A j \in Copies!Jobs : ReadingMarks(reading[j])'
  BY <1>6 DEF ReadingMarks, CopyInv, SoundReadings
<1>8. "recommendation" \in Copies!Jobs /\ "analysis" \in Copies!Jobs
  BY DEF Copies!Jobs
<1> QED BY <1>2, <1>5, <1>6, <1>7, <1>8 DEF SoundReadings, SoundStores

\* A user edits, trashes or restores a file: nothing is sound any more.
LEMMA UserActsHolds ==
    ASSUME CopyBounds, CopyInv, NEW f \in Files, Copies!UserActs(f)
    PROVE  CopyInv'
<1>1. /\ acts < MaxActs /\ acts' = acts + 1 /\ Copies!Unsound
      /\ drive' \in {[drive EXCEPT ![f] = x] : x \in Copies!InDrive}
      /\ plan' = [o \in Copies!Origins |-> [plan[o] EXCEPT !.sound = FALSE]]
      /\ UNCHANGED <<row, runs>>
  BY DEF Copies!UserActs
<1>2. drive' \in [Files -> Copies!InDrive]
  BY <1>1, CopyTypes
<1>3. \A o \in Copies!Origins : [plan[o] EXCEPT !.sound = FALSE] \in Copies!Plan
                                /\ ~ [plan[o] EXCEPT !.sound = FALSE].sound
  BY CopyTypes DEF Copies!Plan
<1>4. plan' \in [Copies!Origins -> Copies!Plan] /\ SoundPlans'
  BY <1>1, <1>3 DEF SoundPlans
<1>5. acts' \in 0 .. MaxActs
  BY <1>1, CopyTypes DEF CopyBounds
<1>6. Copies!TypeOK'
  BY <1>1, <1>2, <1>4, <1>5, UnsoundIs, CopyTypes DEF Copies!TypeOK
<1> QED BY <1>1, <1>4, <1>6, UnsoundIs DEF CopyInv

\* A plan of a sound source takes away one file after the other of those that may go.
LEMMA TrashesHolds ==
    ASSUME CopyInv, NEW o \in Copies!Origins, NEW f \in Files, Copies!Trashes(o, f)
    PROVE  CopyInv'
<1>1. /\ f \in plan[o].left /\ drive' = [drive EXCEPT ![f].at = "trash"]
      /\ row' = [row EXCEPT ![f].trashed = TRUE]
      /\ plan' = [p \in Copies!Origins |-> IF p = o THEN [plan[o] EXCEPT !.left = @ \ {f}]
                                           ELSE [plan[p] EXCEPT !.sound = FALSE]]
      /\ Copies!Unsound /\ UNCHANGED <<acts, runs>>
  BY DEF Copies!Trashes
<1>2. /\ drive' \in [Files -> Copies!InDrive]
      /\ \A g \in Files : g # f => drive'[g] = drive[g]
      /\ \A g \in Files : drive'[g].content = drive[g].content
  BY <1>1, CopyTypes DEF Copies!InDrive
<1>3. row' \in [Files -> Copies!Row]
  BY <1>1, CopyTypes DEF Copies!Row
<1>4. \A p \in Copies!Origins : /\ [plan[p] EXCEPT !.sound = FALSE] \in Copies!Plan
                                /\ ~ [plan[p] EXCEPT !.sound = FALSE].sound
  BY CopyTypes DEF Copies!Plan
<1>5. /\ [plan[o] EXCEPT !.left = @ \ {f}] \in Copies!Plan
      /\ [plan[o] EXCEPT !.left = @ \ {f}].sound = plan[o].sound
      /\ [plan[o] EXCEPT !.left = @ \ {f}].left = plan[o].left \ {f}
  BY CopyTypes DEF Copies!Plan
<1>6. plan' \in [Copies!Origins -> Copies!Plan]
  BY <1>1, <1>4, <1>5
<1>7. SoundPlans'
  <2>1. SUFFICES ASSUME NEW p \in Copies!Origins, plan'[p].sound PROVE Spared(plan[p].left)'
    BY DEF SoundPlans
  <2>2. p = o /\ plan[o].sound /\ plan'[p].left = plan[o].left \ {f}
    BY <1>1, <1>4, <1>5, <2>1
  <2>3. Spared(plan[o].left) /\ plan[o].left \subseteq Files
    BY <2>2, CopyTypes DEF CopyInv, SoundPlans, Copies!Plan
  <2>4. SUFFICES ASSUME NEW h \in plan[o].left, h # f, drive'[h].at = "here"
                 PROVE  \E g \in Files \ (plan[o].left \ {f}) :
                            drive'[g].at = "here" /\ drive'[g].content = drive'[h].content
    BY <2>2 DEF Spared, Copies!Live
  <2>5. drive[h].at = "here" /\ h \in Files
    BY <1>2, <2>3, <2>4
  <2>6. PICK g \in Files \ plan[o].left : drive[g].at = "here" /\ drive[g].content = drive[h].content
    BY <2>3, <2>4, <2>5 DEF Spared, Copies!Live
  <2>7. g # f
    BY <1>1, <2>6
  <2> QED BY <1>2, <2>5, <2>6, <2>7
<1>8. Copies!TypeOK'
  BY <1>1, <1>2, <1>3, <1>6, UnsoundIs, CopyTypes DEF Copies!TypeOK
<1> QED BY <1>1, <1>7, <1>8, UnsoundIs DEF CopyInv

\* A scan brings the row up to date, or deletes it with what refers to it.
LEMMA ScansFileHolds ==
    ASSUME CopyBounds, CopyInv, NEW f \in Files, Copies!ScansFile(f)
    PROVE  CopyInv'
<1> DEFINE here == Copies!Live(f)
           cut(o) == [plan[o] EXCEPT !.left = @ \ {f}]
           less(c) == [group[c] EXCEPT !.members = @ \ {f}, !.keep = IF @ = f THEN NoFile ELSE @]
<1>1. /\ row' = [row EXCEPT ![f] = [there |-> here, checksum |-> drive[f].content,
                                    trashed |-> FALSE, key |-> IF here THEN @.key ELSE NoKey]]
      /\ plan' = IF here THEN plan ELSE [o \in Copies!Origins |-> cut(o)]
      /\ group' = IF here THEN group ELSE [c \in Checksums |-> less(c)]
      /\ UNCHANGED <<drive, rec, reading, acts, runs>>
  BY DEF Copies!ScansFile
<1>2. row' \in [Files -> Copies!Row]
  <2>1. [there |-> here, checksum |-> drive[f].content, trashed |-> FALSE,
         key |-> IF here THEN row[f].key ELSE NoKey] \in Copies!Row
    BY CopyTypes DEF Copies!Row, Copies!InDrive, Copies!Live
  <2> QED BY <1>1, <2>1, CopyTypes
<1>3. \A o \in Copies!Origins : /\ cut(o) \in Copies!Plan /\ cut(o).sound = plan[o].sound
                                /\ cut(o).left = plan[o].left \ {f}
  BY CopyTypes DEF Copies!Plan
<1>4. \A c \in Checksums : /\ less(c) \in Copies!Group /\ less(c).sound = group[c].sound
                           /\ less(c).members = group[c].members \ {f}
                           /\ less(c).keep = IF group[c].keep = f THEN NoFile ELSE group[c].keep
  BY CopyTypes DEF Copies!Group
<1>5. /\ plan' \in [Copies!Origins -> Copies!Plan]
      /\ \A o \in Copies!Origins : plan'[o].sound = plan[o].sound /\ plan'[o].left \subseteq plan[o].left
  <2> HIDE DEF cut, less
  <2> QED BY <1>1, <1>3, CopyTypes
<1>6. /\ group' \in [Checksums -> Copies!Group]
      /\ \A c \in Checksums :
             /\ group'[c].sound = group[c].sound
             /\ group'[c].members \ {group'[c].keep} \subseteq group[c].members \ {group[c].keep}
  <2> HIDE DEF cut, less
  <2> QED BY <1>1, <1>4, CopyTypes
<1>7. SoundStores'
  <2>1. ASSUME NEW c \in Checksums, group'[c].sound
        PROVE  Spared(group[c].members \ {group[c].keep})'
    <3>1. PICK gs : gs = group'[c].members \ {group'[c].keep}
      OBVIOUS
    <3>2. /\ Spared(group[c].members \ {group[c].keep})
          /\ group[c].members \ {group[c].keep} \subseteq Files
      BY <1>6, <2>1, CopyTypes DEF CopyInv, SoundStores, Copies!Group
    <3>3. Spared(gs)
      BY <1>6, <3>1, <3>2, SparedFewer
    <3>4. Spared(gs)'
      BY <1>1, <3>3, SparedStays
    <3> QED BY <3>1, <3>4 DEF Spared
  <2>2. rec'.sound => Spared(rec.files)'
    BY <1>1 DEF CopyInv, SoundStores, Spared, Copies!Live
  <2> QED BY <2>1, <2>2 DEF SoundStores
<1>8. SoundPlans'
  BY <1>1, <1>5, PlansStay
<1>9. SoundReadings'
  BY <1>1, ReadingsStay
<1>10. Copies!TypeOK'
  BY <1>1, <1>2, <1>5, <1>6, CopyTypes DEF Copies!TypeOK
<1> QED BY <1>7, <1>8, <1>9, <1>10 DEF CopyInv

\* A job reads the sets of files that share a key, or a checksum.
LEMMA ReadsHolds ==
    ASSUME CopyBounds, CopyInv, NEW j \in Copies!Jobs, NEW of \in [Checksums -> SUBSET Files],
           NEW sound \in BOOLEAN, Copies!Reads(j, of, sound),
           sound => \A c \in Checksums : \A f \in of[c] : Copies!Live(f) /\ drive[f].content = c
    PROVE  CopyInv'
<1>1. /\ runs < MaxRuns /\ runs' = runs + 1
      /\ UNCHANGED <<drive, row, rec, group, plan, acts>>
  BY DEF Copies!Reads
<1>2. PICK ks \in Copies!Keeps(of) :
          reading' = [reading EXCEPT ![j] = [pc |-> "read", of |-> of, keep |-> ks, sound |-> sound]]
  BY DEF Copies!Reads
<1>3. PICK r : r = [pc |-> "read", of |-> of, keep |-> ks, sound |-> sound]
  OBVIOUS
<1>4. /\ ks \subseteq Files
      /\ \A c \in Checksums : of[c] # {} => \E k \in of[c] : k \in ks
  <2>1. ks \subseteq UNION {of[c] : c \in Checksums}
    BY DEF Copies!Keeps
  <2>2. ASSUME NEW c \in Checksums, of[c] # {} PROVE \E k \in of[c] : k \in ks
    <3>1. Copies!Cardinality(ks \cap of[c]) = 1
      BY <2>2 DEF Copies!Keeps
    <3>2. Copies!Cardinality(ks \cap of[c]) = Cardinality(ks \cap of[c])
      BY DEF Copies!Cardinality, Cardinality
    <3>3. ks \cap of[c] # {}
      BY <3>1, <3>2, FS_EmptySet
    <3> QED BY <3>3
  <2> QED BY <2>1, <2>2
<1>5. r \in Copies!Reading /\ ReadingMarks(r) /\ r.of = of /\ r.keep = ks /\ r.sound = sound
  BY <1>3, <1>4 DEF Copies!Reading, ReadingMarks
<1>6. /\ reading' \in [Copies!Jobs -> Copies!Reading]
      /\ \A k \in Copies!Jobs : reading'[k] = IF k = j THEN r ELSE reading[k]
  BY <1>2, <1>3, <1>5, CopyTypes
<1>7. sound => Spared(Copies!Redundant(r))
  <2>1. SUFFICES ASSUME sound, NEW f \in Copies!Redundant(r)
                 PROVE  \E g \in Files \ Copies!Redundant(r) :
                            Copies!Live(g) /\ drive[g].content = drive[f].content
    BY DEF Spared
  <2>2. PICK c \in Checksums : f \in of[c]
    BY <1>5, <2>1 DEF Copies!Redundant
  <2>3. PICK k \in of[c] : k \in ks
    BY <1>4, <2>2
  <2>4. k \in Files
    BY <1>4, <2>3
  <2>5. k \notin Copies!Redundant(r)
    BY <1>5, <2>3 DEF Copies!Redundant
  <2>6. drive[f].content = c
    BY <2>1, <2>2
  <2>7. Copies!Live(k) /\ drive[k].content = c
    BY <2>1, <2>3
  <2> QED BY <2>4, <2>5, <2>6, <2>7
<1>8. sound => \A c \in Checksums : of[c] # {} => Spared(of[c] \ {KeptOf(r, c)})
  <2>1. SUFFICES ASSUME sound, NEW c \in Checksums, of[c] # {},
                        NEW f \in of[c] \ {KeptOf(r, c)}
                 PROVE  \E g \in Files \ (of[c] \ {KeptOf(r, c)}) :
                            Copies!Live(g) /\ drive[g].content = drive[f].content
    BY DEF Spared
  <2>2. KeptOf(r, c) \in of[c] /\ KeptOf(r, c) \in Files
    BY <1>5, <2>1, Marked
  <2> QED BY <2>1, <2>2
<1>9. SoundReadings'
  <2>1. ASSUME NEW k \in Copies!Jobs PROVE ReadingMarks(reading[k])'
    BY <1>5, <1>6 DEF CopyInv, SoundReadings, ReadingMarks
  <2>2. "recommendation" \in Copies!Jobs /\ "analysis" \in Copies!Jobs
    BY DEF Copies!Jobs
  <2>3. reading'["recommendation"].sound => Spared(Copies!Redundant(reading["recommendation"]))'
    <3>1. CASE j = "recommendation"
      <4>1. reading'["recommendation"] = r
        BY <1>6, <2>2, <3>1
      <4> QED BY <1>1, <1>5, <1>7, <4>1 DEF Spared, Copies!Redundant, Copies!Live
    <3>2. CASE j # "recommendation"
      <4>1. reading'["recommendation"] = reading["recommendation"]
        BY <1>6, <2>2, <3>2
      <4> QED BY <1>1, <4>1 DEF CopyInv, SoundReadings, Spared, Copies!Redundant, Copies!Live
    <3> QED BY <3>1, <3>2
  <2>4. reading'["analysis"].sound => \A c \in Checksums : reading'["analysis"].of[c] # {} =>
            Spared(reading["analysis"].of[c] \ {KeptOf(reading["analysis"], c)})'
    <3>1. CASE j = "analysis"
      <4>1. reading'["analysis"] = r
        BY <1>6, <2>2, <3>1
      <4> QED BY <1>1, <1>5, <1>8, <4>1 DEF Spared, KeptOf, Copies!Live
    <3>2. CASE j # "analysis"
      <4>1. reading'["analysis"] = reading["analysis"]
        BY <1>6, <2>2, <3>2
      <4> QED BY <1>1, <4>1 DEF CopyInv, SoundReadings, Spared, KeptOf, Copies!Live
    <3> QED BY <3>1, <3>2
  <2> QED BY <2>1, <2>3, <2>4 DEF SoundReadings
<1>10. Copies!TypeOK'
  <2>1. runs' \in 0 .. MaxRuns
    BY <1>1, CopyTypes DEF CopyBounds
  <2> QED BY <1>1, <1>6, <2>1, CopyTypes DEF Copies!TypeOK
<1>11. SoundPlans'
  BY <1>1 DEF CopyInv, SoundPlans, Spared, Copies!Live
<1> QED BY <1>1, <1>9, <1>10, <1>11, StoresStay DEF CopyInv

\* The sets of files that share a key, or a checksum, and when they are true of Drive.
LEMMA SetsRead ==
    ASSUME CopyBounds
    PROVE  /\ [c \in Checksums |-> Copies!TwoOrMore(Copies!SameKey(c))] \in [Checksums -> SUBSET Files]
           /\ [c \in Checksums |-> Copies!TwoOrMore(Copies!SameChecksum(c))] \in [Checksums -> SUBSET Files]
           /\ Copies!KeysTrue \in BOOLEAN /\ Copies!ChecksumsTrue \in BOOLEAN
           /\ Copies!KeysTrue => \A c \in Checksums : \A f \in Copies!TwoOrMore(Copies!SameKey(c)) :
                  Copies!Live(f) /\ drive[f].content = c
           /\ Copies!ChecksumsTrue => \A c \in Checksums : \A f \in Copies!TwoOrMore(Copies!SameChecksum(c)) :
                  Copies!Live(f) /\ drive[f].content = c
<1>1. \A c \in Checksums : /\ Copies!TwoOrMore(Copies!SameKey(c)) \subseteq Copies!SameKey(c)
                           /\ Copies!TwoOrMore(Copies!SameChecksum(c)) \subseteq Copies!SameChecksum(c)
  BY DEF Copies!TwoOrMore
<1>2. \A c \in Checksums : Copies!SameKey(c) \subseteq Files /\ Copies!SameChecksum(c) \subseteq Files
  BY DEF Copies!SameKey, Copies!SameChecksum, Copies!Listed
<1>3. Copies!KeysTrue => \A c \in Checksums : \A f \in Copies!SameKey(c) :
                  Copies!Live(f) /\ drive[f].content = c
  BY DEF Copies!KeysTrue, Copies!SameKey, Copies!Listed, CopyBounds
<1>4. Copies!ChecksumsTrue => \A c \in Checksums : \A f \in Copies!SameChecksum(c) :
                  Copies!Live(f) /\ drive[f].content = c
  BY DEF Copies!ChecksumsTrue, Copies!SameChecksum, Copies!Listed
<1>5. Copies!KeysTrue \in BOOLEAN /\ Copies!ChecksumsTrue \in BOOLEAN
  BY DEF Copies!KeysTrue, Copies!ChecksumsTrue
<1> QED BY <1>1, <1>2, <1>3, <1>4, <1>5

\* Enrichment gives the files of a checksum their key.
LEMMA DiscoversHolds ==
    ASSUME CopyInv, Copies!DiscoversRelationships
    PROVE  CopyInv'
<1>1. /\ row' = [f \in Files |->
             IF f \in Copies!Listed /\ Copies!Cardinality(Copies!SameChecksum(row[f].checksum)) >= 2
             THEN [row[f] EXCEPT !.key = row[f].checksum] ELSE row[f]]
      /\ UNCHANGED <<drive, rec, group, reading, plan, acts, runs>>
  BY DEF Copies!DiscoversRelationships, Copies!derivedVars
<1>2. \A f \in Files : row[f] \in Copies!Row /\ [row[f] EXCEPT !.key = row[f].checksum] \in Copies!Row
  BY CopyTypes DEF Copies!Row
<1>3. row' \in [Files -> Copies!Row]
  BY <1>1, <1>2
<1>4. Copies!TypeOK'
  BY <1>1, <1>3, CopyTypes DEF Copies!TypeOK
<1>5. SoundPlans'
  BY <1>1 DEF CopyInv, SoundPlans, Spared, Copies!Live
<1> QED BY <1>1, <1>4, <1>5, ReadingsStay, StoresStay DEF CopyInv

\* The recommendation job reads the sets that share a key.
LEMMA RulesReadHolds ==
    ASSUME CopyBounds, CopyInv, Copies!ReadsForRules
    PROVE  CopyInv'
<1>1. PICK of : of = [c \in Checksums |-> Copies!TwoOrMore(Copies!SameKey(c))]
  OBVIOUS
<1>2. Copies!Reads("recommendation", of, Copies!KeysTrue)
  BY <1>1 DEF Copies!ReadsForRules
<1>3. of \in [Checksums -> SUBSET Files]
  BY <1>1, SetsRead
<1>4. Copies!KeysTrue => \A c \in Checksums : \A f \in of[c] :
          Copies!Live(f) /\ drive[f].content = c
  BY <1>1, SetsRead
<1>5. "recommendation" \in Copies!Jobs /\ Copies!KeysTrue \in BOOLEAN
  BY SetsRead DEF Copies!Jobs
<1> QED BY <1>2, <1>3, <1>4, <1>5, ReadsHolds

\* The storage analysis reads the sets that share a checksum.
LEMMA AnalysisReadHolds ==
    ASSUME CopyBounds, CopyInv, Copies!ReadsForAnalysis
    PROVE  CopyInv'
<1>1. PICK of : of = [c \in Checksums |-> Copies!TwoOrMore(Copies!SameChecksum(c))]
  OBVIOUS
<1>2. Copies!Reads("analysis", of, Copies!ChecksumsTrue)
  BY <1>1 DEF Copies!ReadsForAnalysis
<1>3. of \in [Checksums -> SUBSET Files]
  BY <1>1, SetsRead
<1>4. Copies!ChecksumsTrue => \A c \in Checksums : \A f \in of[c] :
          Copies!Live(f) /\ drive[f].content = c
  BY <1>1, SetsRead
<1>5. "analysis" \in Copies!Jobs /\ Copies!ChecksumsTrue \in BOOLEAN
  BY SetsRead DEF Copies!Jobs
<1> QED BY <1>2, <1>3, <1>4, <1>5, ReadsHolds

\* A recommendation is stored, refreshed or resolved.
LEMMA RecommendsHolds ==
    ASSUME CopyInv, Copies!StoresRecommendation
    PROVE  CopyInv'
<1>0. "recommendation" \in Copies!Jobs
  BY DEF Copies!Jobs
<1>1. /\ reading' = [reading EXCEPT !["recommendation"] = Copies!NoReading]
      /\ UNCHANGED <<drive, row, group, plan, acts, runs>>
      /\ \/ rec' = [status |-> "active", files |-> Copies!Redundant(reading["recommendation"]),
                    sound |-> reading["recommendation"].sound]
         \/ rec' = [rec EXCEPT !.status = IF @ = "active" THEN "resolved" ELSE @]
  BY DEF Copies!StoresRecommendation
<1>2. Copies!Redundant(reading["recommendation"]) \subseteq Files
  BY <1>0, CopyTypes DEF Copies!Redundant, Copies!Reading
<1>3. reading["recommendation"].sound \in BOOLEAN
  BY <1>0, CopyTypes DEF Copies!Reading
<1>4. rec' \in Copies!Recommendation
  BY <1>1, <1>2, <1>3, CopyTypes DEF Copies!Recommendation
<1>5. rec'.sound => Spared(rec'.files)
  <2>1. CASE rec' = [status |-> "active", files |-> Copies!Redundant(reading["recommendation"]),
                     sound |-> reading["recommendation"].sound]
    <3>1. /\ rec'.files = Copies!Redundant(reading["recommendation"])
          /\ rec'.sound = reading["recommendation"].sound
      BY <2>1
    <3> QED BY <3>1 DEF CopyInv, SoundReadings, Spared
  <2>2. CASE rec' = [rec EXCEPT !.status = IF @ = "active" THEN "resolved" ELSE @]
    <3>1. rec'.files = rec.files /\ rec'.sound = rec.sound
      BY <2>2, CopyTypes DEF Copies!Recommendation
    <3> QED BY <3>1 DEF CopyInv, SoundStores, Spared
  <2> QED BY <1>1, <2>1, <2>2
<1>6. SoundStores'
  <2>1. PICK fs : fs = rec'.files
    OBVIOUS
  <2>2. rec'.sound => Spared(rec.files)'
    BY <1>1, <1>5 DEF Spared, Copies!Live
  <2>3. \A c \in Checksums : group'[c].sound => Spared(group[c].members \ {group[c].keep})'
    BY <1>1 DEF CopyInv, SoundStores, Spared, Copies!Live
  <2> QED BY <2>2, <2>3 DEF SoundStores
<1>7. SoundReadings' /\ reading' \in [Copies!Jobs -> Copies!Reading]
  BY <1>0, <1>1, ReadingDropped
<1>8. Copies!TypeOK'
  BY <1>1, <1>4, <1>7, CopyTypes DEF Copies!TypeOK
<1>9. SoundPlans'
  BY <1>1 DEF CopyInv, SoundPlans, Spared, Copies!Live
<1> QED BY <1>6, <1>7, <1>8, <1>9 DEF CopyInv

\* The groups are stored, and those that were not seen deleted with their plans.
LEMMA GroupsHold ==
    ASSUME CopyBounds, CopyInv, Copies!StoresGroups
    PROVE  CopyInv'
<1>0. "analysis" \in Copies!Jobs
  BY DEF Copies!Jobs
<1>1. /\ group' = [c \in Checksums |-> Copies!GroupAfter(c)]
      /\ plan' = [o \in Copies!Origins |->
             IF o \in Checksums /\ reading["analysis"].of[o] = {} THEN Copies!NoPlan ELSE plan[o]]
      /\ reading' = [reading EXCEPT !["analysis"] = Copies!NoReading]
      /\ UNCHANGED <<drive, row, rec, acts, runs>>
  BY DEF Copies!StoresGroups
<1>2. PICK r : r = reading["analysis"]
  OBVIOUS
<1>3. /\ r \in Copies!Reading /\ ReadingMarks(r)
      /\ r.sound => \A c \in Checksums : r.of[c] # {} => Spared(r.of[c] \ {KeptOf(r, c)})
  BY <1>0, <1>2, CopyTypes DEF CopyInv, SoundReadings
<1>4. ASSUME NEW c \in Checksums
      PROVE  /\ Copies!GroupAfter(c) \in Copies!Group
             /\ Copies!GroupAfter(c).sound =>
                    Spared(Copies!GroupAfter(c).members \ {Copies!GroupAfter(c).keep})
  <2>1. CASE r.of[c] = {}
    <3>1. Copies!GroupAfter(c) = Copies!NoGroup
      BY <1>2, <2>1 DEF Copies!GroupAfter
    <3>2. Copies!NoGroup \in Copies!Group /\ ~ Copies!NoGroup.sound
      BY DEF Copies!NoGroup, Copies!Group
    <3> QED BY <3>1, <3>2
  <2>2. CASE r.of[c] # {}
    <3>1. Copies!GroupAfter(c) = [members |-> r.of[c], keep |-> KeptOf(r, c), sound |-> r.sound]
      BY <1>2, <2>2 DEF Copies!GroupAfter, KeptOf
    <3>2. KeptOf(r, c) \in Files
      BY <1>3, <2>2, Marked
    <3>3. r.of[c] \in SUBSET Files /\ r.sound \in BOOLEAN
      BY <1>3 DEF Copies!Reading
    <3>4. Copies!GroupAfter(c) \in Copies!Group
      BY <3>1, <3>2, <3>3 DEF Copies!Group
    <3> QED BY <1>3, <2>2, <3>1, <3>4
  <2> QED BY <2>1, <2>2
<1>5. group' \in [Checksums -> Copies!Group]
  BY <1>1, <1>4
<1>6. Copies!NoPlan \in Copies!Plan /\ ~ Copies!NoPlan.sound
  BY DEF Copies!NoPlan, Copies!Plan
<1>7. plan' \in [Copies!Origins -> Copies!Plan]
  BY <1>1, <1>6, CopyTypes
<1>8. SoundPlans'
  <2>1. ASSUME NEW o \in Copies!Origins, plan'[o].sound PROVE plan'[o] = plan[o]
    BY <1>1, <1>6, <2>1
  <2> QED BY <1>1, <2>1, PlansStay
<1>9. SoundStores'
  <2>1. ASSUME NEW c \in Checksums, group'[c].sound
        PROVE  Spared(group[c].members \ {group[c].keep})'
    <3>1. group'[c] = Copies!GroupAfter(c)
      BY <1>1
    <3>2. Spared(group'[c].members \ {group'[c].keep})
      BY <1>4, <2>1, <3>1
    <3> QED BY <1>1, <3>2 DEF Spared, Copies!Live
  <2>2. rec'.sound => Spared(rec.files)'
    BY <1>1 DEF CopyInv, SoundStores, Spared, Copies!Live
  <2> QED BY <2>1, <2>2 DEF SoundStores
<1>10. SoundReadings' /\ reading' \in [Copies!Jobs -> Copies!Reading]
  BY <1>0, <1>1, ReadingDropped
<1>11. Copies!TypeOK'
  BY <1>1, <1>5, <1>7, <1>10, CopyTypes DEF Copies!TypeOK
<1> QED BY <1>8, <1>9, <1>10, <1>11 DEF CopyInv

\* A job throws away what it has read.
LEMMA JobFailsHolds ==
    ASSUME CopyInv, NEW j \in Copies!Jobs, Copies!JobFails(j)
    PROVE  CopyInv'
<1>1. /\ reading' = [reading EXCEPT ![j] = Copies!NoReading]
      /\ UNCHANGED <<drive, row, rec, group, plan, acts, runs>>
  BY DEF Copies!JobFails
<1>2. SoundReadings' /\ reading' \in [Copies!Jobs -> Copies!Reading]
  BY <1>1, ReadingDropped
<1>3. Copies!TypeOK'
  BY <1>1, <1>2, CopyTypes DEF Copies!TypeOK
<1>4. SoundPlans'
  BY <1>1 DEF CopyInv, SoundPlans, Spared, Copies!Live
<1> QED BY <1>1, <1>2, <1>3, <1>4, StoresStay DEF CopyInv

\* Only the plans change: each sound one is new and spares a copy, or has less left.
LEMMA PlansMove ==
    ASSUME CopyInv, plan' \in [Copies!Origins -> Copies!Plan],
           UNCHANGED <<drive, row, rec, group, reading, acts, runs>>,
           \A o \in Copies!Origins :
               plan'[o].sound => \/ Spared(plan'[o].left)
                                 \/ plan[o].sound /\ plan'[o].left \subseteq plan[o].left
    PROVE  CopyInv'
<1>1. Copies!TypeOK'
  BY CopyTypes DEF Copies!TypeOK
<1>2. SoundPlans'
  <2>1. UNCHANGED drive
    OBVIOUS
  <2> QED BY <2>1, PlansStay
<1> QED BY <1>1, <1>2, ReadingsStay, StoresStay DEF CopyInv

\* A plan is made, of files that spare a copy if its source does.
LEMMA CreatesHolds ==
    ASSUME CopyInv, NEW o \in Copies!Origins, NEW fs \in SUBSET Files, NEW sound \in BOOLEAN,
           sound => Spared(fs), Copies!Creates(o, fs, sound)
    PROVE  CopyInv'
<1>1. /\ plan' = [plan EXCEPT ![o] = [pc |-> "pending", left |-> fs, sound |-> sound]]
      /\ UNCHANGED <<drive, row, rec, group, reading, acts, runs>>
  BY DEF Copies!Creates, Copies!derivedVars
<1>2. PICK p : p = [pc |-> "pending", left |-> fs, sound |-> sound]
  OBVIOUS
<1>3. p \in Copies!Plan /\ p.left = fs /\ p.sound = sound
  BY <1>2 DEF Copies!Plan
<1>4. /\ plan' \in [Copies!Origins -> Copies!Plan]
      /\ \A q \in Copies!Origins : plan'[q] = IF q = o THEN p ELSE plan[q]
  BY <1>1, <1>2, <1>3, CopyTypes
<1>5. \A q \in Copies!Origins :
          plan'[q].sound => \/ Spared(plan'[q].left)
                            \/ plan[q].sound /\ plan'[q].left \subseteq plan[q].left
  BY <1>3, <1>4
<1> QED BY <1>1, <1>4, <1>5, PlansMove

\* A plan of the recommendation: of its files, those that still have a row.
LEMMA CreatesPlanHolds ==
    ASSUME CopyInv, Copies!CreatesPlan
    PROVE  CopyInv'
<1>1. PICK fs : fs = {f \in rec.files : row[f].there}
  OBVIOUS
<1>2. Copies!Creates("recommendation", fs, rec.sound)
  BY <1>1 DEF Copies!CreatesPlan
<1>3. "recommendation" \in Copies!Origins /\ rec.sound \in BOOLEAN /\ rec.files \in SUBSET Files
  BY CopyTypes DEF Copies!Origins, Copies!Recommendation
<1>4. fs \in SUBSET rec.files /\ fs \in SUBSET Files
  BY <1>1, <1>3
<1>5. rec.sound => Spared(fs)
  BY <1>3, <1>4, SparedFewer DEF CopyInv, SoundStores
<1> QED BY <1>2, <1>3, <1>4, <1>5, CreatesHolds

\* A plan of a group: its members but the copy to keep.
LEMMA GroupPlanHolds ==
    ASSUME CopyInv, NEW c \in Checksums, Copies!CreatesPlanFromGroup(c)
    PROVE  CopyInv'
<1>1. PICK fs : fs = group[c].members \ {group[c].keep}
  OBVIOUS
<1>2. Copies!Creates(c, fs, group[c].sound)
  BY <1>1 DEF Copies!CreatesPlanFromGroup
<1>3. c \in Copies!Origins /\ group[c].sound \in BOOLEAN /\ group[c].members \in SUBSET Files
  BY CopyTypes DEF Copies!Origins, Copies!Group
<1>4. fs \in SUBSET Files
  BY <1>1, <1>3
<1>5. group[c].sound => Spared(fs)
  BY <1>1 DEF CopyInv, SoundStores
<1> QED BY <1>2, <1>3, <1>4, <1>5, CreatesHolds

\* A decision, a step that fails, and the end of a plan.
LEMMA PlanGoesOn ==
    ASSUME CopyInv, NEW o \in Copies!Origins,
           \/ Copies!Decides(o)
           \/ \E f \in Files : Copies!StepFails(o, f)
           \/ Copies!Ends(o)
    PROVE  CopyInv'
<1>1. UNCHANGED <<drive, row, rec, group, reading, acts, runs>>
  BY DEF Copies!Decides, Copies!StepFails, Copies!Ends, Copies!derivedVars
<1>2. PICK p : /\ plan' = [plan EXCEPT ![o] = p]
               /\ \/ p = [plan[o] EXCEPT !.pc = "executing"]
                  \/ p = Copies!NoPlan
                  \/ \E f \in Files : p = [plan[o] EXCEPT !.left = @ \ {f}]
  BY CopyTypes DEF Copies!Decides, Copies!StepFails, Copies!Ends
<1>3. p \in Copies!Plan /\ (p.sound => plan[o].sound /\ p.left \subseteq plan[o].left)
  <2>1. plan[o] \in Copies!Plan
    BY CopyTypes
  <2>2. CASE p = [plan[o] EXCEPT !.pc = "executing"]
    BY <2>1, <2>2 DEF Copies!Plan
  <2>3. CASE p = Copies!NoPlan
    BY <2>3 DEF Copies!Plan, Copies!NoPlan
  <2>4. CASE \E f \in Files : p = [plan[o] EXCEPT !.left = @ \ {f}]
    BY <2>1, <2>4 DEF Copies!Plan
  <2> QED BY <1>2, <2>2, <2>3, <2>4
<1>4. /\ plan' \in [Copies!Origins -> Copies!Plan]
      /\ \A q \in Copies!Origins : plan'[q] = IF q = o THEN p ELSE plan[q]
  BY <1>2, <1>3, CopyTypes
<1>5. \A q \in Copies!Origins :
          plan'[q].sound => \/ Spared(plan'[q].left)
                            \/ plan[q].sound /\ plan'[q].left \subseteq plan[q].left
  BY <1>3, <1>4
<1> QED BY <1>1, <1>4, <1>5, PlansMove

\* Every step keeps the invariant.
LEMMA CopyStep ==
    ASSUME CopyBounds, CopyInv, [Copies!Next]_(Copies!vars)
    PROVE  CopyInv'
<1>1. CASE UNCHANGED Copies!vars
  <2>1. UNCHANGED <<drive, row, rec, group, reading, plan, acts, runs>>
    BY <1>1 DEF Copies!vars, Copies!derivedVars
  <2>2. \A o \in Copies!Origins : plan'[o].sound =>
            plan[o].sound /\ plan'[o].left \subseteq plan[o].left
    BY <2>1
  <2>3. plan' \in [Copies!Origins -> Copies!Plan]
    BY <2>1, CopyTypes
  <2> QED BY <2>1, <2>2, <2>3, PlansMove
<1>2. ASSUME NEW f \in Files, Copies!UserActs(f) \/ Copies!ScansFile(f) PROVE CopyInv'
  BY <1>2, UserActsHolds, ScansFileHolds
<1>3. CASE \/ Copies!DiscoversRelationships \/ Copies!ReadsForRules \/ Copies!ReadsForAnalysis
           \/ Copies!StoresRecommendation \/ Copies!StoresGroups \/ Copies!CreatesPlan
  BY <1>3, DiscoversHolds, RulesReadHolds, AnalysisReadHolds, RecommendsHolds, GroupsHold,
     CreatesPlanHolds
<1>4. ASSUME NEW j \in Copies!Jobs, Copies!JobFails(j) PROVE CopyInv'
  BY <1>4, JobFailsHolds
<1>5. ASSUME NEW c \in Checksums, Copies!CreatesPlanFromGroup(c) PROVE CopyInv'
  BY <1>5, GroupPlanHolds
<1>6. ASSUME NEW o \in Copies!Origins, Copies!Decides(o) \/ Copies!Ends(o) PROVE CopyInv'
  BY <1>6, PlanGoesOn
<1>7. ASSUME NEW o \in Copies!Origins, NEW f \in Files, Copies!Trashes(o, f) \/ Copies!StepFails(o, f)
      PROVE  CopyInv'
  BY <1>7, TrashesHolds, PlanGoesOn
<1> QED BY <1>1, <1>2, <1>3, <1>4, <1>5, <1>6, <1>7 DEF Copies!Next

\* Files that nothing was derived from satisfy it.
LEMMA CopyInit ==
    ASSUME CopyBounds, Copies!Init
    PROVE  CopyInv
<1>1. PICK k \in Checksums : drive = [f \in Files |-> [content |-> k, at |-> "here"]]
  BY DEF Copies!Init
<1>2. /\ row = [f \in Files |-> [there |-> TRUE, checksum |-> drive[f].content, trashed |-> FALSE,
                                 key |-> NoKey]]
      /\ rec = [status |-> "none", files |-> {}, sound |-> FALSE]
      /\ group = [c \in Checksums |-> Copies!NoGroup]
      /\ reading = [j \in Copies!Jobs |-> Copies!NoReading]
      /\ plan = [o \in Copies!Origins |-> Copies!NoPlan] /\ acts = 0 /\ runs = 0
  BY DEF Copies!Init
<1>3. drive \in [Files -> Copies!InDrive] /\ \A f \in Files : drive[f].content = k
  BY <1>1 DEF Copies!InDrive
<1>4. row \in [Files -> Copies!Row]
  BY <1>2, <1>3 DEF Copies!Row
<1>5. rec \in Copies!Recommendation /\ ~ rec.sound
  BY <1>2 DEF Copies!Recommendation
<1>6. Copies!NoGroup \in Copies!Group /\ ~ Copies!NoGroup.sound
  BY DEF Copies!NoGroup, Copies!Group
<1>7. Copies!NoPlan \in Copies!Plan /\ ~ Copies!NoPlan.sound
  BY DEF Copies!NoPlan, Copies!Plan
<1>8. acts \in 0 .. MaxActs /\ runs \in 0 .. MaxRuns
  BY <1>2 DEF CopyBounds
<1>9. Copies!TypeOK
  BY <1>2, <1>3, <1>4, <1>5, <1>6, <1>7, <1>8, NoReadingIs DEF Copies!TypeOK
<1>10. SoundReadings
  BY <1>2, NoReadingIs DEF SoundReadings, Copies!Jobs
<1>11. SoundStores /\ SoundPlans
  BY <1>2, <1>5, <1>6, <1>7 DEF SoundStores, SoundPlans
<1> QED BY <1>9, <1>10, <1>11 DEF CopyInv

\* What a sound plan trashes has another copy.
LEMMA CopyImplies ==
    ASSUME CopyInv
    PROVE  Copies!SpareOne
<1> SUFFICES ASSUME NEW o \in Copies!Origins, NEW f \in Files, Copies!TrashedBy(o, f), plan[o].sound
             PROVE  Copies!OtherCopy(f)
  BY DEF Copies!SpareOne
<1>1. Spared(plan[o].left) /\ f \in plan[o].left /\ Copies!Live(f)
  BY DEF CopyInv, SoundPlans, Copies!TrashedBy
<1> QED BY <1>1 DEF Spared, Copies!OtherCopy

(***************************************************************************)
(* A plan whose source was true of Drive when it was read, and in whose way *)
(* nobody has come since, leaves a copy of every file it trashes, whichever *)
(* of the two derivations it comes from and however late it is carried out. *)
(***************************************************************************)
THEOREM SpareOneHolds ==
    ASSUME CopyBounds
    PROVE  Copies!Spec => [][Copies!SpareOne]_(Copies!vars)
<1>1. Copies!Init => CopyInv
  BY CopyInit
<1>2. CopyInv /\ [Copies!Next]_(Copies!vars) => CopyInv'
  BY CopyStep
<1>3. CopyInv /\ [Copies!Next]_(Copies!vars) => [Copies!SpareOne]_(Copies!vars)
  BY CopyImplies
<1> QED BY <1>1, <1>2, <1>3, PTL DEF Copies!Spec
-----------------------------------------------------------------------------
(* The parts together *)

(***************************************************************************)
(* The archives, the passes, the jobs and the sweeps are proved of modules    *)
(* of their own, which are taken here with the constants MCPlatform gives      *)
(* them: what such an instance defines is what MCPlatform's defines.           *)
(***************************************************************************)
ArchiveP  == INSTANCE ArchivesProofs
PassP     == INSTANCE FilePassesProofs WITH Files <- {f1}, Overlap <- FALSE
ChainP    == INSTANCE JobPipelineProofs WITH
    caller <- starter, unsent <- lost, Workers <- {w1}, Asks <- {{"scan"}}
PipelineP == INSTANCE JobPipelineProofs WITH
    caller <- starter, unsent <- lost, Workers <- {w1, w2},
    Asks <- {{"enrichment"}, {"embedding", "recommendation"}, {"intelligence"}, {"analysis"}}
SweeperP  == INSTANCE SchedulerProofs WITH
    Callers <- {}, Workflows <- {wf1, wf2}, WorkflowOf <- OneEach,
    FireFaults <- FALSE, PublishFaults <- FALSE, MaxToggles <- 2, MaxCrashes <- 1

\* The archives of MCPlatform are those that ArchivesProofs speaks of.
LEMMA SameArchives ==
    /\ Archive!Init <=> ArchiveP!Init
    /\ Archive!Next <=> ArchiveP!Next
    /\ UNCHANGED Archive!vars <=> UNCHANGED ArchiveP!vars
    /\ Archive!TypeOK <=> ArchiveP!TypeOK
    /\ Archive!ManifestTrue <=> ArchiveP!ManifestTrue
    /\ Archive!DeletedIsGone <=> ArchiveP!DeletedIsGone
    /\ Archive!LostOnlyIfDropped <=> ArchiveP!LostOnlyIfDropped
BY DEF Archive!Init, Archive!Archives, Archive!NoArchive, Archive!At, Archive!NoDeletion,
       Archive!Next, Archive!EngineTrashes, Archive!EngineRestores, Archive!UserTakes,
       Archive!ChecksFile, Archive!DeletesFile, Archive!RecordsDeletion, Archive!StepFails,
       Archive!StartsBatch, Archive!StoresObject, Archive!CompletesBatch, Archive!FailsBatch,
       Archive!OrdersRollback, Archive!RollsBack, Archive!CommitsRollback, Archive!RollbackFails,
       Archive!EndsRollback, Archive!DeletesObject, Archive!MarksDeleted, Archive!WorkerDies,
       Archive!RequestDies, Archive!Fetches, Archive!Orders, Archive!PlansDeletion, Archive!Decides,
       Archive!EndsDeletion, Archive!DeletionDies, Archive!batchVars, Archive!Steps, Archive!Manifest,
       Archive!Verdict, Archive!Eligible, Archive!Completed, Archive!vars, Archive!TypeOK,
       Archive!Places, Archive!Archive, Archive!Work, Archive!Deletion, Archive!Statuses,
       Archive!ManifestTrue, Archive!DeletedIsGone, Archive!LostOnlyIfDropped, Archive!Deleted,
       Archive!BackedUp, ArchiveP!Init, ArchiveP!Archives, ArchiveP!NoArchive, ArchiveP!At,
       ArchiveP!NoDeletion, ArchiveP!Next, ArchiveP!EngineTrashes, ArchiveP!EngineRestores,
       ArchiveP!UserTakes, ArchiveP!ChecksFile, ArchiveP!DeletesFile, ArchiveP!RecordsDeletion,
       ArchiveP!StepFails, ArchiveP!StartsBatch, ArchiveP!StoresObject, ArchiveP!CompletesBatch,
       ArchiveP!FailsBatch, ArchiveP!OrdersRollback, ArchiveP!RollsBack, ArchiveP!CommitsRollback,
       ArchiveP!RollbackFails, ArchiveP!EndsRollback, ArchiveP!DeletesObject, ArchiveP!MarksDeleted,
       ArchiveP!WorkerDies, ArchiveP!RequestDies, ArchiveP!Fetches, ArchiveP!Orders,
       ArchiveP!PlansDeletion, ArchiveP!Decides, ArchiveP!EndsDeletion, ArchiveP!DeletionDies,
       ArchiveP!batchVars, ArchiveP!Steps, ArchiveP!Manifest, ArchiveP!Verdict, ArchiveP!Eligible,
       ArchiveP!Completed, ArchiveP!vars, ArchiveP!TypeOK, ArchiveP!Places, ArchiveP!Archive,
       ArchiveP!Work, ArchiveP!Deletion, ArchiveP!Statuses, ArchiveP!ManifestTrue,
       ArchiveP!DeletedIsGone, ArchiveP!LostOnlyIfDropped, ArchiveP!Deleted, ArchiveP!BackedUp

\* The passes of MCPlatform are those that FilePassesProofs speaks of.
LEMMA SamePasses ==
    /\ Pass!Init <=> PassP!Init
    /\ Pass!Next <=> PassP!Next
    /\ UNCHANGED Pass!vars <=> UNCHANGED PassP!vars
    /\ Pass!DerivedOrPending <=> PassP!DerivedOrPending
BY DEF Pass!Init, Pass!NoMirror, Pass!NoExtracted, Pass!NoDerived, Pass!Passes, Pass!Idle, Pass!Next,
       Pass!Edits, Pass!Ingests, Pass!Removes, Pass!Upgrades, Pass!Begins, Pass!FindsNoRow,
       Pass!FileFails, Pass!EndsOrAborts, Pass!ReadsText, Pass!Takes, Pass!Extracts, Pass!Stamps,
       Pass!EnrichFile, Pass!EmbedFile, Pass!AnalyzeFile, Pass!derivedVars, Pass!MayScan, Pass!HasRow,
       Pass!MayBegin, Pass!AtList, Pass!Pending, Pass!Goes, Pass!ExtractionUpsert,
       Pass!AlreadyEmbedded, Pass!EmbeddingUpsert, Pass!IntelligenceUpsert, Pass!PendingEnrichment,
       Pass!PendingEmbedding, Pass!PendingIntelligence, Pass!Text, Pass!vars, Pass!DerivedOrPending,
       Pass!TypeOK, Pass!EnrichedOrPending, Pass!EmbeddedOrPending, Pass!AnalysedOrPending,
       Pass!Versions, Pass!Mirror, Pass!Extracted, Pass!Derived, Pass!Models, Pass!Times, Pass!Pass,
       PassP!Init, PassP!NoMirror, PassP!NoExtracted, PassP!NoDerived, PassP!Passes, PassP!Idle,
       PassP!Next, PassP!Edits, PassP!Ingests, PassP!Removes, PassP!Upgrades, PassP!Begins,
       PassP!FindsNoRow, PassP!FileFails, PassP!EndsOrAborts, PassP!ReadsText, PassP!Takes,
       PassP!Extracts, PassP!Stamps, PassP!EnrichFile, PassP!EmbedFile, PassP!AnalyzeFile,
       PassP!derivedVars, PassP!MayScan, PassP!HasRow, PassP!MayBegin, PassP!AtList, PassP!Pending,
       PassP!Goes, PassP!ExtractionUpsert, PassP!AlreadyEmbedded, PassP!EmbeddingUpsert,
       PassP!IntelligenceUpsert, PassP!PendingEnrichment, PassP!PendingEmbedding,
       PassP!PendingIntelligence, PassP!Text, PassP!vars, PassP!DerivedOrPending, PassP!TypeOK,
       PassP!EnrichedOrPending, PassP!EmbeddedOrPending, PassP!AnalysedOrPending, PassP!Versions,
       PassP!Mirror, PassP!Extracted, PassP!Derived, PassP!Models, PassP!Times, PassP!Pass

\* The chain of jobs of MCPlatform is the one that JobPipelineProofs speaks of, with one
\* worker.
LEMMA SameChain ==
    /\ Chain!Init <=> ChainP!Init
    /\ Chain!Next <=> ChainP!Next
    /\ UNCHANGED Chain!vars <=> UNCHANGED ChainP!vars
    /\ Chain!JobsKept <=> ChainP!JobsKept
    /\ Chain!CancelIsFinal <=> ChainP!CancelIsFinal
BY DEF Chain!Init, Chain!Jobs, Chain!Resting, Chain!Waiting, Chain!NoJob, Chain!Next, Chain!Starts,
       Chain!Inserts, Chain!Enqueues, Chain!EnqueueFails, Chain!Cancels, Chain!Reconnects,
       Chain!Takes, Chain!Runs, Chain!LosesDependency, Chain!TaskStep, Chain!SendFails, Chain!Dies,
       Chain!Redelivers, Chain!Full, Chain!StartScan, Chain!StartEnrichment, Chain!StartEmbedding,
       Chain!StartIntelligence, Chain!TriggerRecommendations, Chain!TriggerAnalysis, Chain!sendVars,
       Chain!boundVars, Chain!Creates, Chain!ConnectorKinds, Chain!Active, Chain!TakesMessage,
       Chain!ScanRun, Chain!EnrichmentRun, Chain!EmbeddingRun, Chain!IntelligenceRun,
       Chain!RecommendationRun, Chain!AnalysisRun, Chain!ScanTask, Chain!EnrichmentTask,
       Chain!IntelligenceTask, Chain!HandsOn, Chain!CreatesSuccessor, Chain!SendsSuccessor,
       Chain!Acks, Chain!MessageOf, Chain!StartsConnectorJob, Chain!StartsOrganizationJob,
       Chain!MarksRunning, Chain!After, Chain!Kind, Chain!FindsNoCancel, Chain!FindsCancel,
       Chain!Completes, Chain!Fails, Chain!NeedsReauth, Chain!NoProvider, Chain!RetriesOrFails,
       Chain!HasActiveJob, Chain!Marked, Chain!AfterScan, Chain!AfterEnrichment, Chain!AfterEmbedding,
       Chain!Returns, Chain!vars, Chain!JobsKept, Chain!TypeOK, Chain!NoOrphan, Chain!HandOff,
       Chain!JobRow, Chain!Message, Chain!Worker, Chain!Caller, Chain!Kinds, Chain!Held,
       Chain!BeingSent, Chain!ScanStatus, Chain!EnrichmentStatus, Chain!EmbeddingStatus,
       Chain!IntelligenceStatus, Chain!RecommendationStatus, Chain!AnalysisStatus,
       Chain!OrganizationKinds, Chain!CancelIsFinal, Chain!Cancelled, ChainP!Init, ChainP!Jobs,
       ChainP!Resting, ChainP!Waiting, ChainP!NoJob, ChainP!Next, ChainP!Starts, ChainP!Inserts,
       ChainP!Enqueues, ChainP!EnqueueFails, ChainP!Cancels, ChainP!Reconnects, ChainP!Takes,
       ChainP!Runs, ChainP!LosesDependency, ChainP!TaskStep, ChainP!SendFails, ChainP!Dies,
       ChainP!Redelivers, ChainP!Full, ChainP!StartScan, ChainP!StartEnrichment,
       ChainP!StartEmbedding, ChainP!StartIntelligence, ChainP!TriggerRecommendations,
       ChainP!TriggerAnalysis, ChainP!sendVars, ChainP!boundVars, ChainP!Creates,
       ChainP!ConnectorKinds, ChainP!Active, ChainP!TakesMessage, ChainP!ScanRun,
       ChainP!EnrichmentRun, ChainP!EmbeddingRun, ChainP!IntelligenceRun, ChainP!RecommendationRun,
       ChainP!AnalysisRun, ChainP!ScanTask, ChainP!EnrichmentTask, ChainP!IntelligenceTask,
       ChainP!HandsOn, ChainP!CreatesSuccessor, ChainP!SendsSuccessor, ChainP!Acks, ChainP!MessageOf,
       ChainP!StartsConnectorJob, ChainP!StartsOrganizationJob, ChainP!MarksRunning, ChainP!After,
       ChainP!Kind, ChainP!FindsNoCancel, ChainP!FindsCancel, ChainP!Completes, ChainP!Fails,
       ChainP!NeedsReauth, ChainP!NoProvider, ChainP!RetriesOrFails, ChainP!HasActiveJob,
       ChainP!Marked, ChainP!AfterScan, ChainP!AfterEnrichment, ChainP!AfterEmbedding, ChainP!Returns,
       ChainP!vars, ChainP!JobsKept, ChainP!TypeOK, ChainP!NoOrphan, ChainP!HandOff, ChainP!JobRow,
       ChainP!Message, ChainP!Worker, ChainP!Caller, ChainP!Kinds, ChainP!Held, ChainP!BeingSent,
       ChainP!ScanStatus, ChainP!EnrichmentStatus, ChainP!EmbeddingStatus, ChainP!IntelligenceStatus,
       ChainP!RecommendationStatus, ChainP!AnalysisStatus, ChainP!OrganizationKinds,
       ChainP!CancelIsFinal, ChainP!Cancelled

\* The jobs behind a scan are those that JobPipelineProofs speaks of, with two workers.
LEMMA SameJobs ==
    /\ Pipeline!Init <=> PipelineP!Init
    /\ Pipeline!Next <=> PipelineP!Next
    /\ UNCHANGED Pipeline!vars <=> UNCHANGED PipelineP!vars
    /\ Pipeline!JobsKept <=> PipelineP!JobsKept
    /\ Pipeline!CancelIsFinal <=> PipelineP!CancelIsFinal
BY DEF Pipeline!Init, Pipeline!Jobs, Pipeline!Resting, Pipeline!Waiting, Pipeline!NoJob,
       Pipeline!Next, Pipeline!Starts, Pipeline!Inserts, Pipeline!Enqueues, Pipeline!EnqueueFails,
       Pipeline!Cancels, Pipeline!Reconnects, Pipeline!Takes, Pipeline!Runs, Pipeline!LosesDependency,
       Pipeline!TaskStep, Pipeline!SendFails, Pipeline!Dies, Pipeline!Redelivers, Pipeline!Full,
       Pipeline!StartScan, Pipeline!StartEnrichment, Pipeline!StartEmbedding,
       Pipeline!StartIntelligence, Pipeline!TriggerRecommendations, Pipeline!TriggerAnalysis,
       Pipeline!sendVars, Pipeline!boundVars, Pipeline!Creates, Pipeline!ConnectorKinds,
       Pipeline!Active, Pipeline!TakesMessage, Pipeline!ScanRun, Pipeline!EnrichmentRun,
       Pipeline!EmbeddingRun, Pipeline!IntelligenceRun, Pipeline!RecommendationRun,
       Pipeline!AnalysisRun, Pipeline!ScanTask, Pipeline!EnrichmentTask, Pipeline!IntelligenceTask,
       Pipeline!HandsOn, Pipeline!CreatesSuccessor, Pipeline!SendsSuccessor, Pipeline!Acks,
       Pipeline!MessageOf, Pipeline!StartsConnectorJob, Pipeline!StartsOrganizationJob,
       Pipeline!MarksRunning, Pipeline!After, Pipeline!Kind, Pipeline!FindsNoCancel,
       Pipeline!FindsCancel, Pipeline!Completes, Pipeline!Fails, Pipeline!NeedsReauth,
       Pipeline!NoProvider, Pipeline!RetriesOrFails, Pipeline!HasActiveJob, Pipeline!Marked,
       Pipeline!AfterScan, Pipeline!AfterEnrichment, Pipeline!AfterEmbedding, Pipeline!Returns,
       Pipeline!vars, Pipeline!JobsKept, Pipeline!TypeOK, Pipeline!NoOrphan, Pipeline!HandOff,
       Pipeline!JobRow, Pipeline!Message, Pipeline!Worker, Pipeline!Caller, Pipeline!Kinds,
       Pipeline!Held, Pipeline!BeingSent, Pipeline!ScanStatus, Pipeline!EnrichmentStatus,
       Pipeline!EmbeddingStatus, Pipeline!IntelligenceStatus, Pipeline!RecommendationStatus,
       Pipeline!AnalysisStatus, Pipeline!OrganizationKinds, Pipeline!CancelIsFinal,
       Pipeline!Cancelled, PipelineP!Init, PipelineP!Jobs, PipelineP!Resting, PipelineP!Waiting,
       PipelineP!NoJob, PipelineP!Next, PipelineP!Starts, PipelineP!Inserts, PipelineP!Enqueues,
       PipelineP!EnqueueFails, PipelineP!Cancels, PipelineP!Reconnects, PipelineP!Takes,
       PipelineP!Runs, PipelineP!LosesDependency, PipelineP!TaskStep, PipelineP!SendFails,
       PipelineP!Dies, PipelineP!Redelivers, PipelineP!Full, PipelineP!StartScan,
       PipelineP!StartEnrichment, PipelineP!StartEmbedding, PipelineP!StartIntelligence,
       PipelineP!TriggerRecommendations, PipelineP!TriggerAnalysis, PipelineP!sendVars,
       PipelineP!boundVars, PipelineP!Creates, PipelineP!ConnectorKinds, PipelineP!Active,
       PipelineP!TakesMessage, PipelineP!ScanRun, PipelineP!EnrichmentRun, PipelineP!EmbeddingRun,
       PipelineP!IntelligenceRun, PipelineP!RecommendationRun, PipelineP!AnalysisRun,
       PipelineP!ScanTask, PipelineP!EnrichmentTask, PipelineP!IntelligenceTask, PipelineP!HandsOn,
       PipelineP!CreatesSuccessor, PipelineP!SendsSuccessor, PipelineP!Acks, PipelineP!MessageOf,
       PipelineP!StartsConnectorJob, PipelineP!StartsOrganizationJob, PipelineP!MarksRunning,
       PipelineP!After, PipelineP!Kind, PipelineP!FindsNoCancel, PipelineP!FindsCancel,
       PipelineP!Completes, PipelineP!Fails, PipelineP!NeedsReauth, PipelineP!NoProvider,
       PipelineP!RetriesOrFails, PipelineP!HasActiveJob, PipelineP!Marked, PipelineP!AfterScan,
       PipelineP!AfterEnrichment, PipelineP!AfterEmbedding, PipelineP!Returns, PipelineP!vars,
       PipelineP!JobsKept, PipelineP!TypeOK, PipelineP!NoOrphan, PipelineP!HandOff, PipelineP!JobRow,
       PipelineP!Message, PipelineP!Worker, PipelineP!Caller, PipelineP!Kinds, PipelineP!Held,
       PipelineP!BeingSent, PipelineP!ScanStatus, PipelineP!EnrichmentStatus,
       PipelineP!EmbeddingStatus, PipelineP!IntelligenceStatus, PipelineP!RecommendationStatus,
       PipelineP!AnalysisStatus, PipelineP!OrganizationKinds, PipelineP!CancelIsFinal,
       PipelineP!Cancelled

\* The two sweeps of MCPlatform are those that SchedulerProofs speaks of.
LEMMA SameSweeps ==
    /\ Sweeper!Init <=> SweeperP!Init
    /\ Sweeper!Next <=> SweeperP!Next
    /\ UNCHANGED Sweeper!vars <=> UNCHANGED SweeperP!vars
    /\ Sweeper!TypeOK <=> SweeperP!TypeOK
    /\ Sweeper!FiresOnce <=> SweeperP!FiresOnce
    /\ Sweeper!OneRunAtATime <=> SweeperP!OneRunAtATime
BY DEF Sweeper!Init, Sweeper!Idle, Sweeper!InSweep, Sweeper!Next, Sweeper!CreatesTrigger,
       Sweeper!SetsEnabled, Sweeper!ComesDue, Sweeper!SetsStatus, Sweeper!Publishes, Sweeper!Ends,
       Sweeper!Claims, Sweeper!SweepStep, Sweeper!SweepCrashes, Sweeper!CallerStep,
       Sweeper!CallerLooks, Sweeper!execVars, Sweeper!boundVars, Sweeper!tableVars,
       Sweeper!HeldByOther, Sweeper!LooksAt, Sweeper!StartsExecution, Sweeper!SendsExecution,
       Sweeper!FireRaises, Sweeper!SendRaises, Sweeper!Reschedules, Sweeper!CallerStarts,
       Sweeper!CallerSends, Sweeper!CallerFails, Sweeper!CanStart, Sweeper!AfterCommit,
       Sweeper!HasActiveExecution, Sweeper!vars, Sweeper!TypeOK, Sweeper!NextRun, Sweeper!Sweep,
       Sweeper!Caller, Sweeper!FiresOnce, Sweeper!OneRunAtATime, SweeperP!Init, SweeperP!Idle,
       SweeperP!InSweep, SweeperP!Next, SweeperP!CreatesTrigger, SweeperP!SetsEnabled,
       SweeperP!ComesDue, SweeperP!SetsStatus, SweeperP!Publishes, SweeperP!Ends, SweeperP!Claims,
       SweeperP!SweepStep, SweeperP!SweepCrashes, SweeperP!CallerStep, SweeperP!CallerLooks,
       SweeperP!execVars, SweeperP!boundVars, SweeperP!tableVars, SweeperP!HeldByOther,
       SweeperP!LooksAt, SweeperP!StartsExecution, SweeperP!SendsExecution, SweeperP!FireRaises,
       SweeperP!SendRaises, SweeperP!Reschedules, SweeperP!CallerStarts, SweeperP!CallerSends,
       SweeperP!CallerFails, SweeperP!CanStart, SweeperP!AfterCommit, SweeperP!HasActiveExecution,
       SweeperP!vars, SweeperP!TypeOK, SweeperP!NextRun, SweeperP!Sweep, SweeperP!Caller,
       SweeperP!FiresOnce, SweeperP!OneRunAtATime

\* The part of a behaviour stays what it is, and its steps are those of the part.
LEMMA PartSteps ==
    ASSUME [PlatformNext]_platformVars
    PROVE  /\ part' = part
           /\ part = "alone" => [Alone!Next]_(Alone!vars)
           /\ part = "together" => [Together!Next]_(Together!vars)
           /\ part = "policy" => [Policy!Next]_(Policy!vars)
           /\ part = "mirror" => [Mirror!Next]_(Mirror!vars)
           /\ part = "passes" => [Pass!Next]_(Pass!vars)
           /\ part = "archives" => [Archive!Next]_(Archive!vars)
           /\ part = "copies" => [Copies!Next]_(Copies!vars)
           /\ part = "signin" => [Sessions!Next]_(Sessions!vars)
           /\ part = "connector" => [Connector!Next]_(Connector!vars)
           /\ part = "talk" => [Talk!Next]_(Talk!vars)
           /\ part = "sweeps" => [Sweeper!Next]_(Sweeper!vars)
           /\ IF part = "jobs" THEN [Pipeline!Next]_(Pipeline!vars)
                               ELSE [Chain!Next]_(Chain!vars)
<1>1. CASE UNCHANGED platformVars
  <2>1. /\ UNCHANGED <<part, status, token, call, deaths, base, mirrorVars>>
        /\ UNCHANGED <<sweepVars, jobVars, sessionVars, versionVars, policyVars>>
        /\ UNCHANGED <<fileVars, passVars, archiveVars, copyVars>>
        /\ UNCHANGED <<signInVars, connectorVars, talkVars>>
    BY <1>1 DEF platformVars
  <2>2. /\ UNCHANGED Alone!vars /\ UNCHANGED Together!vars /\ UNCHANGED Policy!vars
    BY <2>1 DEF sessionVars, versionVars, policyVars, Alone!vars, Alone!tableVars,
       Together!vars, Together!tableVars, Policy!vars
  <2>3. /\ UNCHANGED Pass!vars /\ UNCHANGED Archive!vars /\ UNCHANGED Copies!vars
    BY <2>1 DEF fileVars, passVars, archiveVars, copyVars, Pass!vars, Pass!derivedVars,
       Archive!vars, Archive!batchVars, Copies!vars, Copies!derivedVars
  <2>4. /\ UNCHANGED Sessions!vars /\ UNCHANGED Connector!vars /\ UNCHANGED Talk!vars
    BY <2>1 DEF signInVars, connectorVars, talkVars, Sessions!vars, Sessions!tokenVars,
       Sessions!browserVars, Connector!vars, Connector!rowVars, Connector!googleVars, Talk!vars
  <2>5. UNCHANGED Mirror!vars
    BY <2>1 DEF fileVars, mirrorVars, Mirror!vars, Mirror!driveVars, Mirror!boundVars
  <2>6. UNCHANGED Sweeper!vars
    BY <2>1 DEF sweepVars, vars, tableVars, execVars, boundVars, Sweeper!vars,
       Sweeper!tableVars, Sweeper!execVars, Sweeper!boundVars
  <2>7. UNCHANGED Pipeline!vars /\ UNCHANGED Chain!vars
    BY <2>1 DEF jobVars, Pipeline!vars, Pipeline!boundVars, Pipeline!sendVars,
       Chain!vars, Chain!boundVars, Chain!sendVars
  <2> QED BY <2>1, <2>2, <2>3, <2>4, <2>5, <2>6, <2>7
<1>2. CASE PlatformNext
  <2>1. part' = part
    BY <1>2 DEF PlatformNext
  <2>2. PartNext
    BY <1>2 DEF PlatformNext
  <2>3. /\ part = "alone" => Alone!Next
        /\ part = "together" => Together!Next
        /\ part = "policy" => Policy!Next
        /\ part = "mirror" => Mirror!Next
        /\ part = "passes" => Pass!Next
        /\ part = "archives" => Archive!Next
        /\ part = "copies" => Copies!Next
        /\ part = "signin" => Sessions!Next
        /\ part = "connector" => Connector!Next
        /\ part = "talk" => Talk!Next
        /\ part = "sweeps" => Sweeper!Next
        /\ part = "jobs" => Pipeline!Next
        /\ part = "chain" => Chain!Next
    BY <2>2 DEF PartNext
  <2>4. part \notin {"chain", "jobs"} => UNCHANGED Chain!vars
    BY <1>2 DEF PlatformNext, HasJobs, Still, jobVars, Chain!vars, Chain!boundVars,
       Chain!sendVars
  <2> QED BY <2>1, <2>3, <2>4
<1> QED BY <1>1, <1>2

\* A behaviour starts in a state that its part starts in, and the jobs and sweeps in one
\* of theirs.
LEMMA PartStarts ==
    ASSUME PlatformInit
    PROVE  /\ part = "alone" => Alone!Init
           /\ part = "together" => Together!Init
           /\ part = "policy" => Policy!Init
           /\ part = "mirror" => Mirror!Init
           /\ part = "passes" => Pass!Init
           /\ part = "archives" => Archive!Init
           /\ part = "copies" => Copies!Init
           /\ part = "signin" => Sessions!Init
           /\ part = "connector" => Connector!Init
           /\ part = "talk" => Talk!Init
           /\ part = "sweeps" => Sweeper!Init
           /\ IF part = "jobs" THEN Pipeline!Init ELSE Chain!Init
<1>1. PartInit
  BY DEF PlatformInit
<1>2. /\ part = "sweeps" => Sweeper!Init
      /\ IF part = "jobs" THEN Pipeline!Init ELSE Chain!Init
  BY DEF PlatformInit
<1> QED BY <1>1, <1>2 DEF PartInit

-----------------------------------------------------------------------------
(* The account: sign-ins, connectors and conversations *)

\* What the constants of these parts are assumed to be.
AccountBounds == SessionBounds /\ TokenBounds /\ TalkBounds

\* The inductive invariants of the three, each of its own part.
AccountInv ==
    /\ part = "signin" => Sessions!TypeOK /\ RotatesOne /\ TokensInv /\ CookieInv
    /\ part = "connector" => ConnectorInv
    /\ part = "talk" => TalkInv

\* Each starts with its own.
LEMMA AccountStarts ==
    ASSUME AccountBounds, PlatformInit
    PROVE  AccountInv
<1>1. part = "signin" => Sessions!TypeOK /\ RotatesOne /\ TokensInv /\ CookieInv
  BY PartStarts, SessionsInit DEF AccountBounds
<1>2. part = "connector" => ConnectorInv
  BY PartStarts, ConnectorInit DEF AccountBounds
<1>3. part = "talk" => TalkInv
  BY PartStarts, TalkInit DEF AccountBounds
<1> QED BY <1>1, <1>2, <1>3 DEF AccountInv

\* Each keeps its own; and who is signed out is so for a cause.
LEMMA AccountStep ==
    ASSUME AccountBounds, AccountInv, [PlatformNext]_platformVars
    PROVE  AccountInv' /\ (part = "signin" => Sessions!SignsOutForCause)
<1>0. part' = part
  BY PartSteps
<1>1. ASSUME part = "signin"
      PROVE  /\ Sessions!TypeOK' /\ RotatesOne' /\ TokensInv' /\ CookieInv'
             /\ Sessions!SignsOutForCause
  <2>1. /\ [Sessions!Next]_(Sessions!vars)
        /\ Sessions!TypeOK /\ RotatesOne /\ TokensInv /\ CookieInv
    BY <1>1, PartSteps DEF AccountInv
  <2> QED BY <2>1, SessionsType, TokensStep, CookieStep DEF AccountBounds
<1>2. ASSUME part = "connector" PROVE ConnectorInv'
  BY <1>2, PartSteps, ConnectorStep DEF AccountInv, AccountBounds
<1>3. ASSUME part = "talk" PROVE TalkInv'
  BY <1>3, PartSteps, TalkStep DEF AccountInv, AccountBounds
<1> QED BY <1>0, <1>1, <1>2, <1>3 DEF AccountInv

\* They imply what the run checks.
LEMMA AccountImplies == AccountInv => AccountInOrder
<1> SUFFICES ASSUME AccountInv PROVE AccountInOrder
  OBVIOUS
<1>1. part = "signin" => Sessions!TypeOK /\ Sessions!OneTokenEach
  BY DEF AccountInv, TokensInv
<1>2. part = "connector" => Connector!TypeOK /\ Connector!StatusMatchesCred
  BY ConnectorImplies DEF AccountInv
<1>3. part = "talk" => Talk!TypeOK /\ Talk!QuestionFirst /\ Talk!WindowEnds
  BY TalkImplies DEF AccountInv
<1> QED BY <1>1, <1>2, <1>3 DEF AccountInOrder

(***************************************************************************)
(* An account, whatever browsers, jobs and tabs it has: one good token for a  *)
(* sign-in, a connector whose status says what credentials it has, answers    *)
(* after their questions and a tool limit that comes to an end.               *)
(***************************************************************************)
THEOREM AccountInOrderHolds ==
    ASSUME AccountBounds
    PROVE  PlatformSpec => []AccountInOrder
<1>1. PlatformInit => AccountInv
  BY AccountStarts
<1>2. AccountInv /\ [PlatformNext]_platformVars => AccountInv'
  BY AccountStep
<1> QED BY <1>1, <1>2, AccountImplies, PTL DEF PlatformSpec

(***************************************************************************)
(* Nobody who waits for answers, and receives them, is signed out by the       *)
(* expiry of an access token.                                                 *)
(***************************************************************************)
THEOREM KeepsSessionHolds ==
    ASSUME AccountBounds
    PROVE  PlatformSpec => KeepsSession
<1>1. PlatformInit => AccountInv
  BY AccountStarts
<1>2. AccountInv /\ [PlatformNext]_platformVars =>
          AccountInv' /\ [part = "signin" => Sessions!SignsOutForCause]_platformVars
  BY AccountStep
<1> QED BY <1>1, <1>2, PTL DEF PlatformSpec, KeepsSession

-----------------------------------------------------------------------------
(* The versions of workflows and policies *)

\* The inductive invariants of the three, each of its own part.
VersionsInv ==
    /\ part = "alone" => AloneTypes
    /\ part = "together" => TogetherInv
    /\ part = "policy" => PolicyInv

\* Each starts with its own.
LEMMA VersionsStart ==
    ASSUME VersionBounds, PlatformInit
    PROVE  VersionsInv
<1>1. part = "alone" => AloneTypes
  BY PartStarts, AloneInit
<1>2. part = "together" => TogetherInv
  BY PartStarts, TogetherInit
<1>3. part = "policy" => PolicyInv
  BY PartStarts, PolicyInit
<1> QED BY <1>1, <1>2, <1>3 DEF VersionsInv

\* Each keeps its own, and what was published.
LEMMA VersionsStep ==
    ASSUME VersionBounds, VersionsInv, [PlatformNext]_platformVars
    PROVE  /\ VersionsInv'
           /\ part = "alone" => Alone!KeepsPublished /\ Alone!KeepsNodes
           /\ part = "policy" => Policy!AppliesInForce
<1>0. part' = part
  BY PartSteps
<1>1. ASSUME part = "alone"
      PROVE  AloneTypes' /\ Alone!KeepsPublished /\ Alone!KeepsNodes
  <2>1. AloneTypes /\ [Alone!Next]_(Alone!vars)
    BY <1>1, PartSteps DEF VersionsInv
  <2> QED BY <2>1, AloneStep, AloneKeeps
<1>2. ASSUME part = "together" PROVE TogetherInv'
  BY <1>2, PartSteps, TogetherStep DEF VersionsInv
<1>3. ASSUME part = "policy" PROVE PolicyInv' /\ Policy!AppliesInForce
  <2>1. PolicyInv /\ [Policy!Next]_(Policy!vars)
    BY <1>3, PartSteps DEF VersionsInv
  <2>2. PolicyInv' /\ (Policy!AppliesInForce \/ UNCHANGED Policy!vars)
    BY <2>1, PolicyStep
  <2> QED BY <2>2 DEF Policy!AppliesInForce, Policy!vars
<1> QED BY <1>0, <1>1, <1>2, <1>3 DEF VersionsInv

\* They imply what the run checks.
LEMMA VersionsImply == VersionsInv => VersionsInOrder
<1> SUFFICES ASSUME VersionsInv PROVE VersionsInOrder
  OBVIOUS
<1>1. part = "alone" => Alone!TypeOK /\ Alone!OnePublished /\ Alone!OneGraph /\ Alone!OneDraft
  BY AloneImplies DEF VersionsInv
<1>2. part = "together" => Together!TypeOK /\ Together!PublishedHasNodes
  BY TogetherImplies DEF VersionsInv
<1>3. part = "policy" => Policy!TypeOK /\ Policy!LastPublishedRules /\ Policy!NumbersDistinct
  BY PolicyImplies DEF VersionsInv
<1> QED BY <1>1, <1>2, <1>3 DEF VersionsInOrder

(***************************************************************************)
(* A workflow that one session edits has one published version, one draft and *)
(* one graph of each; one that any number edit publishes nothing without       *)
(* nodes; the version of a policy in force is the one published last.          *)
(***************************************************************************)
THEOREM VersionsInOrderHolds ==
    ASSUME VersionBounds
    PROVE  PlatformSpec => []VersionsInOrder
<1>1. PlatformInit => VersionsInv
  BY VersionsStart
<1>2. VersionsInv /\ [PlatformNext]_platformVars => VersionsInv'
  BY VersionsStep
<1> QED BY <1>1, <1>2, VersionsImply, PTL DEF PlatformSpec

(***************************************************************************)
(* What was published is kept: a workflow goes on having a published version   *)
(* and its history the nodes that ran, and it applies the version of a policy   *)
(* that is in force.                                                          *)
(***************************************************************************)
THEOREM HistoryKeptHolds ==
    ASSUME VersionBounds
    PROVE  PlatformSpec => HistoryKept
<1>1. PlatformInit => VersionsInv
  BY VersionsStart
<1>2. VersionsInv /\ [PlatformNext]_platformVars =>
          /\ VersionsInv'
          /\ [/\ part = "alone" => Alone!KeepsPublished /\ Alone!KeepsNodes
              /\ part = "policy" => Policy!AppliesInForce]_platformVars
  BY VersionsStep
<1> QED BY <1>1, <1>2, PTL DEF PlatformSpec, HistoryKept

-----------------------------------------------------------------------------
(* The files: archives, duplicates and what is derived from them *)

\* The archives start with their invariant.
LEMMA ArchivesStart ==
    ASSUME ArchiveP!Bounds, PlatformInit
    PROVE  part = "archives" => ArchiveP!TypeOK /\ ArchiveP!ArchivesInv
BY PartStarts, SameArchives, ArchiveP!TypeInit, ArchiveP!InvInit

\* They keep it, and no file is lost but to a dropped archive.
LEMMA ArchivesStep ==
    ASSUME ArchiveP!Bounds, part = "archives" => ArchiveP!TypeOK /\ ArchiveP!ArchivesInv,
           [PlatformNext]_platformVars
    PROVE  /\ (part = "archives" => ArchiveP!TypeOK /\ ArchiveP!ArchivesInv)'
           /\ part = "archives" => Archive!LostOnlyIfDropped
<1>1. ASSUME part = "archives"
      PROVE  ArchiveP!TypeOK' /\ ArchiveP!ArchivesInv' /\ Archive!LostOnlyIfDropped
  <2>1. ArchiveP!TypeOK /\ ArchiveP!ArchivesInv /\ [ArchiveP!Next]_(ArchiveP!vars)
    BY <1>1, PartSteps, SameArchives
  <2> QED BY <2>1, ArchiveP!TypeStep, ArchiveP!InvStep, ArchiveP!LostStep, SameArchives
<1> QED BY <1>1, PartSteps

(***************************************************************************)
(* The store has what the row of an archive says, and a file whose row says    *)
(* that it was deleted for good is gone from Drive.                           *)
(***************************************************************************)
THEOREM ArchivesInOrderHolds ==
    ASSUME ArchiveP!Bounds
    PROVE  PlatformSpec => []ArchivesInOrder
<1> DEFINE Inv == part = "archives" => ArchiveP!TypeOK /\ ArchiveP!ArchivesInv
<1>1. PlatformInit => Inv
  BY ArchivesStart
<1>2. Inv /\ [PlatformNext]_platformVars => Inv'
  BY ArchivesStep
<1>3. Inv => ArchivesInOrder
  BY ArchiveP!InvTrue, SameArchives DEF ArchivesInOrder
<1> QED BY <1>1, <1>2, <1>3, PTL DEF PlatformSpec

(***************************************************************************)
(* The rows of a source whose Drive stands still during full scans, has no      *)
(* nested folders, and none that goes with its contents, never lag behind its *)
(* token.                                                                   *)
(***************************************************************************)
THEOREM MirrorInOrderHolds ==
    ASSUME MirrorBounds
    PROVE  PlatformSpec => []MirrorInOrder
<1> DEFINE Inv == part = "mirror" => MirrorInv
<1>1. PlatformInit => Inv
  BY PartStarts, MirrorInit
<1>2. Inv /\ [PlatformNext]_platformVars => Inv'
  BY PartSteps, MirrorStep
<1>3. Inv => MirrorInOrder
  BY MirrorImplies DEF MirrorInOrder
<1> QED BY <1>1, <1>2, <1>3, PTL DEF PlatformSpec

(***************************************************************************)
(* A scan that saves its token has caught up, and left no placeholder; a file  *)
(* is deleted for good only while a completed archive has its content, or      *)
(* after that archive was dropped; a duplicate is trashed only while another   *)
(* file of its content is here.                                              *)
(***************************************************************************)
THEOREM FilesKeptHolds ==
    ASSUME MirrorBounds, ArchiveP!Bounds, CopyBounds
    PROVE  PlatformSpec => FilesKept
<1> DEFINE Inv == /\ part = "mirror" => MirrorInv
                  /\ part = "archives" => ArchiveP!TypeOK /\ ArchiveP!ArchivesInv
                  /\ part = "copies" => CopyInv
           Kept == /\ part = "mirror" /\ Mirror!SavesToken =>
                          Mirror!CaughtUp /\ Mirror!NoPlaceholder
                   /\ part = "archives" => Archive!LostOnlyIfDropped
                   /\ part = "copies" => Copies!SpareOne
<1>1. PlatformInit => Inv
  BY ArchivesStart, PartStarts, MirrorInit, CopyInit
<1>2. ASSUME Inv, [PlatformNext]_platformVars
      PROVE  Inv' /\ Kept
  <2>1. /\ (part = "archives" => ArchiveP!TypeOK /\ ArchiveP!ArchivesInv)'
        /\ part = "archives" => Archive!LostOnlyIfDropped
    BY <1>2, ArchivesStep
  <2>2. ASSUME part = "copies" PROVE CopyInv' /\ Copies!SpareOne
    <3>1. CopyInv /\ [Copies!Next]_(Copies!vars)
      BY <1>2, <2>2, PartSteps
    <3> QED BY <3>1, CopyStep, CopyImplies
  <2>3. ASSUME part = "mirror"
        PROVE  MirrorInv' /\ (Mirror!SavesToken => Mirror!CaughtUp /\ Mirror!NoPlaceholder)
    <3>1. MirrorInv /\ [Mirror!Next]_(Mirror!vars)
      BY <1>2, <2>3, PartSteps
    <3> QED BY <3>1, MirrorStep
  <2> QED BY <1>2, <2>1, <2>2, <2>3, PartSteps
<1>3. Inv /\ [PlatformNext]_platformVars => Inv' /\ [Kept]_platformVars
  BY <1>2
<1> QED BY <1>1, <1>3, PTL DEF PlatformSpec, FilesKept

(***************************************************************************)
(* Whatever the order of scans, edits and passes that take turns, what is not *)
(* derived from the newest input is pending.                                  *)
(***************************************************************************)
THEOREM AllDerivedOrPending ==
    ASSUME PassP!InTurn
    PROVE  PlatformSpec => []DerivedOrPending
<1> DEFINE Inv == part = "passes" => PassP!PassInv
<1>1. PlatformInit => Inv
  BY PartStarts, SamePasses, PassP!PassInit
<1>2. Inv /\ [PlatformNext]_platformVars => Inv'
  BY PartSteps, SamePasses, PassP!PassStep
<1>3. Inv => DerivedOrPending
  BY SamePasses DEF DerivedOrPending, PassP!PassInv, PassP!DerivedOrPending
<1> QED BY <1>1, <1>2, <1>3, PTL DEF PlatformSpec

-----------------------------------------------------------------------------
(* The background jobs *)

\* The invariant of the chain in every part but "jobs": there its rows stand still.
JobsInv ==
    IF part = "jobs" THEN PipelineP!TypeOK /\ PipelineP!HeldInv /\ PipelineP!KeptInv
                     ELSE ChainP!TypeOK /\ ChainP!HeldInv /\ ChainP!KeptInv

\* The jobs start with it.
LEMMA JobsStart ==
    ASSUME ChainP!Bounds, PlatformInit
    PROVE  JobsInv
<1>1. PipelineP!Bounds
  BY DEF ChainP!Bounds, PipelineP!Bounds
<1>2. CASE part = "jobs"
  BY <1>1, <1>2, PartStarts, SameJobs, PipelineP!TypeInit, PipelineP!KeptInit DEF JobsInv
<1>3. CASE part # "jobs"
  BY <1>3, PartStarts, SameChain, ChainP!TypeInit, ChainP!KeptInit DEF JobsInv
<1> QED BY <1>2, <1>3

\* They keep it, and what is cancelled.
LEMMA JobsStep ==
    ASSUME ChainP!Bounds, JobsInv, [PlatformNext]_platformVars
    PROVE  /\ JobsInv'
           /\ part = "chain" => Chain!CancelIsFinal
           /\ part = "jobs" => Pipeline!CancelIsFinal
<1>0. part' = part
  BY PartSteps
<1>1. PipelineP!Bounds
  BY DEF ChainP!Bounds, PipelineP!Bounds
<1>2. CASE part = "jobs"
  <2>1. /\ PipelineP!TypeOK /\ PipelineP!HeldInv /\ PipelineP!KeptInv
        /\ [PipelineP!Next]_(PipelineP!vars)
    BY <1>2, PartSteps, SameJobs DEF JobsInv
  <2>2. PipelineP!TypeOK' /\ PipelineP!HeldInv' /\ PipelineP!KeptInv'
    BY <1>1, <2>1, PipelineP!TypeStep, PipelineP!KeptStep
  <2>3. Pipeline!CancelIsFinal
    BY <1>1, <2>1, PipelineP!CancelStep, SameJobs
  <2> QED BY <1>0, <1>2, <2>2, <2>3 DEF JobsInv
<1>3. CASE part # "jobs"
  <2>1. /\ ChainP!TypeOK /\ ChainP!HeldInv /\ ChainP!KeptInv
        /\ [ChainP!Next]_(ChainP!vars)
    BY <1>3, PartSteps, SameChain DEF JobsInv
  <2>2. ChainP!TypeOK' /\ ChainP!HeldInv' /\ ChainP!KeptInv'
    BY <2>1, ChainP!TypeStep, ChainP!KeptStep
  <2>3. Chain!CancelIsFinal
    BY <2>1, ChainP!CancelStep, SameChain
  <2> QED BY <1>0, <1>3, <2>2, <2>3 DEF JobsInv
<1> QED BY <1>2, <1>3

(***************************************************************************)
(* Every active job is a worker's, a message's or a sender's, or its message  *)
(* was lost; every completed one was handed on, or is about to be.            *)
(***************************************************************************)
THEOREM JobsInOrderHolds ==
    ASSUME ChainP!Bounds
    PROVE  PlatformSpec => []JobsInOrder
<1>1. PlatformInit => JobsInv
  BY JobsStart
<1>2. JobsInv /\ [PlatformNext]_platformVars => JobsInv'
  BY JobsStep
<1>3. JobsInv => JobsInOrder
  BY PipelineP!KeptImplies, ChainP!KeptImplies, SameJobs, SameChain DEF JobsInv, JobsInOrder
<1> QED BY <1>1, <1>2, <1>3, PTL DEF PlatformSpec

(***************************************************************************)
(* A job that a user has cancelled is not worked on again, nor completed,      *)
(* whatever is redelivered and whoever dies.                                  *)
(***************************************************************************)
THEOREM CancelledStaysHolds ==
    ASSUME ChainP!Bounds
    PROVE  PlatformSpec => CancelledStays
<1>1. PlatformInit => JobsInv
  BY JobsStart
<1>2. JobsInv /\ [PlatformNext]_platformVars =>
          /\ JobsInv'
          /\ [/\ part = "chain" => Chain!CancelIsFinal
              /\ part = "jobs" => Pipeline!CancelIsFinal]_platformVars
  BY JobsStep
<1> QED BY <1>1, <1>2, PTL DEF PlatformSpec, CancelledStays

-----------------------------------------------------------------------------
(* The sweeps *)

\* Two triggers, each with a workflow of its own: what the instance of MCPlatform is about.
SweeperBounds ==
    /\ Triggers = {t1, t2} /\ t1 # t2 /\ wf1 # wf2
    /\ NoTrigger \notin Triggers

\* What SchedulerProofs assumes, the instance has.
LEMMA SweeperHyps ==
    ASSUME SweeperBounds
    PROVE  SweeperP!SchedulerAssumption /\ SweeperP!TakeTurns
<1>1. OneEach \in [Triggers -> {wf1, wf2}] /\ OneEach[t1] = wf1 /\ OneEach[t2] = wf2
  BY DEF SweeperBounds, OneEach
<1>2. SweeperP!SchedulerAssumption
  BY <1>1 DEF SweeperP!SchedulerAssumption, SweeperBounds
<1>3. SweeperP!TakeTurns
  BY <1>1 DEF SweeperP!TakeTurns, SweeperBounds
<1> QED BY <1>2, <1>3

(***************************************************************************)
(* Two sweeps at a time and one that crashes: a due occurrence fires once, and *)
(* a workflow has one active execution.                                       *)
(***************************************************************************)
THEOREM OccurrencesInOrderHolds ==
    ASSUME SweeperBounds
    PROVE  PlatformSpec => []OccurrencesInOrder
<1> DEFINE Inv == part = "sweeps" =>
                      SweeperP!TypeInv /\ SweeperP!ClaimInv /\ SweeperP!RunInv
<1>0. SweeperP!SchedulerAssumption /\ SweeperP!TakeTurns
  BY SweeperHyps
<1>1. PlatformInit => Inv
  <2> SUFFICES ASSUME PlatformInit, part = "sweeps"
               PROVE  SweeperP!TypeInv /\ SweeperP!ClaimInv /\ SweeperP!RunInv
    OBVIOUS
  <2>1. SweeperP!Init
    BY PartStarts, SameSweeps
  <2> QED BY <1>0, <2>1, SweeperP!InitTypeInv, SweeperP!InitClaimInv, SweeperP!InitRunInv
<1>2. Inv /\ [PlatformNext]_platformVars => Inv'
  <2> SUFFICES ASSUME Inv, [PlatformNext]_platformVars, part = "sweeps"
               PROVE  SweeperP!TypeInv' /\ SweeperP!ClaimInv' /\ SweeperP!RunInv'
    BY PartSteps
  <2>1. [SweeperP!Next]_(SweeperP!vars)
    BY PartSteps, SameSweeps
  <2>2. SweeperP!TypeInv'
    BY <1>0, <2>1, SweeperP!TypeStep
  <2>3. SweeperP!ClaimInv'
    BY <1>0, <2>1, SweeperP!ClaimStep
  <2>4. SweeperP!RunInv'
    BY <1>0, <2>1, SweeperP!RunStep
  <2> QED BY <2>2, <2>3, <2>4
<1>3. Inv => OccurrencesInOrder
  <2> SUFFICES ASSUME Inv, part = "sweeps"
               PROVE  Sweeper!TypeOK /\ Sweeper!FiresOnce /\ Sweeper!OneRunAtATime
    BY DEF OccurrencesInOrder
  <2>1. SweeperP!TypeOK /\ SweeperP!FiresOnce
    BY DEF SweeperP!TypeInv, SweeperP!ClaimInv
  <2>2. SweeperP!OneRunAtATime
    BY <1>0, SweeperP!RunImplies DEF SweeperP!SchedulerAssumption
  <2> QED BY <2>1, <2>2, SameSweeps
<1> QED BY <1>1, <1>2, <1>3, PTL DEF PlatformSpec

=============================================================================
