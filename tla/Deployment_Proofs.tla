-------------------------- MODULE Deployment_Proofs --------------------------
(***************************************************************************)
(* The generated Wrangler configuration mirrors the bindings of the API,   *)
(* for any providers, bindings and environments of the deploys.            *)
(***************************************************************************)
EXTENDS Deployment, FiniteSetTheorems, SequenceTheorems, WellFoundedInduction, TLAPS

(* A set of numbers has a least one: the inductions below rest on it.      *)
LEMMA LeastNumber ==
  ASSUME NEW S, S \subseteq Nat, S # {} PROVE \E x \in S : \A y \in S : x <= y
<1>1. IsWellFoundedOn(OpToRel(<, Nat), Nat)
  BY NatLessThanWellFounded
<1>2. PICK x \in S : \A y \in S : ~(<<y, x>> \in OpToRel(<, Nat))
  BY <1>1, WFMin
<1>3. \A y \in S : ~(y < x)
  BY <1>2, Zenon DEF OpToRel
<1>4. \A y \in S : y \in Nat /\ x \in Nat
  OBVIOUS
<1> QED BY <1>3

(* The loop over the entries, as the library folds a sequence: by          *)
(* recursion on the subsets of its indices, the greatest index last.       *)
ClassifyStep(seq, g, s) ==
  IF s = {} THEN EmptySpec ELSE Classify(g[s \ {Max(s)}], seq[Max(s)])

SpecsOf(seq) == CHOOSE g : g = [s \in SUBSET DOMAIN seq |-> ClassifyStep(seq, g, s)]

(* The library's fold is that recursion at the set of all indices.         *)
LEMMA FoldIs == ASSUME NEW seq PROVE FoldLeft(Classify, EmptySpec, seq) = SpecsOf(seq)[DOMAIN seq]
BY DEF FoldLeft, MapThenFoldSet, SpecsOf, ClassifyStep

(* The last index of the first n is n.                                     *)
LEMMA MaxIs ==
  ASSUME NEW n \in Nat
  PROVE  n # 0 => Max(1..n) = n /\ (1..n) \ {n} = 1..n - 1
<1>1. n # 0 => n \in 1..n /\ \A y \in 1..n : n >= y
  OBVIOUS
<1>2. \A x \in 1..n : (\A y \in 1..n : x >= y) => x = n
  OBVIOUS
<1>3. n # 0 => Max(1..n) = n
  BY <1>1, <1>2 DEF Max
<1> QED BY <1>3

(* It computes a specification for each number of entries classified.      *)
SpecAfter(seq, n) == SpecsOf(seq)[1..n]

(* There is such a function for every sequence, by induction on the size.  *)
LEMMA SpecsExist ==
  ASSUME NEW seq, NEW m \in Nat, DOMAIN seq = 1..m
  PROVE  \E g : g = [s \in SUBSET DOMAIN seq |-> ClassifyStep(seq, g, s)]
<1> DEFINE D == DOMAIN seq
           upTo(k) == \E g : /\ g = [s \in SUBSET D |-> g[s]]
                             /\ \A s \in SUBSET D :
                                  Cardinality(s) <= k => g[s] = ClassifyStep(seq, g, s)
           without == {k \in Nat : ~upTo(k)}
<1>1. ASSUME NEW s \in SUBSET D
      PROVE  /\ Cardinality(s) \in Nat /\ (Cardinality(s) = 0 <=> s = {})
             /\ s # {} => /\ Max(s) \in s /\ s \ {Max(s)} \in SUBSET D
                          /\ Cardinality(s \ {Max(s)}) = Cardinality(s) - 1
  <2>1. IsFiniteSet(s)
    BY FS_Interval, FS_Subset
  <2>2. Cardinality(s) \in Nat /\ (Cardinality(s) = 0 <=> s = {})
    BY <2>1, FS_CardinalityType, FS_EmptySet
  <2>3. ASSUME s # {} PROVE \E x \in s : \A y \in s : x >= y
    <3> DEFINE gaps == {m - x : x \in s}
    <3>1. gaps \subseteq Nat /\ gaps # {}
      BY <2>3
    <3>2. PICK d \in gaps : \A e \in gaps : d <= e
      BY <3>1, LeastNumber
    <3>3. PICK x \in s : d = m - x
      OBVIOUS
    <3>4. \A y \in s : m - x <= m - y
      BY <3>2, <3>3
    <3>5. \A y \in s : x >= y
      BY <3>4
    <3> QED BY <3>5
  <2>4. s # {} => Max(s) \in s
    BY <2>3 DEF Max
  <2> QED BY <2>1, <2>2, <2>4, FS_RemoveElement
<1>2. upTo(0)
  <2> DEFINE g == [s \in SUBSET D |-> EmptySpec]
  <2>1. ASSUME NEW s \in SUBSET D, Cardinality(s) <= 0 PROVE g[s] = ClassifyStep(seq, g, s)
    <3>1. Cardinality(s) \in Nat /\ (Cardinality(s) = 0 => s = {})
      BY <1>1
    <3>2. s = {}
      BY <2>1, <3>1
    <3> QED BY <3>2 DEF ClassifyStep
  <2>2. g = [s \in SUBSET D |-> g[s]]
    OBVIOUS
  <2> QED BY <2>1, <2>2
<1>3. ASSUME NEW k \in Nat, upTo(k) PROVE upTo(k + 1)
  <2>1. PICK g : /\ g = [s \in SUBSET D |-> g[s]]
                 /\ \A s \in SUBSET D : Cardinality(s) <= k => g[s] = ClassifyStep(seq, g, s)
    BY <1>3
  <2> DEFINE h == [s \in SUBSET D |-> IF Cardinality(s) <= k THEN g[s] ELSE ClassifyStep(seq, g, s)]
  <2>2. ASSUME NEW s \in SUBSET D, Cardinality(s) <= k + 1 PROVE h[s] = ClassifyStep(seq, h, s)
    <3>1. h[s] = ClassifyStep(seq, g, s)
      BY <2>1
    <3>2. ASSUME s # {} PROVE h[s \ {Max(s)}] = g[s \ {Max(s)}]
      <4> DEFINE t == s \ {Max(s)}
      <4>1. Cardinality(s) \in Nat /\ t \in SUBSET D /\ Cardinality(t) = Cardinality(s) - 1
        BY <1>1, <3>2
      <4>2. Cardinality(t) <= k
        BY <4>1, <2>2
      <4> HIDE DEF t
      <4>3. h[t] = g[t]
        BY <4>1, <4>2
      <4> QED BY <4>3 DEF t
    <3> HIDE DEF h
    <3> QED BY <3>1, <3>2 DEF ClassifyStep
  <2>3. h = [s \in SUBSET D |-> h[s]]
    OBVIOUS
  <2> HIDE DEF h
  <2> QED BY <2>2, <2>3
<1> HIDE DEF upTo
<1>4. \A k \in Nat : upTo(k)
  <2> SUFFICES ASSUME without # {} PROVE FALSE
    OBVIOUS
  <2>1. PICK k \in without : \A j \in without : k <= j
    BY LeastNumber
  <2>2. k # 0 /\ k \in Nat
    BY <1>2
  <2>3. k - 1 \in Nat /\ ~(k <= k - 1)
    BY <2>2
  <2>4. upTo(k - 1)
    BY <2>1, <2>3
  <2>5. upTo(k - 1 + 1)
    BY <1>3, <2>3, <2>4
  <2> QED BY <2>2, <2>5
<1>5. m \in Nat /\ \A s \in SUBSET D : Cardinality(s) <= m
  <2>1. IsFiniteSet(D) /\ Cardinality(D) = m
    BY FS_Interval
  <2> QED BY <2>1, FS_Subset
<1>6. PICK g : /\ g = [s \in SUBSET D |-> g[s]]
               /\ \A s \in SUBSET D : Cardinality(s) <= m => g[s] = ClassifyStep(seq, g, s)
  BY <1>4 DEF upTo
<1>7. \A s \in SUBSET D : g[s] = ClassifyStep(seq, g, s)
  BY <1>5, <1>6
<1>8. g = [s \in SUBSET D |-> ClassifyStep(seq, g, s)]
  BY <1>6, <1>7
<1> QED BY <1>8

(* So the fold goes entry by entry, in their order.                        *)
LEMMA SpecAfterIs ==
  ASSUME NEW seq, NEW m \in Nat, DOMAIN seq = 1..m
  PROVE  /\ SpecAfter(seq, 0) = EmptySpec
         /\ \A n \in 1..m : SpecAfter(seq, n) = Classify(SpecAfter(seq, n - 1), seq[n])
         /\ FoldLeft(Classify, EmptySpec, seq) = SpecAfter(seq, m)
<1> DEFINE g == SpecsOf(seq)
<1>1. g = CHOOSE h : h = [s \in SUBSET DOMAIN seq |-> ClassifyStep(seq, h, s)]
  BY DEF SpecsOf
<1> HIDE DEF g
<1>2. g = [s \in SUBSET DOMAIN seq |-> ClassifyStep(seq, g, s)]
  BY <1>1, SpecsExist
<1>3. \A s \in SUBSET (1..m) : g[s] = ClassifyStep(seq, g, s)
  BY <1>2
<1>4. g[1..0] = EmptySpec
  <2>1. 1..0 = {} /\ {} \in SUBSET (1..m)
    OBVIOUS
  <2>2. g[{}] = ClassifyStep(seq, g, {})
    BY <1>3, <2>1
  <2> QED BY <2>1, <2>2, Zenon DEF ClassifyStep
<1>5. ASSUME NEW n \in 1..m PROVE g[1..n] = Classify(g[1..n - 1], seq[n])
  <2>1. n \in Nat /\ n # 0 /\ n \in 1..n /\ 1..n \in SUBSET (1..m)
    OBVIOUS
  <2>2. Max(1..n) = n /\ (1..n) \ {n} = 1..n - 1 /\ 1..n # {}
    BY <2>1, MaxIs
  <2>3. g[1..n] = ClassifyStep(seq, g, 1..n)
    BY <1>3, <2>1
  <2> QED BY <2>2, <2>3, Zenon DEF ClassifyStep
<1> QED BY <1>4, <1>5, FoldIs DEF SpecAfter, g

-----------------------------------------------------------------------------
(* The entries that are folded, whatever order the library gives a set.    *)
LEMMA SetToSeqIs ==
  ASSUME NEW S, IsFiniteSet(S) PROVE SetToSeq(S) \in Seq(S) /\ ToSet(SetToSeq(S)) = S
<1> DEFINE n == Cardinality(S)
           f == SetToSeq(S)
<1>1. n \in Nat /\ Bijection(1..n, S) # {}
  BY FS_CardinalityType DEF ExistsBijection
<1>2. \E g \in [1..n -> S] : IsInjective(g)
  BY <1>1 DEF Bijection, Injection
<1>3. f \in [1..n -> S] /\ IsInjective(f)
  BY <1>2 DEF SetToSeq
<1>4. f \in Injection(1..n, S) /\ IsFiniteSet(1..n) /\ Cardinality(1..n) = n
  BY <1>1, <1>3, FS_Interval DEF Injection
<1> HIDE DEF f
<1>5. f \in Surjection(1..n, S)
  BY <1>4, FS_Injection
<1>6. ToSet(f) = S
  BY <1>3, <1>5 DEF Surjection, ToSet
<1>7. f \in Seq(S)
  BY <1>1, <1>3
<1> QED BY <1>6, <1>7 DEF f

(* SetToSeq is of a finite set.                                            *)
LEMMA OptionalSecretsFinite == IsFiniteSet(OptionalSecrets)
<1> DEFINE ids == {Secret(ClientId[p]) : p \in Provider}
           secrets == {Secret(ClientSecret[p]) : p \in Provider}
           id == [p \in Provider |-> Secret(ClientId[p])]
           secret == [p \in Provider |-> Secret(ClientSecret[p])]
<1>1. id \in Surjection(Provider, ids) /\ secret \in Surjection(Provider, secrets)
  BY DEF Surjection
<1>2. IsFiniteSet(ids) /\ IsFiniteSet(secrets)
  BY <1>1, DeployAssumption, FS_Surjection DEF DeployAssumption
<1>3. OptionalSecrets = ids \cup secrets
  BY DEF OptionalSecrets, Halves
<1> HIDE DEF ids, secrets
<1> QED BY <1>2, <1>3, FS_Union

(* Every secret that may be bound is an optional one.                      *)
LEMMA SocialSecretsAreOptional == \A env : SocialSecrets(env) \subseteq OptionalSecrets
BY DEF SocialSecrets, OptionalSecrets

(* They have no other kind.                                                *)
LEMMA OptionalSecretsAreSecret == \A b \in OptionalSecrets : b.kind = "secret"
BY DEF OptionalSecrets, Halves, Secret

(* Only a secret is named twice: as a binding and as an optional one.      *)
LEMMA EntriesAre ==
  ASSUME NEW env, NEW E, E = WranglerEntries(env)
  PROVE  /\ Len(E) \in Nat /\ DOMAIN E = 1..Len(E)
         /\ ToSet(E) = ToSet(ApiBindings) \cup OptionalSecrets
         /\ \A i, j \in DOMAIN E :
              E[i].name = E[j].name => i = j \/ (E[i].kind = "secret" /\ E[j].kind = "secret")
<1> DEFINE A == ApiBindings
           B == SetToSeq(SocialSecrets(env))
           C == SetToSeq(OptionalSecrets)
           S == ToSet(A) \cup OptionalSecrets
           a == Len(A)
           b == Len(B)
           c == Len(C)
<1>1. A \in Seq(ToSet(A))
  BY DeployAssumption DEF DeployAssumption
<1>2. /\ B \in Seq(OptionalSecrets) /\ ToSet(B) \subseteq OptionalSecrets
      /\ C \in Seq(OptionalSecrets) /\ ToSet(C) = OptionalSecrets
  <2>1. IsFiniteSet(SocialSecrets(env)) /\ IsFiniteSet(OptionalSecrets)
    BY OptionalSecretsFinite, SocialSecretsAreOptional, FS_Subset
  <2>2. B \in Seq(SocialSecrets(env)) /\ ToSet(B) = SocialSecrets(env)
    BY <2>1, SetToSeqIs
  <2>3. C \in Seq(OptionalSecrets) /\ ToSet(C) = OptionalSecrets
    BY <2>1, SetToSeqIs
  <2>4. SocialSecrets(env) \subseteq OptionalSecrets
    BY SocialSecretsAreOptional
  <2> HIDE DEF B, C
  <2> QED BY <2>2, <2>3, <2>4
<1>3. E = A \o B \o C
  BY DEF WranglerEntries, ApiEnv
<1> HIDE DEF A, B, C
<1>4. A \in Seq(S) /\ B \in Seq(S) /\ C \in Seq(S)
  BY <1>1, <1>2
<1>5. /\ a \in Nat /\ b \in Nat /\ c \in Nat
      /\ DOMAIN A = 1..a /\ DOMAIN B = 1..b /\ DOMAIN C = 1..c
  BY <1>4
<1> HIDE DEF S
<1>6. /\ A \o B \in Seq(S) /\ Len(A \o B) = a + b
      /\ \A i \in 1..a + b : (A \o B)[i] = IF i <= a THEN A[i] ELSE B[i - a]
  BY <1>4, ConcatProperties
<1>7. /\ E \in Seq(S) /\ Len(E) = a + b + c
      /\ \A i \in 1..a + b + c : E[i] = IF i <= a + b THEN (A \o B)[i] ELSE C[i - (a + b)]
  BY <1>3, <1>4, <1>6, ConcatProperties
<1>8. DOMAIN E = 1..a + b + c /\ Len(E) \in Nat
  BY <1>7, <1>5
<1> HIDE DEF a, b, c
<1>9. /\ \A i \in 1..a : i \in DOMAIN E /\ E[i] = A[i]
      /\ \A i \in 1..c : a + b + i \in DOMAIN E /\ E[a + b + i] = C[i]
      /\ \A i \in DOMAIN E : i \in 1..a \/ (i > a /\ E[i] \in OptionalSecrets)
  <2>1. ASSUME NEW i \in 1..a PROVE i \in DOMAIN E /\ E[i] = A[i]
    BY <1>5, <1>6, <1>7, <1>8
  <2>2. ASSUME NEW i \in 1..c PROVE a + b + i \in DOMAIN E /\ E[a + b + i] = C[i]
    <3> DEFINE k == a + b + i
    <3>1. k \in 1..a + b + c /\ ~(k <= a + b) /\ k - (a + b) = i
      BY <1>5
    <3> HIDE DEF k
    <3>2. k \in DOMAIN E /\ E[k] = C[k - (a + b)]
      BY <3>1, <1>7, <1>8
    <3> QED BY <3>1, <3>2 DEF k
  <2>3. ASSUME NEW i \in DOMAIN E, ~(i \in 1..a) PROVE i > a /\ E[i] \in OptionalSecrets
    <3>1. CASE i <= a + b
      <4>1. i > a /\ i - a \in 1..b /\ E[i] = B[i - a]
        BY <1>5, <1>6, <1>7, <1>8, <2>3, <3>1
      <4> QED BY <4>1, <1>2, <1>5
    <3>2. CASE ~(i <= a + b)
      <4>1. i > a /\ i - (a + b) \in 1..c /\ E[i] = C[i - (a + b)]
        BY <1>5, <1>7, <1>8, <2>3, <3>2
      <4> QED BY <4>1, <1>2, <1>5
    <3> QED BY <3>1, <3>2
  <2> QED BY <2>1, <2>2, <2>3
<1>10. ToSet(E) = ToSet(A) \cup OptionalSecrets
  <2>1. ToSet(A) \subseteq ToSet(E)
    BY <1>9, <1>5 DEF ToSet
  <2>2. ASSUME NEW o \in OptionalSecrets PROVE o \in ToSet(E)
    <3>1. PICK i \in 1..c : C[i] = o
      BY <1>2, <1>5 DEF ToSet
    <3> QED BY <3>1, <1>9 DEF ToSet
  <2>3. ToSet(E) \subseteq ToSet(A) \cup OptionalSecrets
    BY <1>9, <1>5 DEF ToSet
  <2> QED BY <2>1, <2>2, <2>3
<1>11. ASSUME NEW i \in DOMAIN E, NEW j \in DOMAIN E, E[i].name = E[j].name
       PROVE  i = j \/ (E[i].kind = "secret" /\ E[j].kind = "secret")
  <2>1. CASE i \in 1..a /\ j \in 1..a
    BY <1>5, <1>9, <1>11, <2>1, DeployAssumption DEF DeployAssumption, A
  <2>2. CASE ~(i \in 1..a) /\ ~(j \in 1..a)
    BY <1>9, <2>2, OptionalSecretsAreSecret
  <2>3. ASSUME NEW k \in DOMAIN E, NEW l \in DOMAIN E, k \in 1..a, ~(l \in 1..a)
        PROVE  E[k].name # E[l].name
    <3>1. E[k] \in ToSet(A) /\ E[l] \in OptionalSecrets
      BY <1>5, <1>9, <2>3 DEF ToSet
    <3>2. E[k].name \in NamesOf(ToSet(A)) /\ E[l].name \in NamesOf(OptionalSecrets)
      BY <3>1 DEF NamesOf
    <3> QED BY <3>2, DeployAssumption DEF DeployAssumption, A
  <2> QED BY <1>11, <2>1, <2>2, <2>3
<1> QED BY <1>8, <1>10, <1>11 DEF A

-----------------------------------------------------------------------------
(* What the loop keeps: after n entries every section holds the names of   *)
(* the entries of its kinds among them, each once.                         *)
NamesSeen(E, n, s) == {E[i].name : i \in {j \in 1..n : SectionOf[E[j].kind] = s}}

Mirrors(E, spec, n) ==
  /\ spec = [s \in Section |-> spec[s]]
  /\ \A i \in 1..n : E[i].kind \in DOMAIN SectionOf
  /\ \A s \in Section \ {"migrations"} :
       /\ spec[s] \in Seq(NamesOf(ToSet(E))) /\ ToSet(spec[s]) = NamesSeen(E, n, s)
       /\ \A i, j \in DOMAIN spec[s] : spec[s][i] = spec[s][j] => i = j

(* Every kind has a section, and only a secret goes to the secrets.        *)
LEMMA SectionsAre ==
  /\ \A k \in DOMAIN SectionOf : /\ SectionOf[k] \in Section \ {"migrations"}
                                 /\ SectionOf[k] = "secrets" <=> k = "secret"
  /\ SectionOf["ownObject"] = "durable_objects" /\ "secret" \in DOMAIN SectionOf
BY DEF SectionOf, Section

(* Appending a name that is new keeps every name there once.               *)
LEMMA AppendIs ==
  ASSUME NEW S, NEW q \in Seq(S), NEW e \in S
  PROVE  /\ Append(q, e) \in Seq(S) /\ ToSet(Append(q, e)) = ToSet(q) \cup {e}
         /\ e \notin ToSet(q) /\ (\A i, j \in DOMAIN q : q[i] = q[j] => i = j) =>
              \A i, j \in DOMAIN Append(q, e) : Append(q, e)[i] = Append(q, e)[j] => i = j
<1> DEFINE r == Append(q, e)
           n == Len(q)
<1>1. /\ r \in Seq(S) /\ Len(r) = n + 1 /\ r[n + 1] = e /\ \A i \in 1..n : r[i] = q[i]
  BY AppendProperties
<1>2. n \in Nat /\ DOMAIN q = 1..n
  OBVIOUS
<1> HIDE DEF r, n
<1>3. DOMAIN r = 1..n + 1
  BY <1>1, <1>2
<1>4. ToSet(r) = ToSet(q) \cup {e}
  <2>1. 1..n + 1 = (1..n) \cup {n + 1}
    BY <1>2
  <2> QED BY <1>1, <1>2, <1>3, <2>1 DEF ToSet
<1>5. ASSUME e \notin ToSet(q), \A i, j \in DOMAIN q : q[i] = q[j] => i = j,
             NEW i \in DOMAIN r, NEW j \in DOMAIN r, r[i] = r[j]
      PROVE  i = j
  <2>1. \A k \in 1..n : q[k] # e
    BY <1>2, <1>5 DEF ToSet
  <2>2. \A k \in DOMAIN r : k = n + 1 \/ k \in 1..n
    BY <1>2, <1>3
  <2> QED BY <1>1, <1>2, <1>5, <2>1, <2>2
<1> QED BY <1>1, <1>4, <1>5 DEF r

(* The specification the loop starts from.                                 *)
LEMMA EmptyMirrors == ASSUME NEW E PROVE Mirrors(E, EmptySpec, 0)
<1>1. \A s \in Section : EmptySpec[s] = <<>>
  BY DEF EmptySpec
<1>2. 1..0 = {}
  OBVIOUS
<1>3. DOMAIN <<>> = {} /\ ToSet(<<>>) = {}
  BY DEF ToSet
<1>4. \A s : NamesSeen(E, 0, s) = {}
  BY <1>2 DEF NamesSeen
<1>5. EmptySpec = [s \in Section |-> EmptySpec[s]]
  BY <1>1 DEF EmptySpec
<1>6. <<>> \in Seq(NamesOf(ToSet(E)))
  OBVIOUS
<1> QED BY <1>1, <1>2, <1>3, <1>4, <1>5, <1>6 DEF Mirrors

(* The section an entry goes to: nothing else changes but the migrations,  *)
(* and the name is there only of a secret that was pushed before.          *)
LEMMA ClassifyIs ==
  ASSUME NEW spec, spec = [s \in Section |-> spec[s]], NEW b, Classify(spec, b) # Nowhere,
         NEW t, t = SectionOf[b.kind]
  PROVE  /\ b.kind \in DOMAIN SectionOf
         /\ Classify(spec, b) = [s \in Section |-> Classify(spec, b)[s]]
         /\ \A s \in Section \ {"migrations", t} : Classify(spec, b)[s] = spec[s]
         /\ \/ Classify(spec, b)[t] = Append(spec[t], b.name)
               /\ (b.kind = "secret" => b.name \notin ToSet(spec[t]))
            \/ Classify(spec, b)[t] = spec[t] /\ b.kind = "secret" /\ b.name \in ToSet(spec[t])
<1> DEFINE r == Classify(spec, b)
<1>1. ~(spec = Nowhere \/ ~Supported(spec, b))
  BY Zenon DEF Classify
<1>2. b.kind \in DOMAIN SectionOf
  BY <1>1 DEF Supported
<1>3. r = CASE b.kind = "secret" -> PushSecret(spec, b.name)
            [] b.kind = "ownObject" ->
                 [spec EXCEPT !["durable_objects"] = Append(@, b.name),
                              !["migrations"] = Append(@, <<"v1", b.name>>)]
            [] OTHER -> [spec EXCEPT ![SectionOf[b.kind]] = Append(@, b.name)]
  BY <1>1, Zenon DEF Classify
<1>4. t \in Section \ {"migrations"} /\ (t = "secrets" <=> b.kind = "secret")
  BY <1>2, SectionsAre
<1>5. "migrations" \in Section /\ "durable_objects" \in Section /\ "durable_objects" # "migrations"
  BY DEF Section
<1> HIDE DEF r
<1>6. CASE b.kind = "secret"
  <2>1. t = "secrets" /\ r = PushSecret(spec, b.name)
    BY <1>3, <1>4, <1>6
  <2>2. CASE b.name \in ToSet(spec[t])
    <3>1. r = spec
      BY <2>1, <2>2 DEF PushSecret
    <3> QED BY <1>2, <1>6, <2>2, <3>1 DEF r
  <2>3. CASE b.name \notin ToSet(spec[t])
    <3>1. r = [spec EXCEPT ![t] = Append(@, b.name)]
      BY <2>1, <2>3 DEF PushSecret
    <3>2. /\ r = [s \in Section |-> r[s]] /\ r[t] = Append(spec[t], b.name)
          /\ \A s \in Section \ {"migrations", t} : r[s] = spec[s]
      BY <1>4, <3>1
    <3> QED BY <1>2, <2>3, <3>2 DEF r
  <2> QED BY <2>2, <2>3
<1>7. CASE b.kind = "ownObject"
  <2>1. t = "durable_objects" /\ b.kind # "secret"
    BY <1>7, SectionsAre
  <2>2. r = [spec EXCEPT ![t] = Append(@, b.name), !["migrations"] = Append(@, <<"v1", b.name>>)]
    BY <1>3, <1>7, <2>1
  <2>3. /\ r = [s \in Section |-> r[s]] /\ r[t] = Append(spec[t], b.name)
        /\ \A s \in Section \ {"migrations", t} : r[s] = spec[s]
    BY <1>4, <1>5, <2>2
  <2> QED BY <1>2, <2>1, <2>3 DEF r
<1>8. CASE b.kind # "secret" /\ b.kind # "ownObject"
  <2>1. r = [spec EXCEPT ![t] = Append(@, b.name)]
    BY <1>3, <1>8
  <2>2. /\ r = [s \in Section |-> r[s]] /\ r[t] = Append(spec[t], b.name)
        /\ \A s \in Section \ {"migrations", t} : r[s] = spec[s]
    BY <1>4, <2>1
  <2> QED BY <1>2, <1>8, <2>2 DEF r
<1> QED BY <1>6, <1>7, <1>8

(* One entry more.                                                         *)
LEMMA ClassifyMirrors ==
  ASSUME NEW env, NEW E, E = WranglerEntries(env), NEW n \in Nat, n + 1 \in DOMAIN E,
         NEW spec, Mirrors(E, spec, n), Classify(spec, E[n + 1]) # Nowhere
  PROVE  Mirrors(E, Classify(spec, E[n + 1]), n + 1)
<1> DEFINE b == E[n + 1]
           r == Classify(spec, b)
           t == SectionOf[b.kind]
           All == NamesOf(ToSet(E))
<1>1. /\ b.kind \in DOMAIN SectionOf /\ r = [s \in Section |-> r[s]]
      /\ \A s \in Section \ {"migrations", t} : r[s] = spec[s]
      /\ \/ r[t] = Append(spec[t], b.name) /\ (b.kind = "secret" => b.name \notin ToSet(spec[t]))
         \/ r[t] = spec[t] /\ b.kind = "secret" /\ b.name \in ToSet(spec[t])
  <2>1. spec = [s \in Section |-> spec[s]]
    BY DEF Mirrors
  <2> QED BY <2>1, ClassifyIs
<1> HIDE DEF r
<1>2. t \in Section \ {"migrations"}
  BY <1>1, SectionsAre
<1>3. b.name \in All
  BY DEF ToSet, NamesOf
<1>4. DOMAIN E = 1..Len(E) /\ Len(E) \in Nat
  BY EntriesAre
<1>5. n + 1 \in 1..n + 1 /\ 1..n + 1 = (1..n) \cup {n + 1}
  OBVIOUS
<1>6. \A i \in 1..n : i \in DOMAIN E /\ i # n + 1
  BY <1>4
<1>7. \A s : NamesSeen(E, n + 1, s) = IF s = t THEN NamesSeen(E, n, s) \cup {b.name}
                                               ELSE NamesSeen(E, n, s)
  BY <1>5 DEF NamesSeen
<1>8. b.kind # "secret" => b.name \notin NamesSeen(E, n, t)
  BY <1>6, EntriesAre DEF NamesSeen
<1> HIDE DEF b, t, All
<1>9. ASSUME NEW s \in Section \ {"migrations"}
      PROVE  /\ r[s] \in Seq(All) /\ ToSet(r[s]) = NamesSeen(E, n + 1, s)
             /\ \A i, j \in DOMAIN r[s] : r[s][i] = r[s][j] => i = j
  <2>1. /\ spec[s] \in Seq(All) /\ ToSet(spec[s]) = NamesSeen(E, n, s)
        /\ \A i, j \in DOMAIN spec[s] : spec[s][i] = spec[s][j] => i = j
    BY DEF Mirrors, All
  <2>2. CASE s # t
    BY <1>1, <1>7, <2>1, <2>2
  <2>3. CASE s = t /\ r[t] = spec[t] /\ b.name \in ToSet(spec[t])
    <3>1. b.name \in NamesSeen(E, n, s) /\ r[s] = spec[s]
      BY <2>1, <2>3
    <3>2. NamesSeen(E, n + 1, s) = NamesSeen(E, n, s) \cup {b.name}
      BY <1>7, <2>3
    <3>3. NamesSeen(E, n + 1, s) = NamesSeen(E, n, s)
      BY <3>1, <3>2
    <3> QED BY <2>1, <3>1, <3>3
  <2>4. CASE s = t /\ r[t] = Append(spec[t], b.name) /\ b.name \notin ToSet(spec[t])
    <3> DEFINE q == spec[s]
               e == b.name
    <3>1. q \in Seq(All) /\ e \in All /\ e \notin ToSet(q) /\ r[s] = Append(q, e)
      BY <1>3, <2>1, <2>4
    <3>2. \A i, j \in DOMAIN q : q[i] = q[j] => i = j
      BY <2>1
    <3>3. NamesSeen(E, n + 1, s) = ToSet(q) \cup {e}
      BY <1>7, <2>1, <2>4
    <3> HIDE DEF q, e
    <3>4. /\ Append(q, e) \in Seq(All) /\ ToSet(Append(q, e)) = ToSet(q) \cup {e}
          /\ \A i, j \in DOMAIN Append(q, e) : Append(q, e)[i] = Append(q, e)[j] => i = j
      BY <3>1, <3>2, AppendIs
    <3> QED BY <3>1, <3>3, <3>4
  <2> QED BY <1>1, <1>8, <2>1, <2>2, <2>3, <2>4
<1>10. \A i \in 1..n + 1 : E[i].kind \in DOMAIN SectionOf
  BY <1>1, <1>5 DEF Mirrors, b
<1> QED BY <1>1, <1>9, <1>10 DEF Mirrors, r, b, All

(* So the whole configuration does, unless an entry has no section.        *)
LEMMA WranglerSpecMirrors ==
  ASSUME NEW env, NEW E, E = WranglerEntries(env), WranglerSpec(env) # Nowhere
  PROVE  \E spec : Mirrors(E, spec, Len(E)) /\ WranglerSpec(env) = OmitEmptyCollections(spec)
<1> DEFINE m == Len(E)
           after(n) == SpecAfter(E, n)
           kept(n) == after(n) = Nowhere \/ Mirrors(E, after(n), n)
           lost == {n \in Nat : n \in 0..m /\ ~kept(n)}
<1>1. m \in Nat /\ DOMAIN E = 1..m
  BY EntriesAre
<1> HIDE DEF m
<1>2. /\ after(0) = EmptySpec /\ FoldLeft(Classify, EmptySpec, E) = after(m)
      /\ \A n \in 1..m : after(n) = Classify(after(n - 1), E[n])
  BY <1>1, SpecAfterIs
<1> HIDE DEF after
<1>3. kept(0)
  BY <1>2, EmptyMirrors
<1>4. ASSUME NEW n \in Nat, n + 1 \in 1..m, kept(n) PROVE kept(n + 1)
  <2>1. after(n + 1) = Classify(after(n), E[n + 1])
    <3>1. n + 1 - 1 = n
      OBVIOUS
    <3> QED BY <1>2, <1>4, <3>1
  <2>2. CASE after(n) = Nowhere
    BY <2>1, <2>2 DEF Classify
  <2>3. CASE Mirrors(E, after(n), n) /\ after(n + 1) # Nowhere
    BY <1>1, <1>4, <2>1, <2>3, ClassifyMirrors
  <2> QED BY <1>4, <2>2, <2>3
<1> HIDE DEF kept
<1>5. kept(m)
  <2> SUFFICES ASSUME ~kept(m) PROVE FALSE
    OBVIOUS
  <2>1. lost \subseteq Nat /\ lost # {}
    BY <1>1
  <2>2. PICK n \in lost : \A k \in lost : n <= k
    BY <2>1, LeastNumber
  <2>3. n \in Nat /\ n # 0 /\ n <= m /\ ~kept(n)
    BY <1>3, <2>2
  <2>4. n - 1 \in Nat /\ n - 1 \in 0..m /\ n - 1 + 1 = n /\ n \in 1..m /\ ~(n <= n - 1)
    BY <1>1, <2>3
  <2>5. kept(n - 1)
    BY <2>2, <2>4
  <2> QED BY <1>4, <2>3, <2>4, <2>5
<1>6. after(m) # Nowhere /\ WranglerSpec(env) = OmitEmptyCollections(after(m))
  BY <1>2, Zenon DEF WranglerSpec
<1> QED BY <1>5, <1>6 DEF kept, m

-----------------------------------------------------------------------------
(* What such a configuration says of the bindings: every entry is named,   *)
(* in one place, and the secrets as secrets.                               *)
LEMMA MirrorSays ==
  ASSUME NEW env, NEW E, E = WranglerEntries(env), NEW spec, Mirrors(E, spec, Len(E)),
         NEW f, f = OmitEmptyCollections(spec)
  PROVE  /\ \A s, t \in Declared(f) : \A i \in DOMAIN f[s], j \in DOMAIN f[t] :
              f[s][i] = f[t][j] => s = t /\ i = j
         /\ UNION {ToSet(f[s]) : s \in Declared(f)}
              = NamesOf(ToSet(ApiBindings)) \cup NamesOf(OptionalSecrets)
         /\ SecretsIn(f) = Required \cup NamesOf(OptionalSecrets)
<1> DEFINE m == Len(E)
           Sections == Section \ {"migrations"}
<1>1. m \in Nat /\ DOMAIN E = 1..m /\ ToSet(E) = ToSet(ApiBindings) \cup OptionalSecrets
  BY EntriesAre
<1>2. \A s \in Sections : /\ ToSet(spec[s]) = NamesSeen(E, m, s)
                          /\ \A i, j \in DOMAIN spec[s] : spec[s][i] = spec[s][j] => i = j
  BY DEF Mirrors
<1>3. \A i \in 1..m : E[i].kind \in DOMAIN SectionOf
  BY DEF Mirrors
<1>4. \A i \in 1..m : /\ SectionOf[E[i].kind] \in Sections
                      /\ SectionOf[E[i].kind] = "secrets" <=> E[i].kind = "secret"
  BY <1>3, SectionsAre
<1> HIDE DEF m
<1>5. DOMAIN f = {t \in Section : spec[t] # <<>>} /\ \A s \in DOMAIN f : f[s] = spec[s]
  BY DEF OmitEmptyCollections
<1>6. ToSet(<<>>) = {}
  BY DEF ToSet
<1>7. \A s \in Declared(f) : s \in Sections /\ f[s] = spec[s]
  BY <1>5 DEF Declared
<1>8. "secrets" \in Sections
  BY DEF Section
<1> HIDE DEF Sections
<1>9. ASSUME NEW s \in Declared(f), NEW t \in Declared(f),
             NEW i \in DOMAIN f[s], NEW j \in DOMAIN f[t], f[s][i] = f[t][j]
      PROVE  s = t /\ i = j
  <2>1. f[s][i] \in NamesSeen(E, m, s) /\ f[t][j] \in NamesSeen(E, m, t)
    BY <1>2, <1>7 DEF ToSet
  <2>2. PICK k \in 1..m : SectionOf[E[k].kind] = s /\ f[s][i] = E[k].name
    BY <2>1 DEF NamesSeen
  <2>3. PICK l \in 1..m : SectionOf[E[l].kind] = t /\ f[t][j] = E[l].name
    BY <2>1 DEF NamesSeen
  <2>4. k = l \/ (E[k].kind = "secret" /\ E[l].kind = "secret")
    BY <1>1, <1>9, <2>2, <2>3, EntriesAre
  <2>5. s = t
    BY <2>2, <2>3, <2>4
  <2> QED BY <1>2, <1>7, <1>9, <2>5
<1>10. UNION {ToSet(f[s]) : s \in Declared(f)} = NamesOf(ToSet(E))
  <2>1. ASSUME NEW s \in Declared(f), NEW x \in ToSet(f[s]) PROVE x \in NamesOf(ToSet(E))
    <3>1. x \in NamesSeen(E, m, s)
      BY <1>2, <1>7
    <3> QED BY <3>1, <1>1 DEF NamesSeen, NamesOf, ToSet
  <2>2. ASSUME NEW x \in NamesOf(ToSet(E)) PROVE \E s \in Declared(f) : x \in ToSet(f[s])
    <3>1. PICK i \in 1..m : x = E[i].name
      BY <1>1 DEF NamesOf, ToSet
    <3> DEFINE s == SectionOf[E[i].kind]
    <3>2. s \in Sections /\ x \in NamesSeen(E, m, s)
      BY <1>4, <3>1 DEF NamesSeen
    <3> HIDE DEF s
    <3>3. x \in ToSet(spec[s])
      BY <1>2, <3>2
    <3>4. s \in Declared(f)
      BY <1>5, <1>6, <3>2, <3>3 DEF Declared, Sections
    <3> QED BY <1>7, <3>3, <3>4
  <2> QED BY <2>1, <2>2
<1>11. SecretsIn(f) = NamesSeen(E, m, "secrets")
  <2>1. CASE "secrets" \in DOMAIN f
    BY <1>2, <1>5, <1>8, <2>1 DEF SecretsIn
  <2>2. CASE "secrets" \notin DOMAIN f
    <3>1. spec["secrets"] = <<>>
      BY <1>5, <1>8, <2>2 DEF Sections
    <3>2. NamesSeen(E, m, "secrets") = {}
      BY <1>2, <1>6, <1>8, <3>1
    <3> QED BY <2>2, <3>2 DEF SecretsIn
  <2> QED BY <2>1, <2>2
<1>12. NamesSeen(E, m, "secrets") = NamesOf({b \in ToSet(E) : b.kind = "secret"})
  <2>1. NamesSeen(E, m, "secrets") = {E[i].name : i \in {j \in 1..m : E[j].kind = "secret"}}
    BY <1>4 DEF NamesSeen
  <2> QED BY <1>1, <2>1 DEF NamesOf, ToSet
<1>13. NamesOf({b \in ToSet(E) : b.kind = "secret"}) = Required \cup NamesOf(OptionalSecrets)
  <2>1. {b \in ToSet(E) : b.kind = "secret"}
          = {b \in ToSet(ApiBindings) : b.kind = "secret"} \cup OptionalSecrets
    BY <1>1, OptionalSecretsAreSecret
  <2> QED BY <2>1 DEF NamesOf, Required
<1>14. NamesOf(ToSet(E)) = NamesOf(ToSet(ApiBindings)) \cup NamesOf(OptionalSecrets)
  BY <1>1 DEF NamesOf
<1> QED BY <1>9, <1>10, <1>11, <1>12, <1>13, <1>14

(***************************************************************************)
(* The file is one that was generated, and what runs was bound by some     *)
(* deploy: the two need not be of the same one.                            *)
(***************************************************************************)
FileWasGenerated == file # Nowhere => \E env : file = WranglerSpec(env)

ApiWasBound ==
  /\ DOMAIN live = {"agent", "api"}
  /\ live.api # Nowhere =>
       live.api \subseteq NamesOf(ToSet(ApiBindings)) \cup NamesOf(OptionalSecrets)

DeployInv == FileWasGenerated /\ ApiWasBound

(* Nothing is generated or bound at first.                                 *)
LEMMA DeployInvInit == DeployInit => DeployInv
BY DEF DeployInit, DeployInv, FileWasGenerated, ApiWasBound

(* What a deploy binds, whatever its environment.                          *)
LEMMA ApiEnvNames ==
  ASSUME NEW env
  PROVE  NamesOf(ToSet(ApiEnv(env)))
           \subseteq NamesOf(ToSet(ApiBindings)) \cup NamesOf(OptionalSecrets)
<1> DEFINE A == ApiBindings
           B == SetToSeq(SocialSecrets(env))
           S == ToSet(A) \cup OptionalSecrets
<1>1. IsFiniteSet(SocialSecrets(env)) /\ SocialSecrets(env) \subseteq OptionalSecrets
  BY OptionalSecretsFinite, SocialSecretsAreOptional, FS_Subset
<1>2. B \in Seq(SocialSecrets(env))
  BY <1>1, SetToSeqIs
<1> HIDE DEF B
<1>3. A \in Seq(S) /\ B \in Seq(S)
  BY <1>1, <1>2, DeployAssumption DEF DeployAssumption
<1> HIDE DEF S
<1>4. A \o B \in Seq(S)
  BY <1>3, ConcatProperties
<1>5. ToSet(A \o B) \subseteq S
  BY <1>4 DEF ToSet
<1> QED BY <1>5 DEF ApiEnv, NamesOf, B, S

(* Only a deploy of the API, a write and a destroy touch the two.          *)
LEMMA DeployInvStep == DeployInv /\ [DeployNext]_deployVars => DeployInv'
<1> SUFFICES ASSUME DeployInv, [DeployNext]_deployVars PROVE DeployInv'
  OBVIOUS
<1>1. ASSUME UNCHANGED <<live, file>> PROVE DeployInv'
  BY <1>1 DEF DeployInv, FileWasGenerated, ApiWasBound
<1>2. CASE DeployAgent
  BY <1>2 DEF DeployAgent, DeployInv, FileWasGenerated, ApiWasBound
<1>3. CASE DeployApi
  <2>1. live' = [live EXCEPT !.api = NamesOf(ToSet(ApiEnv(deploy.env)))] /\ file' = file
    BY <1>3 DEF DeployApi
  <2>2. DOMAIN live' = {"agent", "api"} /\ live'.api = NamesOf(ToSet(ApiEnv(deploy.env)))
    BY <2>1 DEF DeployInv, ApiWasBound
  <2> QED BY <2>1, <2>2, ApiEnvNames DEF DeployInv, FileWasGenerated, ApiWasBound
<1>4. CASE WriteWranglerJsonc
  BY <1>4 DEF WriteWranglerJsonc, DeployInv, FileWasGenerated, ApiWasBound
<1>5. CASE Destroy
  BY <1>5 DEF Destroy, DeployInv, FileWasGenerated, ApiWasBound
<1>6. CASE \/ \E t \in Tree : Edit(t)
           \/ \E name \in Required \cup NamesOf(OptionalSecrets) : Configure(name)
           \/ StartDeploy \/ BuildAgent \/ Abort \/ UNCHANGED deployVars
  BY <1>1, <1>6 DEF Edit, Configure, StartDeploy, BuildAgent, Abort, deployVars
<1> QED BY <1>2, <1>3, <1>4, <1>5, <1>6 DEF DeployNext

(***************************************************************************)
(* The generated configuration names every binding of the API once and as  *)
(* what it is, whatever the environments of the deploys were, wherever     *)
(* they stopped, and whichever of them left what runs (wrangler.ts         *)
(* 290-291, api.ts 35-38).                                                 *)
(***************************************************************************)
THEOREM FileMirrorsTheApi == DeploySpec => []FileMirrorsApi
<1>1. DeployInv => FileMirrorsApi
  <2> SUFFICES ASSUME DeployInv, file # Nowhere PROVE FileMirrorsApi
    BY DEF FileMirrorsApi
  <2>1. PICK env : file = WranglerSpec(env)
    BY DEF DeployInv, FileWasGenerated
  <2> DEFINE E == WranglerEntries(env)
  <2>2. PICK spec : Mirrors(E, spec, Len(E)) /\ file = OmitEmptyCollections(spec)
    BY <2>1, WranglerSpecMirrors
  <2> HIDE DEF E
  <2>3. /\ \A s, t \in Declared(file) : \A i \in DOMAIN file[s], j \in DOMAIN file[t] :
             file[s][i] = file[t][j] => s = t /\ i = j
        /\ UNION {ToSet(file[s]) : s \in Declared(file)}
             = NamesOf(ToSet(ApiBindings)) \cup NamesOf(OptionalSecrets)
        /\ SecretsIn(file) = Required \cup NamesOf(OptionalSecrets)
    BY <2>2, MirrorSays DEF E
  <2> QED BY <2>3 DEF FileMirrorsApi, DeployInv, ApiWasBound
<1> QED BY <1>1, DeployInvInit, DeployInvStep, PTL DEF DeploySpec

=============================================================================
