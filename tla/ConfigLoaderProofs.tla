------------------------- MODULE ConfigLoaderProofs -------------------------
(***************************************************************************)
(* Proofs about ConfigLoader: LoaderInv is inductive; load never enters a  *)
(* file twice at a time, a task is merged field by field of all that its   *)
(* files give, and nothing that is imported is lost but behind a failure   *)
(* that was logged, for every layout and every condition of the files.     *)
(***************************************************************************)
EXTENDS ConfigLoader, TLAPS

Calls == [of : Entry, config : Config, todo : Seq(Entry)]

Answers == [failed : BOOLEAN, config : Config, pending : BOOLEAN]

GiversTyped == defines \in [{"context", "commands"} -> SUBSET Source]

-----------------------------------------------------------------------------
(***************************************************************************)
(* The stack                                                               *)
(***************************************************************************)
LEMMA Pushed ==
    ASSUME NEW S, NEW s \in Seq(S), NEW x \in S
    PROVE  LET p == <<x>> \o s IN
           /\ p \in Seq(S) /\ p # <<>>
           /\ DOMAIN p = 1..(Len(s) + 1) /\ DOMAIN s = 1..Len(s) /\ Len(s) \in Nat
           /\ p[1] = x
           /\ \A i \in DOMAIN s : p[i + 1] = s[i]
           /\ \A i \in DOMAIN p : i # 1 => i - 1 \in DOMAIN s /\ p[i] = s[i - 1]
  OBVIOUS

LEMMA Popped ==
    ASSUME NEW S, NEW s \in Seq(S), s # <<>>
    PROVE  /\ Tail(s) \in Seq(S) /\ Head(s) \in S /\ Head(s) = s[1] /\ 1 \in DOMAIN s
           /\ \A i \in DOMAIN Tail(s) : i + 1 \in DOMAIN s /\ Tail(s)[i] = s[i + 1] /\ i + 1 > 1
           /\ \A i \in DOMAIN Tail(s) : i \in Nat
           /\ \A i \in DOMAIN s : i \in Nat
  OBVIOUS

LEMMA Replaced ==
    ASSUME NEW S, NEW s \in Seq(S), s # <<>>, NEW x \in S
    PROVE  LET p == <<x>> \o Tail(s) IN
           /\ p \in Seq(S) /\ DOMAIN p = DOMAIN s /\ p[1] = x
           /\ \A i \in DOMAIN s : i # 1 => p[i] = s[i] /\ i > 1
  OBVIOUS

-----------------------------------------------------------------------------
(***************************************************************************)
(* Merging                                                                 *)
(***************************************************************************)
LEMMA FilesTyped ==
    ASSUME NEW config \in Config
    PROVE  /\ config.files \in Seq(Source) /\ config.context \in Source \cup {Unset}
           /\ config.commands \in Seq(Source)
           /\ Len(config.files) \in Nat /\ DOMAIN config.files = 1..Len(config.files)
           /\ ToSet(config.files) \subseteq Source
  BY DEF Config, ToSet

LEMMA Concatenated ==
    ASSUME NEW S, NEW a \in Seq(S), NEW b \in Seq(S)
    PROVE  LET p == a \o b IN
           /\ p \in Seq(S) /\ DOMAIN p = 1..(Len(a) + Len(b))
           /\ DOMAIN a = 1..Len(a) /\ DOMAIN b = 1..Len(b)
           /\ Len(a) \in Nat /\ Len(b) \in Nat
           /\ \A i \in DOMAIN a : p[i] = a[i]
           /\ \A i \in DOMAIN b : p[i + Len(a)] = b[i]
  OBVIOUS

\* The files of a merged configuration, by their positions.
LEMMA MergedFiles ==
    ASSUME NEW a \in Config, NEW b \in Config
    PROVE  LET m == Merge(a, b) IN
           /\ m \in Config
           /\ DOMAIN m.files = 1..(Len(a.files) + Len(b.files))
           /\ \A i \in DOMAIN a.files : i \in DOMAIN m.files /\ m.files[i] = a.files[i]
           /\ \A i \in DOMAIN b.files :
                  /\ i + Len(a.files) \in DOMAIN m.files
                  /\ m.files[i + Len(a.files)] = b.files[i]
           /\ \A i \in DOMAIN m.files :
                  /\ i \in Nat
                  /\ i <= Len(a.files) => i \in DOMAIN a.files
                  /\ i > Len(a.files) => /\ i - Len(a.files) \in DOMAIN b.files
                                         /\ m.files[i] = b.files[i - Len(a.files)]
  <1> DEFINE m == Merge(a, b)
  <1>1. m.files = a.files \o b.files /\ m.context \in Source \cup {Unset}
    BY FilesTyped DEF Merge
  <1>c. m.commands \in Seq(Source)
    <2> DEFINE ac == a.commands
               bc == b.commands
    <2>1. ac \in Seq(Source) /\ bc \in Seq(Source) /\ m.commands = ac \o bc
      BY FilesTyped DEF Merge
    <2> HIDE DEF ac, bc, m
    <2> QED BY <2>1
  <1>2. a.files \in Seq(Source) /\ b.files \in Seq(Source)
    BY FilesTyped
  <1> DEFINE p == m.files
             n == Len(a.files)
  <1> DEFINE af == a.files
             bf == b.files
  <1>a. af \in Seq(Source) /\ bf \in Seq(Source) /\ p = af \o bf
    BY <1>1, <1>2
  <1> HIDE DEF m, af, bf, p
  <1>b. LET q == af \o bf IN
        /\ q \in Seq(Source) /\ DOMAIN q = 1..(Len(af) + Len(bf))
        /\ DOMAIN af = 1..Len(af) /\ DOMAIN bf = 1..Len(bf)
        /\ Len(af) \in Nat /\ Len(bf) \in Nat
        /\ \A i \in DOMAIN af : q[i] = af[i]
        /\ \A i \in DOMAIN bf : q[i + Len(af)] = bf[i]
    BY <1>a, Concatenated
  <1>3. /\ p \in Seq(Source) /\ DOMAIN p = 1..(n + Len(b.files))
        /\ DOMAIN a.files = 1..n /\ DOMAIN b.files = 1..Len(b.files)
        /\ n \in Nat /\ Len(b.files) \in Nat
        /\ \A i \in DOMAIN a.files : p[i] = a.files[i]
        /\ \A i \in DOMAIN b.files : p[i + n] = b.files[i]
    BY <1>a, <1>b DEF af, bf
  <1>4. m \in Config
    BY <1>1, <1>3, <1>c DEF Config, Merge, m, p
  <1> HIDE DEF p, n
  <1>5. ASSUME NEW i \in DOMAIN p
        PROVE  /\ i \in Nat
               /\ i <= n => i \in DOMAIN a.files
               /\ i > n => i - n \in DOMAIN b.files /\ p[i] = b.files[i - n]
    <2>1. i \in Nat /\ (i <= n => i \in DOMAIN a.files)
      BY <1>3
    <2>2. i > n => i - n \in DOMAIN b.files /\ (i - n) + n = i
      BY <1>3
    <2> QED BY <1>3, <2>1, <2>2
  <1>6. \A i \in DOMAIN a.files : i \in DOMAIN p
    BY <1>3
  <1>7. \A i \in DOMAIN b.files : i + n \in DOMAIN p
    BY <1>3
  <1> QED BY <1>3, <1>4, <1>5, <1>6, <1>7 DEF p, n, m

LEMMA MergedSet ==
    ASSUME NEW a \in Config, NEW b \in Config
    PROVE  ToSet(Merge(a, b).files) = ToSet(a.files) \cup ToSet(b.files)
  <1> DEFINE m == Merge(a, b)
  <1> DEFINE n == Len(a.files)
  <1>0. /\ \A i \in DOMAIN a.files : i \in DOMAIN m.files /\ m.files[i] = a.files[i]
        /\ \A i \in DOMAIN b.files : i + n \in DOMAIN m.files /\ m.files[i + n] = b.files[i]
        /\ \A i \in DOMAIN m.files :
               /\ i \in Nat
               /\ i <= n => i \in DOMAIN a.files
               /\ i > n => i - n \in DOMAIN b.files /\ m.files[i] = b.files[i - n]
        /\ n \in Nat
    BY MergedFiles, FilesTyped
  <1> HIDE DEF m, n
  <1>1. ASSUME NEW f \in ToSet(m.files) PROVE f \in ToSet(a.files) \cup ToSet(b.files)
    <2>1. PICK i \in DOMAIN m.files : f = m.files[i]
      BY <1>1 DEF ToSet
    <2>2. CASE i <= n
      BY <1>0, <2>1, <2>2 DEF ToSet
    <2>3. CASE i > n
      BY <1>0, <2>1, <2>3 DEF ToSet
    <2> QED BY <1>0, <2>2, <2>3
  <1>2. ASSUME NEW f \in ToSet(a.files) PROVE f \in ToSet(m.files)
    <2>1. PICK i \in DOMAIN a.files : f = a.files[i]
      BY <1>2 DEF ToSet
    <2> QED BY <1>0, <2>1 DEF ToSet
  <1>3. ASSUME NEW f \in ToSet(b.files) PROVE f \in ToSet(m.files)
    <2>1. PICK i \in DOMAIN b.files : f = b.files[i]
      BY <1>3 DEF ToSet
    <2> QED BY <1>0, <2>1 DEF ToSet
  <1> QED BY <1>1, <1>2, <1>3 DEF m

LEMMA MergedOnce ==
    ASSUME NEW a \in Config, NEW b \in Config, Apart(a, b),
           IsInjective(a.files), IsInjective(b.files)
    PROVE  IsInjective(Merge(a, b).files)
  <1> DEFINE m == Merge(a, b)
             n == Len(a.files)
  <1> SUFFICES ASSUME NEW i \in DOMAIN m.files, NEW j \in DOMAIN m.files,
                      m.files[i] = m.files[j]
               PROVE  i = j
    BY DEF IsInjective
  <1>0. i \in Nat /\ j \in Nat /\ n \in Nat
    BY MergedFiles, FilesTyped
  <1>a. ASSUME NEW k \in DOMAIN m.files, k <= n
        PROVE  /\ k \in DOMAIN a.files
               /\ m.files[k] = a.files[k] /\ m.files[k] \in ToSet(a.files)
    BY <1>a, MergedFiles DEF ToSet
  <1>b. ASSUME NEW k \in DOMAIN m.files, k > n
        PROVE  /\ k - n \in DOMAIN b.files
               /\ m.files[k] = b.files[k - n] /\ m.files[k] \in ToSet(b.files)
    <2>1. k - n \in DOMAIN b.files /\ m.files[k] = b.files[k - n]
      BY <1>b, MergedFiles
    <2> QED BY <2>1 DEF ToSet
  <1> HIDE DEF m, n
  <1>1. CASE i <= n /\ j <= n
    BY <1>1, <1>a DEF IsInjective
  <1>2. CASE i <= n /\ j > n
    BY <1>2, <1>a, <1>b DEF Apart
  <1>3. CASE i > n /\ j <= n
    BY <1>3, <1>a, <1>b DEF Apart
  <1>4. CASE i > n /\ j > n
    <2>1. i - n = j - n
      BY <1>4, <1>b DEF IsInjective
    <2> QED BY <1>0, <2>1
  <1> QED BY <1>0, <1>1, <1>2, <1>3, <1>4

\* The context is that of the configuration merged last, if it gives one.
LEMMA MergedWins ==
    ASSUME NEW a \in Config, NEW b \in Config, GiversTyped,
           Wins(a.context, a.files), Wins(b.context, b.files)
    PROVE  Wins(Merge(a, b).context, Merge(a, b).files)
  <1> DEFINE m == Merge(a, b)
             n == Len(a.files)
  <1>0. n \in Nat /\ Len(b.files) \in Nat
        /\ DOMAIN a.files = 1..n /\ DOMAIN b.files = 1..Len(b.files)
        /\ DOMAIN m.files = 1..(n + Len(b.files))
    BY MergedFiles, FilesTyped
  <1>1. Unset \notin defines["context"]
    BY FileAssumption DEF GiversTyped
  <1>b. ASSUME NEW k \in DOMAIN m.files, k > n
        PROVE  k - n \in DOMAIN b.files /\ m.files[k] = b.files[k - n]
    BY <1>b, MergedFiles
  <1>c. ASSUME NEW k \in DOMAIN m.files, ~(k > n)
        PROVE  k \in DOMAIN a.files /\ m.files[k] = a.files[k]
    <2>1. k \in Nat /\ (k <= n => k \in DOMAIN a.files)
      BY MergedFiles
    <2>2. k <= n
      BY <1>0, <1>c, <2>1
    <2> QED BY <2>1, <2>2, MergedFiles
  <1>2. CASE b.context = Unset
    <2>1. m.context = a.context
      BY <1>2 DEF Merge
    <2>2. \A k \in DOMAIN b.files : b.files[k] \notin defines["context"]
      BY <1>1, <1>2 DEF Wins
    <2>3. CASE a.context = Unset
      <3>1. \A k \in DOMAIN a.files : a.files[k] \notin defines["context"]
        BY <1>1, <2>3 DEF Wins
      <3>2. ASSUME NEW k \in DOMAIN m.files PROVE m.files[k] \notin defines["context"]
        <4>1. CASE k > n
          BY <1>b, <2>2, <4>1
        <4>2. CASE ~(k > n)
          BY <1>c, <3>1, <4>2
        <4> QED BY <4>1, <4>2
      <3> QED BY <2>1, <2>3, <3>2 DEF Wins
    <2>4. CASE a.context # Unset
      <3>1. PICK i \in DOMAIN a.files :
                /\ a.context = a.files[i] /\ a.files[i] \in defines["context"]
                /\ \A j \in DOMAIN a.files : j > i => a.files[j] \notin defines["context"]
        BY <2>4 DEF Wins
      <3>2. i \in DOMAIN m.files /\ m.files[i] = a.files[i]
        BY MergedFiles
      <3>3. ASSUME NEW k \in DOMAIN m.files, k > i PROVE m.files[k] \notin defines["context"]
        <4>1. CASE k > n
          BY <1>b, <2>2, <4>1
        <4>2. CASE ~(k > n)
          BY <1>c, <3>1, <3>3, <4>2
        <4> QED BY <4>1, <4>2
      <3> QED BY <2>1, <3>1, <3>2, <3>3 DEF Wins
    <2> QED BY <2>3, <2>4
  <1>3. CASE b.context # Unset
    <2>1. m.context = b.context
      BY <1>3 DEF Merge
    <2>2. PICK i \in DOMAIN b.files :
              /\ b.context = b.files[i] /\ b.files[i] \in defines["context"]
              /\ \A j \in DOMAIN b.files : j > i => b.files[j] \notin defines["context"]
      BY <1>3 DEF Wins
    <2>3. i + n \in DOMAIN m.files /\ m.files[i + n] = b.files[i]
      BY MergedFiles
    <2>4. ASSUME NEW k \in DOMAIN m.files, k > i + n PROVE m.files[k] \notin defines["context"]
      <3>1. k > n /\ k - n > i
        BY <1>0, <2>4
      <3> QED BY <1>b, <2>2, <3>1
    <2> QED BY <2>1, <2>2, <2>3, <2>4 DEF Wins
  <1> QED BY <1>2, <1>3

\* The commands of both are there, once each and in the order of the files.
LEMMA MergedInOrder ==
    ASSUME NEW a \in Config, NEW b \in Config, Apart(a, b),
           AllInOrder(a.commands, a.files), AllInOrder(b.commands, b.files)
    PROVE  AllInOrder(Merge(a, b).commands, Merge(a, b).files)
  <1> DEFINE c == a.commands \o b.commands
             n == Len(a.commands)
             m == Merge(a, b)
             l == Len(a.files)
  <1>1. /\ a.commands \in Seq(Source) /\ b.commands \in Seq(Source)
        /\ m.commands = c
    BY FilesTyped DEF Merge
  <1>2. /\ DOMAIN c = 1..(n + Len(b.commands)) /\ n \in Nat /\ Len(b.commands) \in Nat
        /\ DOMAIN a.commands = 1..n /\ DOMAIN b.commands = 1..Len(b.commands)
        /\ \A i \in DOMAIN a.commands : c[i] = a.commands[i]
        /\ \A i \in DOMAIN b.commands : c[i + n] = b.commands[i]
    <2> DEFINE ac == a.commands
               bc == b.commands
    <2>1. ac \in Seq(Source) /\ bc \in Seq(Source)
      BY <1>1
    <2> HIDE DEF ac, bc
    <2>2. LET q == ac \o bc IN
          /\ DOMAIN q = 1..(Len(ac) + Len(bc))
          /\ DOMAIN ac = 1..Len(ac) /\ DOMAIN bc = 1..Len(bc)
          /\ Len(ac) \in Nat /\ Len(bc) \in Nat
          /\ \A i \in DOMAIN ac : q[i] = ac[i]
          /\ \A i \in DOMAIN bc : q[i + Len(ac)] = bc[i]
      BY <2>1, Concatenated
    <2> QED BY <2>2 DEF ac, bc
  <1>3. l \in Nat /\ DOMAIN m.files \subseteq Nat
    BY MergedFiles, FilesTyped
  <1>f. ASSUME NEW p \in DOMAIN m.files, ~(p > l)
        PROVE  p \in DOMAIN a.files /\ m.files[p] = a.files[p] /\ m.files[p] \in ToSet(a.files)
    <2>1. p \in Nat /\ (p <= l => p \in DOMAIN a.files)
      BY MergedFiles
    <2>2. p <= l
      BY <1>3, <1>f, <2>1
    <2>3. p \in DOMAIN a.files /\ m.files[p] = a.files[p]
      BY <2>1, <2>2, MergedFiles
    <2> QED BY <2>3 DEF ToSet
  <1>g. ASSUME NEW p \in DOMAIN m.files, p > l
        PROVE  /\ p - l \in DOMAIN b.files /\ m.files[p] = b.files[p - l]
               /\ m.files[p] \in ToSet(b.files)
    <2>1. p - l \in DOMAIN b.files /\ m.files[p] = b.files[p - l]
      BY <1>g, MergedFiles
    <2> QED BY <2>1 DEF ToSet
  <1>h. ToSet(m.files) = ToSet(a.files) \cup ToSet(b.files)
    BY MergedSet
  <1> HIDE DEF c, n, m, l
  <1>a. ASSUME NEW i \in DOMAIN c, ~(i > n)
        PROVE  i \in DOMAIN a.commands /\ c[i] = a.commands[i] /\ c[i] \in ToSet(a.files)
    <2>1. i \in DOMAIN a.commands /\ c[i] = a.commands[i]
      BY <1>2, <1>a
    <2>2. c[i] \in ToSet(a.commands)
      BY <2>1 DEF ToSet
    <2> QED BY <2>1, <2>2 DEF AllInOrder
  <1>b. ASSUME NEW i \in DOMAIN c, i > n
        PROVE  /\ i - n \in DOMAIN b.commands /\ c[i] = b.commands[i - n]
               /\ c[i] \in ToSet(b.files)
    <2>1. i - n \in DOMAIN b.commands /\ (i - n) + n = i
      BY <1>2, <1>b
    <2>2. c[i] = b.commands[i - n]
      BY <1>2, <2>1
    <2>3. c[i] \in ToSet(b.commands)
      BY <2>1, <2>2 DEF ToSet
    <2> QED BY <2>1, <2>2, <2>3 DEF AllInOrder
  <1>4. ToSet(c) = ToSet(m.files) \cap defines["commands"]
    <2>1. ASSUME NEW x \in ToSet(c) PROVE x \in ToSet(a.commands) \cup ToSet(b.commands)
      <3>1. PICK i \in DOMAIN c : x = c[i]
        BY <2>1 DEF ToSet
      <3> QED BY <1>a, <1>b, <3>1 DEF ToSet
    <2>2. ASSUME NEW x \in ToSet(a.commands) PROVE x \in ToSet(c)
      <3>1. PICK i \in DOMAIN a.commands : x = a.commands[i]
        BY <2>2 DEF ToSet
      <3>2. i \in DOMAIN c
        BY <1>2
      <3> QED BY <1>2, <3>1, <3>2 DEF ToSet
    <2>3. ASSUME NEW x \in ToSet(b.commands) PROVE x \in ToSet(c)
      <3>1. PICK i \in DOMAIN b.commands : x = b.commands[i]
        BY <2>3 DEF ToSet
      <3>2. i + n \in DOMAIN c
        BY <1>2
      <3> QED BY <1>2, <3>1, <3>2 DEF ToSet
    <2>4. ToSet(c) = ToSet(a.commands) \cup ToSet(b.commands)
      BY <2>1, <2>2, <2>3
    <2> QED BY <1>h, <2>4 DEF AllInOrder
  <1>5. ASSUME NEW i \in DOMAIN c, NEW j \in DOMAIN c, c[i] = c[j] PROVE i = j
    <2>1. CASE ~(i > n) /\ ~(j > n)
      BY <1>5, <1>a, <2>1 DEF AllInOrder, IsInjective
    <2>2. CASE ~(i > n) /\ j > n
      BY <1>5, <1>a, <1>b, <2>2 DEF Apart
    <2>3. CASE i > n /\ ~(j > n)
      BY <1>5, <1>a, <1>b, <2>3 DEF Apart
    <2>4. CASE i > n /\ j > n
      <3>1. i - n = j - n
        BY <1>5, <1>b, <2>4 DEF AllInOrder, IsInjective
      <3> QED BY <1>2, <3>1
    <2> QED BY <2>1, <2>2, <2>3, <2>4
  <1>6. ASSUME NEW i \in DOMAIN c, NEW j \in DOMAIN c,
               NEW p \in DOMAIN m.files, NEW q \in DOMAIN m.files,
               c[i] = m.files[p], c[j] = m.files[q], i < j
        PROVE  p < q
    <2>1. CASE ~(j > n)
      <3>1. ~(i > n)
        BY <1>2, <1>6, <2>1
      <3>2. ~(p > l) /\ ~(q > l)
        BY <1>6, <1>a, <1>g, <2>1, <3>1 DEF Apart
      <3> QED BY <1>6, <1>a, <1>f, <2>1, <3>1, <3>2 DEF AllInOrder
    <2>2. CASE ~(i > n) /\ j > n
      <3>1. ~(p > l) /\ q > l
        BY <1>6, <1>a, <1>b, <1>f, <1>g, <2>2 DEF Apart
      <3> QED BY <1>3, <3>1
    <2>3. CASE i > n
      <3>1. j > n
        BY <1>2, <1>6, <2>3
      <3>2. p > l /\ q > l
        BY <1>6, <1>b, <1>f, <2>3, <3>1 DEF Apart
      <3>3. i - n < j - n
        BY <1>2, <1>6
      <3>4. /\ i - n \in DOMAIN b.commands /\ j - n \in DOMAIN b.commands
            /\ p - l \in DOMAIN b.files /\ q - l \in DOMAIN b.files
            /\ b.commands[i - n] = b.files[p - l] /\ b.commands[j - n] = b.files[q - l]
        BY <1>6, <1>b, <1>g, <2>3, <3>1, <3>2
      <3>5. p - l < q - l
        BY <3>3, <3>4 DEF AllInOrder
      <3> QED BY <1>3, <3>5
    <2> QED BY <2>1, <2>2, <2>3
  <1> QED BY <1>1, <1>4, <1>5, <1>6 DEF AllInOrder, IsInjective, m

LEMMA MergedWell ==
    ASSUME NEW a \in Config, NEW b \in Config, GiversTyped,
           WellMerged(a), WellMerged(b), Apart(a, b)
    PROVE  WellMerged(Merge(a, b))
  BY MergedSet, MergedOnce, MergedWins, MergedInOrder DEF WellMerged

-----------------------------------------------------------------------------
(***************************************************************************)
(* Every step keeps the invariant                                          *)
(***************************************************************************)
\* WellMerged, for given marks and givers.
Well(config, marked, given) ==
    /\ ToSet(config.files) \subseteq marked
    /\ IsInjective(config.files)
    /\ \/ config.context = Unset
          /\ \A i \in DOMAIN config.files : config.files[i] \notin given["context"]
       \/ \E i \in DOMAIN config.files :
             /\ config.context = config.files[i] /\ config.files[i] \in given["context"]
             /\ \A j \in DOMAIN config.files : j > i => config.files[j] \notin given["context"]
    /\ ToSet(config.commands) = ToSet(config.files) \cap given["commands"]
    /\ IsInjective(config.commands)
    /\ \A i, j \in DOMAIN config.commands : \A p, q \in DOMAIN config.files :
          config.commands[i] = config.files[p] /\ config.commands[j] = config.files[q] /\ i < j
              => p < q

LEMMA WellNow ==
    ASSUME NEW config
    PROVE  WellMerged(config) <=> Well(config, loaded, defines)
  BY DEF WellMerged, Wins, AllInOrder, Well

LEMMA MergedNow ==
    ASSUME MergedRight
    PROVE  /\ Well(answer.config, loaded, defines)
           /\ \A i \in DOMAIN stack : Well(stack[i].config, loaded, defines)
           /\ \A source \in DOMAIN found : Well(found[source], loaded, defines)
  BY WellNow DEF MergedRight

LEMMA MergedNext ==
    ASSUME Well(answer'.config, loaded', defines'),
           \A i \in DOMAIN stack' : Well(stack'[i].config, loaded', defines'),
           \A source \in DOMAIN found' : Well(found'[source], loaded', defines')
    PROVE  MergedRight'
  BY DEF MergedRight, WellMerged, Wins, AllInOrder, Well

LEMMA WellStays ==
    ASSUME NEW config, NEW marked, NEW more, NEW given,
           Well(config, marked, given), marked \subseteq more
    PROVE  Well(config, more, given)
  BY DEF Well

LEMMA NothingIsWell ==
    ASSUME NEW marked, NEW given
    PROVE  /\ Nothing \in Config /\ Well(Nothing, marked, given)
           /\ \A config : Apart(config, Nothing) /\ Apart(Nothing, config)
  <1>1. /\ Nothing.files = <<>> /\ Nothing.context = Unset /\ Nothing.commands = <<>>
        /\ ToSet(Nothing.files) = {} /\ DOMAIN Nothing.files = {}
        /\ ToSet(Nothing.commands) = {} /\ DOMAIN Nothing.commands = {}
    BY DEF Nothing, ToSet
  <1>2. <<>> \in Seq(Source)
    OBVIOUS
  <1>3. Nothing \in Config
    BY <1>2 DEF Nothing, Config
  <1>4. Well(Nothing, marked, given)
    BY <1>1 DEF Well, IsInjective
  <1>5. \A config : Apart(config, Nothing) /\ Apart(Nothing, config)
    BY <1>1 DEF Apart
  <1> QED BY <1>3, <1>4, <1>5

LEMMA RawIsWell ==
    ASSUME NEW f \in Source
    PROVE  /\ Raw(f) \in Config /\ ToSet(Raw(f).files) = {f}
           /\ \A marked : f \in marked => Well(Raw(f), marked, defines)
  <1>1. <<f>> \in Seq(Source) /\ DOMAIN <<f>> = {1} /\ <<f>>[1] = f
    OBVIOUS
  <1>2. /\ Raw(f).files = <<f>>
        /\ Raw(f).context = (IF f \in defines["context"] THEN f ELSE Unset)
        /\ Raw(f).commands = (IF f \in defines["commands"] THEN <<f>> ELSE <<>>)
    BY DEF Raw
  <1>3. Raw(f) \in Config
    BY <1>1 DEF Raw, Config
  <1>4. ToSet(Raw(f).files) = {f}
    BY <1>1, <1>2 DEF ToSet
  <1>5. ASSUME NEW marked, f \in marked PROVE Well(Raw(f), marked, defines)
    <2>1. CASE f \in defines["commands"]
      <3>1. Raw(f).commands = <<f>> /\ ToSet(<<f>>) = {f}
        BY <1>1, <1>2, <2>1 DEF ToSet
      <3> QED BY <1>1, <1>2, <1>4, <1>5, <2>1, <3>1 DEF Well, IsInjective
    <2>2. CASE f \notin defines["commands"]
      <3>1. Raw(f).commands = <<>> /\ ToSet(<<>>) = {} /\ DOMAIN <<>> = {}
        BY <1>2, <2>2 DEF ToSet
      <3> QED BY <1>1, <1>2, <1>4, <1>5, <2>2, <3>1 DEF Well, IsInjective
    <2> QED BY <2>1, <2>2
  <1> QED BY <1>3, <1>4, <1>5

\* A configuration whose files are all marked has none that is not.
LEMMA ApartFromNew ==
    ASSUME NEW config, NEW marked, NEW given, Well(config, marked, given),
           NEW f \in Source, f \notin marked
    PROVE  Apart(Raw(f), config) /\ Apart(config, Raw(f))
  BY RawIsWell DEF Apart, Well

LEMMA AnswersTyped ==
    /\ Pending \in Answers /\ Failure \in Answers
    /\ \A config \in Config : Answer(config) \in Answers
    /\ Pending.pending /\ Pending.config = Nothing
    /\ ~Failure.pending /\ Failure.config = Nothing
    /\ \A config : ~Answer(config).pending /\ Answer(config).config = config
  <1>1. Nothing \in Config
    BY NothingIsWell
  <1> QED BY <1>1 DEF Pending, Failure, Answer, Answers

\* The loop goes on with the next import.
LEMMA GoOnKeeps ==
    ASSUME LoaderInv, stack # <<>>, Top.todo # <<>>, NEW config \in Config, GoOn(config),
           Well(config, loaded, defines),
           \A i \in DOMAIN stack : i # 1 => /\ Apart(stack[i].config, config)
                                            /\ Apart(config, stack[i].config),
           answer' = Pending,
           UNCHANGED <<fileVars, phase, loaded, found, task>>
    PROVE  LoaderInv'
  <1>0. LoaderTypeOK /\ stack \in Seq(Calls) /\ stack[1] = Top /\ Top \in Calls /\ 1 \in DOMAIN stack
        /\ UNCHANGED <<imports, is, defines, uses>>
    BY Popped DEF LoaderInv, LoaderTypeOK, Calls, Top, fileVars
  <1> DEFINE next == [Top EXCEPT !.config = config, !.todo = Tail(@)]
  <1>a. Tail(Top.todo) \in Seq(Entry)
    BY <1>0 DEF Calls
  <1>1. next \in Calls /\ next.of = stack[1].of /\ next.config = config
    <2> HIDE DEF Top
    <2> QED BY <1>0, <1>a DEF Calls
  <1>2. stack' = <<next>> \o Tail(stack)
    BY DEF GoOn
  <1> HIDE DEF next
  <1>3. /\ stack' \in Seq(Calls) /\ DOMAIN stack' = DOMAIN stack /\ stack'[1] = next
        /\ \A i \in DOMAIN stack : i # 1 => stack'[i] = stack[i] /\ i > 1
    BY <1>0, <1>1, <1>2, Replaced
  <1>4. LoaderTypeOK'
    BY <1>0, <1>3, AnswersTyped DEF LoaderTypeOK, Calls, Answers
  <1>5. CallsWithinLoad'
    BY DEF LoaderInv, CallsWithinLoad
  <1>6. AnswerIsAwaited'
    BY <1>3, AnswersTyped DEF LoaderInv, AnswerIsAwaited
  <1>7. LoadingIsMarked'
    BY <1>1, <1>3 DEF LoaderInv, LoadingIsMarked
  <1>8. CirclesAreCut'
    BY <1>1, <1>3 DEF LoaderInv, CirclesAreCut
  <1>9. MergedRight'
    <2>1. \A i \in DOMAIN stack' : Well(stack'[i].config, loaded', defines')
      BY <1>0, <1>1, <1>3, MergedNow DEF LoaderInv
    <2> QED BY <1>0, <2>1, MergedNow, MergedNext, AnswersTyped, NothingIsWell DEF LoaderInv
  <1>10. PartsAreApart'
    BY <1>1, <1>3, AnswersTyped, NothingIsWell DEF LoaderInv, PartsAreApart
  <1>11. KeptIsFirst'
    BY DEF LoaderInv, KeptIsFirst, Keep
  <1> QED BY <1>4, <1>5, <1>6, <1>7, <1>8, <1>9, <1>10, <1>11 DEF LoaderInv

\* A call returns.
LEMMA LeaveKeeps ==
    ASSUME LoaderInv, stack # <<>>, NEW result \in Answers, Leave(result), ~result.pending,
           result.config = Nothing \/ result.config = Top.config,
           UNCHANGED <<fileVars, phase, loaded, found, task>>
    PROVE  LoaderInv'
  <1>0. LoaderTypeOK /\ stack \in Seq(Calls) /\ stack[1] = Top /\ 1 \in DOMAIN stack
        /\ UNCHANGED <<imports, is, defines, uses>>
    BY Popped DEF LoaderInv, LoaderTypeOK, Calls, Top, fileVars
  <1>1. stack' = Tail(stack) /\ answer' = result
    BY DEF Leave
  <1>2. /\ stack' \in Seq(Calls)
        /\ \A i \in DOMAIN stack' :
              i \in Nat /\ i + 1 \in DOMAIN stack /\ stack'[i] = stack[i + 1] /\ i + 1 > 1
    BY <1>0, <1>1, Popped
  <1>4. LoaderTypeOK'
    BY <1>0, <1>1, <1>2 DEF LoaderTypeOK, Calls, Answers
  <1>5. CallsWithinLoad'
    BY DEF LoaderInv, CallsWithinLoad
  <1>6. AnswerIsAwaited'
    BY <1>1, <1>2 DEF LoaderInv, AnswerIsAwaited
  <1>7. LoadingIsMarked'
    BY <1>2 DEF LoaderInv, LoadingIsMarked
  <1>8. CirclesAreCut'
    <2> SUFFICES ASSUME NEW i \in DOMAIN stack', NEW j \in DOMAIN stack',
                        stack'[i].of = stack'[j].of, stack'[i].of \in Source
                 PROVE  i = j
      BY DEF CirclesAreCut
    <2>1. i + 1 = j + 1
      BY <1>2 DEF LoaderInv, CirclesAreCut
    <2> QED BY <1>2, <2>1
  <1>9. MergedRight'
    <2>1. \A i \in DOMAIN stack' : Well(stack'[i].config, loaded', defines')
      BY <1>0, <1>2, MergedNow DEF LoaderInv
    <2>2. Well(result.config, loaded', defines')
      BY <1>0, MergedNow, NothingIsWell DEF LoaderInv
    <2>3. \A source \in DOMAIN found' : Well(found'[source], loaded', defines')
      BY <1>0, MergedNow DEF LoaderInv
    <2> QED BY <1>1, <2>1, <2>2, <2>3, MergedNext
  <1>10. PartsAreApart'
    <2>1. ASSUME NEW i \in DOMAIN stack' PROVE Apart(stack'[i].config, answer'.config)
      <3>1. i + 1 # 1
        BY <1>2
      <3> QED BY <1>0, <1>1, <1>2, <3>1, NothingIsWell DEF LoaderInv, PartsAreApart
    <2>2. ASSUME NEW i \in DOMAIN stack', NEW j \in DOMAIN stack', i # j
          PROVE  Apart(stack'[i].config, stack'[j].config)
      <3>1. i + 1 # j + 1
        BY <1>2, <2>2
      <3> QED BY <1>2, <3>1 DEF LoaderInv, PartsAreApart
    <2> QED BY <2>1, <2>2 DEF PartsAreApart
  <1>11. KeptIsFirst'
    BY DEF LoaderInv, KeptIsFirst, Keep
  <1> QED BY <1>4, <1>5, <1>6, <1>7, <1>8, <1>9, <1>10, <1>11 DEF LoaderInv

\* A call begins: it waits for no answer and takes none, and what it starts
\* with is not part of any other.
LEMMA CallKeeps ==
    ASSUME LoaderInv, answer = Pending, answer' = Pending,
           NEW e \in Entry, NEW config \in Config, NEW list \in Seq(Entry),
           stack' = <<Call(e, config, list)>> \o stack,
           \A i \in DOMAIN stack : stack[i].todo # <<>>,
           \A i \in DOMAIN stack : stack[i].of = e => e \notin Source,
           \A i \in DOMAIN stack : /\ Apart(stack[i].config, config)
                                   /\ Apart(config, stack[i].config),
           loaded \subseteq loaded', loaded' \subseteq Source, e \in Source => e \in loaded',
           Well(config, loaded', defines),
           phase' \in {"global", "local"}, KeptIsFirst',
           UNCHANGED <<fileVars, found, task>>
    PROVE  LoaderInv'
  <1> DEFINE call == Call(e, config, list)
  <1>0. LoaderTypeOK /\ stack \in Seq(Calls) /\ UNCHANGED <<imports, is, defines, uses>>
    BY DEF LoaderInv, LoaderTypeOK, Calls, fileVars
  <1>1. call \in Calls /\ call.of = e /\ call.config = config
    BY DEF Calls, Call
  <1> HIDE DEF call
  <1>2. stack' = <<call>> \o stack
    BY DEF call
  <1>3. /\ stack' \in Seq(Calls) /\ stack' # <<>> /\ stack'[1] = call
        /\ DOMAIN stack' = 1..(Len(stack) + 1)
        /\ \A i \in DOMAIN stack' : i # 1 => i - 1 \in DOMAIN stack /\ stack'[i] = stack[i - 1]
    BY <1>0, <1>1, <1>2, Pushed
  <1>4. LoaderTypeOK'
    BY <1>0, <1>3, AnswersTyped DEF LoaderTypeOK, Calls, Answers
  <1>5. CallsWithinLoad'
    BY DEF CallsWithinLoad
  <1>6. AnswerIsAwaited'
    <2>1. \A i \in DOMAIN stack' : i > 1 => stack'[i].todo # <<>>
      BY <1>3
    <2> QED BY <2>1, AnswersTyped DEF AnswerIsAwaited
  <1>7. LoadingIsMarked'
    <2> SUFFICES ASSUME NEW i \in DOMAIN stack', stack'[i].of \in Source
                 PROVE  stack'[i].of \in loaded'
      BY DEF LoadingIsMarked
    <2>1. CASE i = 1
      BY <1>1, <1>3, <2>1
    <2>2. CASE i # 1
      BY <1>3, <2>2 DEF LoaderInv, LoadingIsMarked
    <2> QED BY <2>1, <2>2
  <1>8. CirclesAreCut'
    <2> SUFFICES ASSUME NEW i \in DOMAIN stack', NEW j \in DOMAIN stack',
                        stack'[i].of = stack'[j].of, stack'[i].of \in Source
                 PROVE  i = j
      BY DEF CirclesAreCut
    <2>0. i \in Nat /\ j \in Nat
      BY <1>3
    <2>1. CASE i = 1 /\ j # 1
      BY <1>1, <1>3, <2>1
    <2>2. CASE i # 1 /\ j = 1
      BY <1>1, <1>3, <2>2
    <2>3. CASE i # 1 /\ j # 1
      <3>1. i - 1 = j - 1
        BY <1>3, <2>3 DEF LoaderInv, CirclesAreCut
      <3> QED BY <2>0, <3>1
    <2> QED BY <2>1, <2>2, <2>3
  <1>9. MergedRight'
    <2>1. \A c : Well(c, loaded, defines) => Well(c, loaded', defines)
      BY WellStays
    <2>2. ASSUME NEW i \in DOMAIN stack' PROVE Well(stack'[i].config, loaded', defines')
      <3>1. CASE i = 1
        BY <1>0, <1>1, <1>3, <3>1
      <3>2. CASE i # 1
        BY <1>0, <1>3, <2>1, <3>2, MergedNow DEF LoaderInv
      <3> QED BY <3>1, <3>2
    <2>3. Well(answer'.config, loaded', defines')
      BY AnswersTyped, NothingIsWell
    <2>4. \A source \in DOMAIN found' : Well(found'[source], loaded', defines')
      BY <1>0, <2>1, MergedNow DEF LoaderInv
    <2> QED BY <2>2, <2>3, <2>4, MergedNext
  <1>10. PartsAreApart'
    <2>1. \A i \in DOMAIN stack' : Apart(stack'[i].config, answer'.config)
      BY AnswersTyped, NothingIsWell
    <2>2. ASSUME NEW i \in DOMAIN stack', NEW j \in DOMAIN stack', i # j
          PROVE  Apart(stack'[i].config, stack'[j].config)
      <3>0. i \in Nat /\ j \in Nat
        BY <1>3
      <3>1. CASE i = 1
        BY <1>1, <1>3, <2>2, <3>1
      <3>2. CASE j = 1
        BY <1>1, <1>3, <2>2, <3>2
      <3>3. CASE i # 1 /\ j # 1
        <4>1. i - 1 # j - 1
          BY <2>2, <3>0
        <4> QED BY <1>3, <3>3, <4>1 DEF LoaderInv, PartsAreApart
      <3> QED BY <3>1, <3>2, <3>3
    <2> QED BY <2>1, <2>2 DEF PartsAreApart
  <1> QED BY <1>4, <1>5, <1>6, <1>7, <1>8, <1>9, <1>10 DEF LoaderInv

\* load is called: for an import that is not marked yet, or as the first call.
LEMMA EnterKeeps ==
    ASSUME LoaderInv, answer.pending, NEW f \in Source, Enter(f),
           f \in loaded => stack = <<>>,
           \A i \in DOMAIN stack : stack[i].todo # <<>>,
           phase' \in {"global", "local"}, KeptIsFirst',
           UNCHANGED <<fileVars, found, task>>
    PROVE  LoaderInv'
  <1>0. /\ LoaderTypeOK /\ answer = Pending /\ loaded' = loaded \cup {f}
        /\ loaded' \subseteq Source /\ f \in Entry
        /\ UNCHANGED <<imports, is, defines, uses>>
    BY DEF LoaderInv, LoaderTypeOK, AnswerIsAwaited, Enter, Mark, Entry, fileVars
  <1>1. CASE stack' = <<Call(f, Raw(f), imports[f])>> \o stack /\ answer' = answer
    <2>1. \A i \in DOMAIN stack : stack[i].of = f => f \notin Source
      BY DEF LoaderInv, LoadingIsMarked
    <2>2. \A i \in DOMAIN stack : /\ Apart(stack[i].config, Raw(f))
                                  /\ Apart(Raw(f), stack[i].config)
      BY ApartFromNew, MergedNow DEF LoaderInv
    <2>3. Raw(f) \in Config /\ Well(Raw(f), loaded', defines)
      BY <1>0, RawIsWell
    <2>4. imports[f] \in Seq(Entry)
      BY <1>0 DEF LoaderTypeOK
    <2> QED BY <1>0, <1>1, <2>1, <2>2, <2>3, <2>4, CallKeeps
  <1>2. CASE answer' = Failure /\ stack' = stack
    <2>1. LoaderTypeOK'
      BY <1>0, <1>2, AnswersTyped DEF LoaderTypeOK, Answers
    <2>2. CallsWithinLoad'
      BY DEF CallsWithinLoad
    <2>3. AnswerIsAwaited'
      BY <1>2, AnswersTyped DEF LoaderInv, AnswerIsAwaited
    <2>4. LoadingIsMarked' /\ CirclesAreCut'
      BY <1>0, <1>2 DEF LoaderInv, LoadingIsMarked, CirclesAreCut
    <2>5. MergedRight'
      <3>1. \A c : Well(c, loaded, defines) => Well(c, loaded', defines)
        BY <1>0, WellStays
      <3>2. Well(answer'.config, loaded', defines')
        BY <1>2, AnswersTyped, NothingIsWell
      <3>3. \A i \in DOMAIN stack' : Well(stack'[i].config, loaded', defines')
        BY <1>0, <1>2, <3>1, MergedNow DEF LoaderInv
      <3>4. \A source \in DOMAIN found' : Well(found'[source], loaded', defines')
        BY <1>0, <3>1, MergedNow DEF LoaderInv
      <3> QED BY <3>2, <3>3, <3>4, MergedNext
    <2>6. PartsAreApart'
      BY <1>2, AnswersTyped, NothingIsWell DEF LoaderInv, PartsAreApart
    <2> QED BY <2>1, <2>2, <2>3, <2>4, <2>5, <2>6 DEF LoaderInv
  <1> QED BY <1>1, <1>2 DEF Enter

\* Load itself, between the calls.
LEMMA LoadKeeps ==
    ASSUME LoaderInv, stack = <<>>, stack' = stack, answer' = Pending, loaded' = loaded,
           LoaderTypeOK', KeptIsFirst', UNCHANGED fileVars,
           \A source \in DOMAIN found' : Well(found'[source], loaded, defines)
    PROVE  LoaderInv'
  <1>1. defines' = defines /\ answer'.pending /\ DOMAIN stack' = {}
    BY AnswersTyped DEF fileVars
  <1>2. CallsWithinLoad'
    BY <1>1 DEF CallsWithinLoad
  <1>3. AnswerIsAwaited' /\ LoadingIsMarked' /\ CirclesAreCut' /\ PartsAreApart'
    BY <1>1 DEF AnswerIsAwaited, LoadingIsMarked, CirclesAreCut, PartsAreApart
  <1>4. MergedRight'
    BY <1>1, MergedNext, AnswersTyped, NothingIsWell
  <1> QED BY <1>2, <1>3, <1>4 DEF LoaderInv

LEMMA InitHolds == Init => LoaderInv
  <1> SUFFICES ASSUME Init PROVE LoaderInv
    OBVIOUS
  <1>1. stack = <<>> /\ DOMAIN stack = {} /\ answer = Pending
    BY DEF Init
  <1>2. LoaderTypeOK
    <2>1. imports \in [Source -> Seq(Entry)] /\ GiversTyped
      BY FileAssumption DEF Init, GiversTyped
    <2>2. stack \in Seq([of : Entry, config : Config, todo : Seq(Entry)])
      BY <1>1
    <2>3. task \in [context : Source \cup {Unset}, commands : Seq(Source)]
      <3>1. <<>> \in Seq(Source)
        OBVIOUS
      <3> QED BY <3>1 DEF Init
    <2> QED BY <1>1, <2>1, <2>2, <2>3, AnswersTyped, NothingIsWell
        DEF Init, LoaderTypeOK, Answers, GiversTyped
  <1>3. MergedRight
    <2>1. \A source \in DOMAIN found : WellMerged(found[source])
      BY NothingIsWell, WellNow DEF Init
    <2>2. WellMerged(answer.config)
      BY <1>1, NothingIsWell, WellNow, AnswersTyped
    <2> QED BY <1>1, <2>1, <2>2 DEF MergedRight
  <1>4. CallsWithinLoad /\ AnswerIsAwaited /\ LoadingIsMarked /\ CirclesAreCut /\ PartsAreApart
    BY <1>1, AnswersTyped
       DEF CallsWithinLoad, AnswerIsAwaited, LoadingIsMarked, CirclesAreCut, PartsAreApart
  <1>5. KeptIsFirst
    BY DEF Init, KeptIsFirst, Keep, Nothing
  <1> QED BY <1>2, <1>3, <1>4, <1>5 DEF LoaderInv

LEMMA StepKeeps == LoaderInv /\ [Next]_vars => LoaderInv'
  <1> SUFFICES ASSUME LoaderInv, [Next]_vars PROVE LoaderInv'
    OBVIOUS
  <1>0. /\ LoaderTypeOK /\ CallsWithinLoad /\ AnswerIsAwaited /\ KeptIsFirst
        /\ stack \in Seq(Calls) /\ answer \in Answers
    BY DEF LoaderInv, LoaderTypeOK, Calls, Answers
  <1>a. ASSUME stack # <<>>
        PROVE  /\ Top \in Calls /\ Top = stack[1] /\ 1 \in DOMAIN stack
               /\ phase \in {"global", "local"}
               /\ \A i \in DOMAIN stack : i # 1 => i > 1
               /\ Top.config \in Config /\ Top.of \in Entry /\ Top.todo \in Seq(Entry)
    <2>1. Top \in Calls /\ Top = stack[1] /\ 1 \in DOMAIN stack
      BY <1>0, <1>a, Popped DEF Top
    <2>2. \A i \in DOMAIN stack : i # 1 => i > 1
      BY <1>0
    <2> QED BY <1>0, <1>a, <2>1, <2>2 DEF CallsWithinLoad, Calls
  <1>b. ASSUME stack # <<>>, Top.todo # <<>>
        PROVE  /\ Import \in Entry
               /\ \A i \in DOMAIN stack : stack[i].todo # <<>>
               /\ Well(Top.config, loaded, defines)
               /\ \A i \in DOMAIN stack : i # 1 => /\ Apart(stack[i].config, Top.config)
                                                   /\ Apart(Top.config, stack[i].config)
    <2>1. Import \in Entry
      <3>1. Top.todo \in Seq(Entry)
        BY <1>a, <1>b
      <3> HIDE DEF Top
      <3> QED BY <1>b, <3>1 DEF Import
    <2>2. \A i \in DOMAIN stack : stack[i].todo # <<>>
      BY <1>0, <1>a, <1>b DEF AnswerIsAwaited
    <2>3. Well(Top.config, loaded, defines)
      BY <1>a, <1>b, MergedNow DEF LoaderInv
    <2>4. \A i \in DOMAIN stack : i # 1 => /\ Apart(stack[i].config, Top.config)
                                           /\ Apart(Top.config, stack[i].config)
      BY <1>a, <1>b DEF LoaderInv, PartsAreApart
    <2> QED BY <2>1, <2>2, <2>3, <2>4
  <1>c. UNCHANGED <<phase, found, task>> => KeptIsFirst'
    BY <1>0 DEF KeptIsFirst, Keep
  <1>1. CASE Skip
    BY <1>0, <1>1, <1>a, <1>b, GoOnKeeps DEF Skip, Looping, AnswerIsAwaited
  <1>2. CASE StatFails
    BY <1>2, AnswersTyped, LeaveKeeps DEF StatFails, Looping
  <1>3. CASE LoadImport
    <2>1. Import \in Source \ loaded /\ Enter(Import) /\ answer.pending
          /\ stack # <<>> /\ Top.todo # <<>> /\ UNCHANGED <<fileVars, phase, logged, found, task>>
      BY <1>3 DEF LoadImport, Looping
    <2> QED BY <1>a, <1>b, <1>c, <2>1, EnterKeeps
  <1>4. CASE LoadDir
    <2>1. /\ Import \in Dir /\ stack # <<>> /\ Top.todo # <<>> /\ answer = Pending
          /\ stack' = <<Call(Import, Nothing, Content[Import])>> \o stack
          /\ UNCHANGED <<fileVars, phase, loaded, answer, logged, found, task>>
      BY <1>0, <1>4 DEF LoadDir, Looping, AnswerIsAwaited
    <2>2. Import \notin Source /\ Content[Import] \in Seq(Entry)
      <3>1. Content[Import] \in Seq(File) /\ Import \notin Source
        BY <2>1, FileAssumption
      <3> QED BY <3>1 DEF Entry, Source
    <2>3. \A i \in DOMAIN stack : Apart(stack[i].config, Nothing) /\ Apart(Nothing, stack[i].config)
      BY NothingIsWell
    <2>4. Nothing \in Config /\ Well(Nothing, loaded', defines)
      BY NothingIsWell
    <2>5. loaded \subseteq loaded' /\ loaded' \subseteq Source
      BY <1>0, <2>1 DEF LoaderTypeOK
    <2> HIDE DEF Import
    <2> QED BY <1>a, <1>b, <1>c, <2>1, <2>2, <2>3, <2>4, <2>5, CallKeeps
  <1>5. CASE Return
    BY <1>5, <1>a, AnswersTyped, LeaveKeeps DEF Return
  <1>6. CASE MergeImport
    <2>1. /\ stack # <<>> /\ ~answer.pending /\ answer.config \in Config
          /\ GoOn(Merge(Top.config, answer.config)) /\ answer' = Pending
          /\ UNCHANGED <<fileVars, phase, loaded, logged, found, task>>
      BY <1>0, <1>6 DEF MergeImport, Running, Answers
    <2>2. Top.todo # <<>>
      BY <1>0, <1>a, <2>1 DEF AnswerIsAwaited
    <2> DEFINE merged == Merge(Top.config, answer.config)
    <2>3. WellMerged(merged)
      BY <1>0, <1>a, <1>b, <2>1, <2>2, WellNow, MergedNow, MergedWell
         DEF LoaderInv, LoaderTypeOK, GiversTyped, PartsAreApart
    <2>4. merged \in Config
      BY <1>a, <2>1, MergedFiles
    <2>5. \A i \in DOMAIN stack : i # 1 => /\ Apart(stack[i].config, merged)
                                           /\ Apart(merged, stack[i].config)
      <3>1. ToSet(merged.files) = ToSet(Top.config.files) \cup ToSet(answer.config.files)
        BY <1>a, <2>1, MergedSet
      <3> HIDE DEF merged
      <3> QED BY <1>b, <2>1, <2>2, <3>1 DEF LoaderInv, PartsAreApart, Apart
    <2> QED BY <2>1, <2>2, <2>3, <2>4, <2>5, WellNow, GoOnKeeps
  <1>7. CASE LogFailure
    <2>1. stack # <<>> /\ Top.todo # <<>>
      BY <1>0, <1>7, <1>a DEF LogFailure, Running, AnswerIsAwaited
    <2> QED BY <1>7, <1>a, <1>b, <2>1, GoOnKeeps DEF LogFailure
  <1>8. CASE PassFailure
    BY <1>8, AnswersTyped, LeaveKeeps DEF PassFailure, Running
  <1>9. CASE LoadGlobalConfig
    <2>1. phase = "start" /\ stack = <<>> /\ answer.pending /\ answer = Pending
          /\ UNCHANGED <<fileVars, found, task>> /\ Global \in Source
      BY <1>0, <1>9, FileAssumption
         DEF LoadGlobalConfig, CallsWithinLoad, AnswerIsAwaited, Source
    <2>2. phase' \in {"global", "resolve"} /\ KeptIsFirst'
      BY <1>0, <1>9, <2>1 DEF LoadGlobalConfig, KeptIsFirst
    <2>3. CASE phase' = "resolve"
      <3>1. UNCHANGED <<loaded, stack, answer>>
        BY <1>9, <2>3 DEF LoadGlobalConfig
      <3>2. LoaderTypeOK'
        BY <1>0, <2>1, <2>3, <3>1 DEF LoaderTypeOK, fileVars
      <3> QED BY <2>1, <2>2, <3>1, <3>2, MergedNow, LoadKeeps DEF LoaderInv
    <2>4. CASE phase' = "global"
      <3>1. Enter(Global)
        BY <1>9, <2>4 DEF LoadGlobalConfig
      <3>2. \A i \in DOMAIN stack : stack[i].todo # <<>>
        BY <2>1
      <3> QED BY <2>1, <2>2, <2>4, <3>1, <3>2, EnterKeeps
    <2> QED BY <2>2, <2>3, <2>4
  <1>10. CASE LoadLocal
    <2>1. phase = "resolve" /\ stack = <<>> /\ answer.pending /\ answer = Pending
          /\ UNCHANGED <<fileVars, found, task>>
      BY <1>0, <1>10 DEF LoadLocal, CallsWithinLoad, AnswerIsAwaited
    <2>2. phase' \in {"local", "error"} /\ KeptIsFirst'
      BY <1>0, <1>10, <2>1 DEF LoadLocal, KeptIsFirst
    <2>3. ASSUME NEW file \in MayRequest \cup ResolveDefaultConfigFile,
                 phase' = "local", Enter(file)
          PROVE  LoaderInv'
      <3>1. file \in Source
        BY FileAssumption DEF ResolveDefaultConfigFile
      <3>2. \A i \in DOMAIN stack : stack[i].todo # <<>>
        BY <2>1
      <3> QED BY <2>1, <2>2, <2>3, <3>1, <3>2, EnterKeeps
    <2>4. CASE phase' = "error" /\ UNCHANGED <<loaded, stack, answer>>
      <3>1. LoaderTypeOK'
        BY <1>0, <2>1, <2>4 DEF LoaderTypeOK, fileVars
      <3> QED BY <2>1, <2>2, <2>4, <3>1, MergedNow, LoadKeeps DEF LoaderInv
    <2> QED BY <1>10, <2>3, <2>4 DEF LoadLocal
  <1>11. CASE Done
    <2>1. stack = <<>> /\ ~answer.pending /\ answer' = Pending
          /\ UNCHANGED <<fileVars, loaded, stack, logged>> /\ UNCHANGED <<imports, defines>>
          /\ phase \in {"global", "local"} /\ answer.config \in Config
      BY <1>0, <1>11 DEF Done, fileVars, CallsWithinLoad, Answers
    <2>2. CASE phase' = "error" /\ UNCHANGED <<found, task>>
      <3>1. KeptIsFirst'
        BY <1>0, <2>2 DEF KeptIsFirst
      <3>2. LoaderTypeOK'
        BY <1>0, <2>1, <2>2, AnswersTyped DEF LoaderTypeOK, Answers
      <3> QED BY <2>1, <2>2, <3>1, <3>2, MergedNow, LoadKeeps DEF LoaderInv
    <2>3. CASE /\ phase' = IF phase = "global" THEN "resolve" ELSE "ok"
               /\ found' = [found EXCEPT ![phase] = answer.config]
               /\ task' = Keep(task, answer.config)
      <3>1. /\ found' \in [{"global", "local"} -> Config] /\ found'[phase] = answer.config
            /\ \A source \in DOMAIN found : source # phase => found'[source] = found[source]
            /\ DOMAIN found = {"global", "local"} /\ DOMAIN found' = {"global", "local"}
        BY <1>0, <2>1, <2>3 DEF LoaderTypeOK
      <3>2. KeptIsFirst'
        <4>1. CASE phase = "global"
          <5>1. found["global"] = Nothing /\ found["local"] = Nothing
            BY <1>0, <4>1 DEF KeptIsFirst
          <5>2. task = [context |-> Unset, commands |-> <<>>]
            BY <1>0, <5>1 DEF KeptIsFirst, Keep, Nothing
          <5>3. task' = Keep(answer.config, Nothing)
            BY <2>3, <5>2 DEF Keep, Nothing
          <5> QED BY <2>3, <3>1, <4>1, <5>1, <5>3 DEF KeptIsFirst
        <4>2. CASE phase = "local"
          <5>1. task = Keep(found["global"], Nothing)
            BY <1>0, <4>2 DEF KeptIsFirst
          <5>2. found'["global"] = found["global"]
            BY <3>1, <4>2
          <5>3. task' = Keep(found["global"], answer.config)
            BY <2>3, <5>1 DEF Keep, Nothing
          <5> QED BY <2>3, <3>1, <4>2, <5>2, <5>3 DEF KeptIsFirst
        <4> QED BY <2>1, <4>1, <4>2
      <3>3. task' \in [context : Source \cup {Unset}, commands : Seq(Source)]
        BY <1>0, <2>1, <2>3, FilesTyped DEF LoaderTypeOK, Keep
      <3>4. LoaderTypeOK'
        BY <1>0, <2>1, <2>3, <3>1, <3>3, AnswersTyped DEF LoaderTypeOK, Answers
      <3>5. \A source \in DOMAIN found' : Well(found'[source], loaded, defines)
        <4>1. /\ Well(answer.config, loaded, defines)
              /\ \A source \in DOMAIN found : Well(found[source], loaded, defines)
          BY MergedNow DEF LoaderInv
        <4>2. ASSUME NEW source \in DOMAIN found' PROVE Well(found'[source], loaded, defines)
          <5>1. CASE source = phase
            BY <3>1, <4>1, <5>1
          <5>2. CASE source # phase
            BY <3>1, <4>1, <5>2
          <5> QED BY <5>1, <5>2
        <4> QED BY <4>2
      <3> QED BY <2>1, <3>2, <3>4, <3>5, LoadKeeps
    <2> QED BY <1>11, <2>2, <2>3 DEF Done
  <1>12. CASE UNCHANGED vars
    <2>1. UNCHANGED <<imports, is, defines, uses, phase, loaded, stack, answer, found, task>>
      BY <1>12 DEF vars, fileVars
    <2>2. LoaderTypeOK' /\ CallsWithinLoad' /\ AnswerIsAwaited' /\ LoadingIsMarked'
          /\ CirclesAreCut' /\ PartsAreApart' /\ KeptIsFirst'
      BY <1>0, <2>1 DEF LoaderInv, LoaderTypeOK, CallsWithinLoad, AnswerIsAwaited,
         LoadingIsMarked, CirclesAreCut, PartsAreApart, KeptIsFirst
    <2>3. MergedRight'
      BY <2>1, MergedNow, MergedNext DEF LoaderInv
    <2> QED BY <2>2, <2>3 DEF LoaderInv
  <1> QED
    BY <1>1, <1>2, <1>3, <1>4, <1>5, <1>6, <1>7, <1>8, <1>9, <1>10, <1>11, <1>12
       DEF Next, Ended

-----------------------------------------------------------------------------
(***************************************************************************)
(* What is loaded is kept or lies behind a failure that is logged          *)
(***************************************************************************)
\* Below, for given imports.
Under(imp, e) ==
    {f \in Source : \A S \in SUBSET Source :
        /\ Behind(e) \subseteq S
        /\ \A g \in S : \A x \in ToSet(imp[g]) : Behind(x) \subseteq S
        => f \in S}

LEMMA BelowNow == \A e : Below(e) = Under(imports, e)
  BY DEF Below, Closed, Under

LEMMA BehindIsSource == \A e \in Entry : Behind(e) \subseteq Source
  <1>1. ASSUME NEW e \in Dir PROVE ToSet(Content[e]) \subseteq Source
    <2>1. Content[e] \in Seq(File)
      BY FileAssumption
    <2> QED BY <2>1 DEF ToSet, Source
  <1> QED BY <1>1 DEF Behind, Entry

\* An import of what lies below, and the content of a directory that does.
LEMMA UnderIsClosed ==
    ASSUME NEW imp \in [Source -> Seq(Entry)], NEW e \in Entry
    PROVE  /\ Behind(e) \subseteq Under(imp, e)
           /\ Under(imp, e) \subseteq Source
           /\ \A f \in Under(imp, e) : \A x \in ToSet(imp[f]) : Behind(x) \subseteq Under(imp, e)
           /\ \A x : Behind(x) \subseteq Under(imp, e) => Under(imp, x) \subseteq Under(imp, e)
  <1>1. Behind(e) \subseteq Under(imp, e) /\ Under(imp, e) \subseteq Source
    BY BehindIsSource DEF Under
  <1>2. ASSUME NEW f \in Under(imp, e), NEW x \in ToSet(imp[f]), NEW g \in Behind(x)
        PROVE  g \in Under(imp, e)
    <2>1. f \in Source /\ imp[f] \in Seq(Entry)
      BY <1>2 DEF Under
    <2>2. x \in Entry
      BY <2>1 DEF ToSet
    <2>3. g \in Source
      BY <2>2, BehindIsSource
    <2> SUFFICES ASSUME NEW S \in SUBSET Source, Behind(e) \subseteq S,
                        \A h \in S : \A y \in ToSet(imp[h]) : Behind(y) \subseteq S
                 PROVE  g \in S
      BY <2>3 DEF Under
    <2>4. f \in S
      BY DEF Under
    <2> QED BY <2>4
  <1>3. ASSUME NEW x, Behind(x) \subseteq Under(imp, e), NEW g \in Under(imp, x)
        PROVE  g \in Under(imp, e)
    <2> SUFFICES ASSUME NEW S \in SUBSET Source, Behind(e) \subseteq S,
                        \A h \in S : \A y \in ToSet(imp[h]) : Behind(y) \subseteq S
                 PROVE  g \in S
      BY <1>3 DEF Under
    <2>1. Under(imp, e) \subseteq S
      BY DEF Under
    <2>2. Behind(x) \subseteq S
      BY <1>3, <2>1
    <2> QED BY <1>3, <2>2 DEF Under
  <1> QED BY <1>1, <1>2, <1>3

\* What a call goes through lies below what it is of.
LEMMA ListLiesBelow ==
    ASSUME LoaderTypeOK, NEW of \in Entry, NEW e \in ToSet(ListOf(of))
    PROVE  e \in Entry /\ Under(imports, e) \subseteq Under(imports, of)
  <1>0. imports \in [Source -> Seq(Entry)]
    BY DEF LoaderTypeOK
  <1>1. CASE of \in Dir
    <2>1. Content[of] \in Seq(File) /\ e \in ToSet(Content[of])
      BY <1>1, FileAssumption DEF ListOf
    <2>2. e \in File /\ e \in Source /\ e \in Entry
      BY <2>1 DEF ToSet, Source, Entry
    <2>3. e \notin Dir
      BY <2>2, FileAssumption
    <2>4. Behind(e) = {e} /\ e \in Behind(of)
      BY <1>1, <2>1, <2>3 DEF Behind
    <2> QED BY <1>0, <2>2, <2>4, UnderIsClosed
  <1>2. CASE of \notin Dir
    <2>1. of \in Source /\ e \in ToSet(imports[of]) /\ imports[of] \in Seq(Entry)
      BY <1>0, <1>2 DEF ListOf, Entry
    <2>2. e \in Entry
      BY <2>1 DEF ToSet
    <2>3. of \in Under(imports, of)
      BY <1>0, <1>2, UnderIsClosed DEF Behind
    <2> QED BY <1>0, <2>1, <2>2, <2>3, UnderIsClosed
  <1> QED BY <1>1, <1>2

LEMMA HeadAndTail ==
    ASSUME NEW S, NEW s \in Seq(S), s # <<>>
    PROVE  ToSet(s) = {Head(s)} \cup ToSet(Tail(s))
  <1>1. /\ Head(s) = s[1] /\ 1 \in DOMAIN s
        /\ \A i \in DOMAIN Tail(s) : i + 1 \in DOMAIN s /\ Tail(s)[i] = s[i + 1]
        /\ \A i \in DOMAIN s : i # 1 => i - 1 \in DOMAIN Tail(s) /\ Tail(s)[i - 1] = s[i]
    OBVIOUS
  <1> DEFINE t == Tail(s)
             h == Head(s)
  <1> HIDE DEF t, h
  <1>2. /\ h = s[1] /\ 1 \in DOMAIN s
        /\ \A i \in DOMAIN t : i + 1 \in DOMAIN s /\ t[i] = s[i + 1]
        /\ \A i \in DOMAIN s : i # 1 => i - 1 \in DOMAIN t /\ t[i - 1] = s[i]
    BY <1>1 DEF t, h
  <1>3. ToSet(s) = {h} \cup ToSet(t)
    BY <1>2 DEF ToSet
  <1> QED BY <1>3 DEF t, h

LEMMA NoFiles == ToSet(Nothing.files) = {} /\ ToSet(<<>>) = {}
  BY DEF Nothing, ToSet

\* The conjuncts about what lies below, by Under.
LEMMA LiesBelowNow ==
    ASSUME FilesLieBelow
    PROVE  /\ \A i \in DOMAIN stack : ToSet(stack[i].config.files) \subseteq Under(imports, stack[i].of)
           /\ stack # <<>> /\ ~answer.pending =>
                 ToSet(answer.config.files) \subseteq Under(imports, Head(Head(stack).todo))
  BY BelowNow DEF FilesLieBelow, Running, Import, Top

LEMMA LiesBelowNext ==
    ASSUME \A i \in DOMAIN stack' : ToSet(stack'[i].config.files) \subseteq Under(imports', stack'[i].of),
           stack' # <<>> /\ ~answer'.pending =>
                 ToSet(answer'.config.files) \subseteq Under(imports', Head(Head(stack').todo))
    PROVE  FilesLieBelow'
  BY DEF FilesLieBelow, Running, Import, Top, Below, Closed, Under

LEMMA LostNow ==
    ASSUME LostIsLogged, phase # "error", NEW g \in loaded, g \notin Kept
    PROVE  \/ \E failed \in logged : g \in Under(imports, failed)
           \/ answer.failed /\ (stack # <<>> => g \in Under(imports, Head(Head(stack).todo)))
  BY BelowNow DEF LostIsLogged, Import, Top

LEMMA LostNext ==
    ASSUME phase' # "error" => \A g \in loaded' : g \notin Kept' =>
              \/ \E failed \in logged' : g \in Under(imports', failed)
              \/ answer'.failed /\ (stack' # <<>> => g \in Under(imports', Head(Head(stack').todo)))
    PROVE  LostIsLogged'
  BY DEF LostIsLogged, Import, Top, Below, Closed, Under

\* What a call goes through, for given imports.
ListIn(imp, e) == IF e \in Dir THEN Content[e] ELSE imp[e]

LEMMA NestNow ==
    ASSUME CallsNest
    PROVE  /\ \A i \in DOMAIN stack : ToSet(stack[i].todo) \subseteq ToSet(ListIn(imports, stack[i].of))
           /\ \A i \in DOMAIN stack : i > 1 => Head(stack[i].todo) = stack[i - 1].of
  BY DEF CallsNest, ListOf, ListIn

LEMMA NestNext ==
    ASSUME \A i \in DOMAIN stack' : ToSet(stack'[i].todo) \subseteq ToSet(ListIn(imports', stack'[i].of)),
           \A i \in DOMAIN stack' : i > 1 => Head(stack'[i].todo) = stack'[i - 1].of
    PROVE  CallsNest'
  BY DEF CallsNest, ListOf, ListIn

LEMMA KeptNow ==
    ASSUME NEW g
    PROVE  g \in Kept <=> \/ g \in ToSet(answer.config.files)
                          \/ \E i \in DOMAIN stack : g \in ToSet(stack[i].config.files)
                          \/ \E source \in DOMAIN found : g \in ToSet(found[source].files)
  <1> DEFINE c == UNION {ToSet(stack[i].config.files) : i \in DOMAIN stack}
             d == UNION {ToSet(found[source].files) : source \in DOMAIN found}
  <1>1. g \in c <=> \E i \in DOMAIN stack : g \in ToSet(stack[i].config.files)
    BY Zenon
  <1>2. g \in d <=> \E source \in DOMAIN found : g \in ToSet(found[source].files)
    BY Zenon
  <1>3. Kept = ToSet(answer.config.files) \cup c \cup d
    BY DEF Kept
  <1> HIDE DEF c, d
  <1> QED BY <1>1, <1>2, <1>3

LEMMA KeptNext ==
    ASSUME NEW g
    PROVE  g \in Kept' <=> \/ g \in ToSet(answer'.config.files)
                           \/ \E i \in DOMAIN stack' : g \in ToSet(stack'[i].config.files)
                           \/ \E source \in DOMAIN found' : g \in ToSet(found'[source].files)
  <1> DEFINE c == UNION {ToSet(stack'[i].config.files) : i \in DOMAIN stack'}
             d == UNION {ToSet(found'[source].files) : source \in DOMAIN found'}
  <1>1. g \in c <=> \E i \in DOMAIN stack' : g \in ToSet(stack'[i].config.files)
    BY Zenon
  <1>2. g \in d <=> \E source \in DOMAIN found' : g \in ToSet(found'[source].files)
    BY Zenon
  <1>3. Kept' = ToSet(answer'.config.files) \cup c \cup d
    BY DEF Kept
  <1> HIDE DEF c, d
  <1> QED BY <1>1, <1>2, <1>3

\* The call at the top of the stack, and its next import.
LEMMA TopOfStack ==
    ASSUME LoaderInv, LossInv, stack # <<>>
    PROVE  /\ stack \in Seq(Calls) /\ Top = stack[1] /\ 1 \in DOMAIN stack
           /\ Top.of \in Entry /\ Top.config \in Config /\ Top.todo \in Seq(Entry)
           /\ ToSet(Top.config.files) \subseteq Under(imports, Top.of)
           /\ Top.todo # <<>> =>
                 /\ Import \in Entry /\ Import \in ToSet(ListOf(Top.of))
                 /\ ToSet(Top.todo) = {Import} \cup ToSet(Tail(Top.todo))
                 /\ Under(imports, Import) \subseteq Under(imports, Top.of)
  <1>1. stack \in Seq(Calls) /\ LoaderTypeOK
    BY DEF LoaderInv, LoaderTypeOK, Calls
  <1>2. Top \in Calls /\ Top = stack[1] /\ 1 \in DOMAIN stack
    BY <1>1, Popped DEF Top
  <1>3. Top.of \in Entry /\ Top.config \in Config /\ Top.todo \in Seq(Entry)
    BY <1>2 DEF Calls
  <1>4. ToSet(Top.config.files) \subseteq Under(imports, Top.of)
    BY <1>2, LiesBelowNow DEF LossInv
  <1>5. ASSUME Top.todo # <<>>
        PROVE  /\ Import \in Entry /\ Import \in ToSet(ListOf(Top.of))
               /\ ToSet(Top.todo) = {Import} \cup ToSet(Tail(Top.todo))
               /\ Under(imports, Import) \subseteq Under(imports, Top.of)
    <2>1. ToSet(Top.todo) = {Import} \cup ToSet(Tail(Top.todo))
      BY <1>3, <1>5, HeadAndTail DEF Import
    <2>2. Import \in ToSet(ListOf(Top.of))
      BY <1>2, <2>1 DEF LossInv, CallsNest
    <2> QED BY <1>1, <1>3, <2>1, <2>2, ListLiesBelow
  <1> QED BY <1>1, <1>2, <1>3, <1>4, <1>5

\* The loop goes on: the import it leaves behind is settled.
LEMMA GoOnLosesNothing ==
    ASSUME LoaderInv, LossInv, stack # <<>>, Top.todo # <<>>, NEW config \in Config, GoOn(config),
           answer' = Pending,
           UNCHANGED <<fileVars, phase, loaded, found>>, logged \subseteq logged',
           ToSet(config.files) \subseteq Under(imports, Top.of),
           ToSet(Top.config.files) \subseteq ToSet(config.files),
           ToSet(answer.config.files) \subseteq ToSet(config.files) \/ Import \in logged',
           Behind(Import) \subseteq loaded \/ Import \in logged',
           Top.of \in Dir => Behind(Import) \subseteq loaded,
           answer.failed => Import \in logged',
           \A f \in ToSet(config.files) : \A e \in ToSet(imports[f]) :
              Settled(e) \/ (f = Top.of /\ e \in ToSet(Top.todo))
    PROVE  LossInv'
  <1>0. /\ stack \in Seq(Calls) /\ Top = stack[1] /\ 1 \in DOMAIN stack
        /\ Top.of \in Entry /\ Top.config \in Config /\ Top.todo \in Seq(Entry)
        /\ Import \in ToSet(ListOf(Top.of))
        /\ ToSet(Top.todo) = {Import} \cup ToSet(Tail(Top.todo))
        /\ imports' = imports
    BY TopOfStack DEF fileVars
  <1> DEFINE next == [Top EXCEPT !.config = config, !.todo = Tail(@)]
  <1>1. /\ next \in Calls /\ next.of = stack[1].of /\ next.config = config
        /\ next.todo = Tail(stack[1].todo)
    <2>1. Top \in Calls /\ Tail(Top.todo) \in Seq(Entry)
      BY <1>0
    <2> HIDE DEF Top
    <2> QED BY <1>0, <2>1 DEF Calls
  <1>2. stack' = <<next>> \o Tail(stack)
    BY DEF GoOn
  <1> HIDE DEF next
  <1>3. /\ DOMAIN stack' = DOMAIN stack /\ stack'[1] = next /\ stack' # <<>>
        /\ \A i \in DOMAIN stack : i # 1 => stack'[i] = stack[i] /\ i > 1
        /\ \A i \in DOMAIN stack : stack'[i].of = stack[i].of
        /\ \A i \in DOMAIN stack : i > 1 => i # 1 /\ i - 1 \in DOMAIN stack
    <2>1. /\ DOMAIN stack' = DOMAIN stack /\ stack'[1] = next /\ stack' \in Seq(Calls)
          /\ \A i \in DOMAIN stack : i # 1 => stack'[i] = stack[i] /\ i > 1
      BY <1>0, <1>1, <1>2, Replaced
    <2>2. \A i \in DOMAIN stack : i > 1 => i # 1 /\ i - 1 \in DOMAIN stack
      BY <1>0
    <2>3. stack' # <<>>
      BY <1>0, <2>1
    <2> QED BY <1>1, <2>1, <2>2, <2>3
  <1>4. CallsNest'
    <2>1. \A i \in DOMAIN stack' : ToSet(stack'[i].todo) \subseteq ToSet(ListIn(imports', stack'[i].of))
      BY <1>0, <1>1, <1>3, NestNow DEF LossInv
    <2>2. \A i \in DOMAIN stack' : i > 1 => Head(stack'[i].todo) = stack'[i - 1].of
      BY <1>3, NestNow DEF LossInv
    <2> QED BY <2>1, <2>2, NestNext
  <1>5. FilesLieBelow'
    <2>1. \A i \in DOMAIN stack' :
              ToSet(stack'[i].config.files) \subseteq Under(imports', stack'[i].of)
      BY <1>0, <1>1, <1>3, LiesBelowNow DEF LossInv
    <2> QED BY <2>1, AnswersTyped, LiesBelowNext
  <1>6. ImportsAreSettled'
    <2>1. \A e : Settled(e) => Settled(e)'
      BY DEF Settled
    <2>2. ToSet(answer'.config.files) = {}
      BY AnswersTyped, NoFiles
    <2>3. ASSUME NEW f \in ToSet(config.files), NEW e \in ToSet(imports[f]), ~Settled(e)'
          PROVE  f = next.of /\ e \in ToSet(next.todo)
      <3>1. f = Top.of /\ e \in ToSet(Top.todo)
        BY <2>1, <2>3
      <3>2. e # Import
        BY <2>3 DEF Settled
      <3> QED BY <1>0, <1>1, <3>1, <3>2
    <2>4. \A i \in DOMAIN stack' : \A f \in ToSet(stack'[i].config.files) : \A e \in ToSet(imports'[f]) :
              Settled(e)' \/ (f = stack'[i].of /\ e \in ToSet(stack'[i].todo))
      BY <1>0, <1>1, <1>3, <2>1, <2>3 DEF LossInv, ImportsAreSettled
    <2>5. \A source \in DOMAIN found' : \A f \in ToSet(found'[source].files) :
              \A e \in ToSet(imports'[f]) : Settled(e)'
      BY <1>0, <2>1 DEF LossInv, ImportsAreSettled, ImportsSettled
    <2> QED BY <2>2, <2>4, <2>5 DEF ImportsAreSettled, ImportsSettled, Settled
  <1>7. DirectoriesAreLoaded'
    <2>1. \A i \in DOMAIN stack' :
              stack'[i].of \in Dir => Behind(stack'[i].of) \subseteq loaded' \cup ToSet(stack'[i].todo)
      <3>1. next.of \in Dir => Behind(next.of) \subseteq loaded \cup ToSet(next.todo)
        <4>1. SUFFICES ASSUME next.of \in Dir, NEW c \in Behind(next.of), c \notin loaded
                       PROVE  c \in ToSet(next.todo)
          OBVIOUS
        <4>2. c \in ToSet(Top.todo)
          BY <1>0, <1>1, <4>1 DEF LossInv, DirectoriesAreLoaded
        <4>3. Content[Top.of] \in Seq(File) /\ Import \in ToSet(Content[Top.of])
          BY <1>0, <1>1, <4>1, FileAssumption DEF ListOf
        <4>4. Import \in File
          BY <4>3 DEF ToSet
        <4>5. Behind(Import) = {Import}
          BY <4>4, FileAssumption DEF Behind, Source
        <4>6. c # Import
          BY <1>0, <1>1, <4>1, <4>5
        <4> QED BY <1>0, <1>1, <4>2, <4>6
      <3> QED BY <1>1, <1>3, <3>1 DEF LossInv, DirectoriesAreLoaded
    <2> QED BY <2>1, AnswersTyped DEF DirectoriesAreLoaded, Running, Behind
  <1>8. LostIsLogged'
    <2> SUFFICES ASSUME phase' # "error", NEW g \in loaded', g \notin Kept'
                 PROVE  \E failed \in logged' : g \in Under(imports', failed)
      BY LostNext
    <2>1. /\ g \notin ToSet(config.files)
          /\ \A i \in DOMAIN stack : i # 1 => g \notin ToSet(stack[i].config.files)
          /\ \A source \in DOMAIN found : g \notin ToSet(found[source].files)
      <3>1. /\ \A i \in DOMAIN stack' : g \notin ToSet(stack'[i].config.files)
            /\ \A source \in DOMAIN found' : g \notin ToSet(found'[source].files)
        BY KeptNext
      <3>2. g \notin ToSet(next.config.files)
        BY <1>0, <1>3, <3>1
      <3>3. \A i \in DOMAIN stack : i # 1 => g \notin ToSet(stack[i].config.files)
        BY <1>3, <3>1
      <3> QED BY <1>1, <3>1, <3>2, <3>3
    <2>2. CASE g \notin ToSet(answer.config.files)
      <3>1. g \notin ToSet(Top.config.files)
        BY <2>1
      <3>2. g \notin Kept
        BY <1>0, <2>1, <2>2, <3>1, KeptNow
      <3>3. \/ \E failed \in logged : g \in Under(imports, failed)
            \/ answer.failed /\ g \in Under(imports, Import)
        BY <3>2, LostNow DEF LossInv, Import, Top
      <3> QED BY <1>0, <3>3
    <2>3. CASE g \in ToSet(answer.config.files)
      <3>1. Import \in logged'
        BY <2>1, <2>3
      <3>2. ~answer.pending
        BY <2>3, AnswersTyped, NoFiles DEF LoaderInv, AnswerIsAwaited
      <3>3. g \in Under(imports, Import)
        BY <2>3, <3>2, LiesBelowNow DEF LossInv, Import, Top
      <3> QED BY <1>0, <3>1, <3>3
    <2> QED BY <2>2, <2>3
  <1> QED BY <1>4, <1>5, <1>6, <1>7, <1>8 DEF LossInv

\* A call returns what it has merged.
LEMMA ReturnLosesNothing ==
    ASSUME LoaderInv, LossInv, stack # <<>>, answer = Pending, Top.todo = <<>>,
           Leave(Answer(Top.config)), UNCHANGED <<fileVars, phase, loaded, logged, found>>
    PROVE  LossInv'
  <1>0. /\ stack \in Seq(Calls) /\ Top = stack[1] /\ 1 \in DOMAIN stack
        /\ Top.of \in Entry /\ imports' = imports
        /\ ToSet(Top.config.files) \subseteq Under(imports, Top.of)
        /\ stack' = Tail(stack) /\ answer'.config = Top.config /\ ~answer.failed
        /\ ~answer'.failed
    BY TopOfStack, AnswersTyped DEF fileVars, Leave, Answer, Pending
  <1>1. /\ \A i \in DOMAIN stack' :
              i \in Nat /\ i + 1 \in DOMAIN stack /\ stack'[i] = stack[i + 1] /\ i + 1 > 1
        /\ \A i \in DOMAIN stack : i # 1 => i - 1 \in DOMAIN stack' /\ stack'[i - 1] = stack[i]
        /\ \A i \in DOMAIN stack' : i > 1 => i - 1 \in DOMAIN stack' /\ stack'[i - 1] = stack[(i + 1) - 1]
        /\ stack' # <<>> => 1 \in DOMAIN stack' /\ Head(stack') = stack'[1]
                            /\ Head(stack') = stack[2] /\ 2 \in DOMAIN stack
    BY <1>0
  <1>2. ASSUME stack' # <<>> PROVE Head(Head(stack').todo) = Top.of
    BY <1>0, <1>1, <1>2, NestNow DEF LossInv
  <1>3. CallsNest'
    <2>1. \A i \in DOMAIN stack' : ToSet(stack'[i].todo) \subseteq ToSet(ListIn(imports', stack'[i].of))
      BY <1>0, <1>1, NestNow DEF LossInv
    <2>2. ASSUME NEW i \in DOMAIN stack', i > 1 PROVE Head(stack'[i].todo) = stack'[i - 1].of
      <3>1. /\ i + 1 \in DOMAIN stack /\ i + 1 > 1 /\ stack'[i] = stack[i + 1]
            /\ stack'[i - 1] = stack[(i + 1) - 1]
        BY <1>1, <2>2
      <3> QED BY <3>1, NestNow DEF LossInv
    <2> QED BY <2>1, <2>2, NestNext
  <1>4. FilesLieBelow'
    <2>1. \A i \in DOMAIN stack' :
              ToSet(stack'[i].config.files) \subseteq Under(imports', stack'[i].of)
      BY <1>0, <1>1, LiesBelowNow DEF LossInv
    <2> QED BY <1>0, <1>2, <2>1, LiesBelowNext
  <1>5. ImportsAreSettled'
    <2>1. \A e : Settled(e) => Settled(e)'
      BY DEF Settled
    <2>2. \A f \in ToSet(answer'.config.files) : \A e \in ToSet(imports'[f]) : Settled(e)'
      BY <1>0, <2>1, NoFiles DEF LossInv, ImportsAreSettled
    <2>3. \A i \in DOMAIN stack' : \A f \in ToSet(stack'[i].config.files) : \A e \in ToSet(imports'[f]) :
              Settled(e)' \/ (f = stack'[i].of /\ e \in ToSet(stack'[i].todo))
      BY <1>0, <1>1, <2>1 DEF LossInv, ImportsAreSettled
    <2>4. \A source \in DOMAIN found' : \A f \in ToSet(found'[source].files) :
              \A e \in ToSet(imports'[f]) : Settled(e)'
      BY <1>0, <2>1 DEF LossInv, ImportsAreSettled, ImportsSettled
    <2> QED BY <2>2, <2>3, <2>4 DEF ImportsAreSettled, ImportsSettled, Settled
  <1>6. DirectoriesAreLoaded'
    <2>1. Behind(Top.of) \subseteq loaded
      <3>1. CASE Top.of \in Dir
        BY <1>0, <3>1, NoFiles DEF LossInv, DirectoriesAreLoaded
      <3>2. CASE Top.of \notin Dir
        BY <1>0, <3>2 DEF LoaderInv, LoadingIsMarked, Behind, Entry
      <3> QED BY <3>1, <3>2
    <2>2. \A i \in DOMAIN stack' :
              stack'[i].of \in Dir => Behind(stack'[i].of) \subseteq loaded' \cup ToSet(stack'[i].todo)
      BY <1>1 DEF LossInv, DirectoriesAreLoaded
    <2>3. stack' # <<>> => Behind(Head(Head(stack').todo)) \subseteq loaded'
      BY <1>2, <2>1
    <2> QED BY <2>2, <2>3 DEF DirectoriesAreLoaded, Running, Import, Top, Behind
  <1>7. LostIsLogged'
    <2> SUFFICES ASSUME phase' # "error", NEW g \in loaded', g \notin Kept'
                 PROVE  \E failed \in logged' : g \in Under(imports', failed)
      BY LostNext
    <2>1. g \notin Kept
      <3>1. /\ g \notin ToSet(Top.config.files)
            /\ \A i \in DOMAIN stack : i # 1 => g \notin ToSet(stack[i].config.files)
            /\ \A source \in DOMAIN found : g \notin ToSet(found[source].files)
        BY <1>0, <1>1, KeptNext
      <3>2. g \notin ToSet(answer.config.files)
        BY AnswersTyped, NoFiles
      <3> QED BY <1>0, <3>1, <3>2, KeptNow
    <2> QED BY <1>0, <2>1, LostNow DEF LossInv
  <1> QED BY <1>3, <1>4, <1>5, <1>6, <1>7 DEF LossInv

\* A call fails: what it had read is lost below the import it was called for.
LEMMA FailureIsAwaited ==
    ASSUME LoaderInv, LossInv, stack # <<>>, Top.todo # <<>>,
           Leave(Failure), UNCHANGED <<fileVars, phase, loaded, logged, found>>
    PROVE  LossInv'
  <1>0. /\ stack \in Seq(Calls) /\ Top = stack[1] /\ 1 \in DOMAIN stack
        /\ Top.of \in Entry /\ imports' = imports
        /\ ToSet(Top.config.files) \subseteq Under(imports, Top.of)
        /\ Under(imports, Import) \subseteq Under(imports, Top.of)
        /\ stack' = Tail(stack) /\ answer' = Failure /\ answer'.failed
        /\ ToSet(answer'.config.files) = {}
    BY TopOfStack, AnswersTyped, NoFiles DEF fileVars, Leave, Failure
  <1>1. /\ \A i \in DOMAIN stack' :
              i \in Nat /\ i + 1 \in DOMAIN stack /\ stack'[i] = stack[i + 1] /\ i + 1 > 1
        /\ \A i \in DOMAIN stack : i # 1 => i - 1 \in DOMAIN stack' /\ stack'[i - 1] = stack[i]
        /\ \A i \in DOMAIN stack' : i > 1 => i - 1 \in DOMAIN stack' /\ stack'[i - 1] = stack[(i + 1) - 1]
        /\ stack' # <<>> => 1 \in DOMAIN stack' /\ Head(stack') = stack'[1]
                            /\ Head(stack') = stack[2] /\ 2 \in DOMAIN stack
    BY <1>0
  <1>2. ASSUME stack' # <<>> PROVE Head(Head(stack').todo) = Top.of
    BY <1>0, <1>1, <1>2, NestNow DEF LossInv
  <1>3. CallsNest'
    <2>1. ASSUME NEW i \in DOMAIN stack'
          PROVE  ToSet(stack'[i].todo) \subseteq ToSet(ListIn(imports', stack'[i].of))
      <3>1. i + 1 \in DOMAIN stack /\ stack'[i] = stack[i + 1] /\ imports' = imports
        BY <1>0, <1>1
      <3> QED BY <3>1, NestNow DEF LossInv
    <2>2. ASSUME NEW i \in DOMAIN stack', i > 1 PROVE Head(stack'[i].todo) = stack'[i - 1].of
      <3>1. /\ i + 1 \in DOMAIN stack /\ i + 1 > 1 /\ stack'[i] = stack[i + 1]
            /\ stack'[i - 1] = stack[(i + 1) - 1]
        BY <1>1, <2>2
      <3> QED BY <3>1, NestNow DEF LossInv
    <2> QED BY <2>1, <2>2, NestNext
  <1>4. FilesLieBelow'
    <2>1. ASSUME NEW i \in DOMAIN stack'
          PROVE  ToSet(stack'[i].config.files) \subseteq Under(imports', stack'[i].of)
      <3>1. i + 1 \in DOMAIN stack /\ stack'[i] = stack[i + 1] /\ imports' = imports
        BY <1>0, <1>1
      <3> QED BY <3>1, LiesBelowNow DEF LossInv
    <2> QED BY <1>0, <2>1, LiesBelowNext
  <1>5. ImportsAreSettled'
    <2>1. \A e : Settled(e) => Settled(e)'
      BY DEF Settled
    <2>2. \A i \in DOMAIN stack' : \A f \in ToSet(stack'[i].config.files) : \A e \in ToSet(imports'[f]) :
              Settled(e)' \/ (f = stack'[i].of /\ e \in ToSet(stack'[i].todo))
      BY <1>0, <1>1, <2>1 DEF LossInv, ImportsAreSettled
    <2>3. \A source \in DOMAIN found' : \A f \in ToSet(found'[source].files) :
              \A e \in ToSet(imports'[f]) : Settled(e)'
      BY <1>0, <2>1 DEF LossInv, ImportsAreSettled, ImportsSettled
    <2> QED BY <1>0, <2>2, <2>3 DEF ImportsAreSettled, ImportsSettled, Settled
  <1>6. DirectoriesAreLoaded'
    BY <1>0, <1>1 DEF LossInv, DirectoriesAreLoaded, Running, Behind
  <1>7. LostIsLogged'
    <2> SUFFICES ASSUME phase' # "error", NEW g \in loaded', g \notin Kept'
                 PROVE  \/ \E failed \in logged' : g \in Under(imports', failed)
                        \/ stack' # <<>> => g \in Under(imports', Head(Head(stack').todo))
      BY <1>0, LostNext
    <2>1. CASE g \notin Kept
      <3>1. \/ \E failed \in logged : g \in Under(imports, failed)
            \/ g \in Under(imports, Import)
        BY <2>1, LostNow DEF LossInv, Import, Top
      <3> QED BY <1>0, <1>2, <3>1
    <2>2. CASE g \in Kept
      <3>1. /\ \A i \in DOMAIN stack : i # 1 => g \notin ToSet(stack[i].config.files)
            /\ \A source \in DOMAIN found : g \notin ToSet(found[source].files)
        BY <1>1, KeptNext
      <3>2. g \in ToSet(answer.config.files) \/ g \in ToSet(Top.config.files)
        BY <1>0, <2>2, <3>1, KeptNow
      <3>3. ASSUME g \in ToSet(answer.config.files) PROVE g \in Under(imports, Import)
        <4>1. ~answer.pending
          BY <3>3, AnswersTyped, NoFiles DEF LoaderInv, AnswerIsAwaited
        <4> QED BY <3>3, <4>1, LiesBelowNow DEF LossInv, Import, Top
      <3> QED BY <1>0, <1>2, <3>2, <3>3
    <2> QED BY <2>1, <2>2
  <1> QED BY <1>3, <1>4, <1>5, <1>6, <1>7 DEF LossInv

\* A call begins: of a file that was not loaded, or of a directory.
LEMMA CallLosesNothing ==
    ASSUME LoaderInv, LossInv, answer = Pending, phase # "error",
           NEW e \in Entry, NEW config \in Config,
           stack # <<>> => e = Import,
           stack' = <<Call(e, config, ListOf(e))>> \o stack, answer' = answer,
           UNCHANGED <<fileVars, logged, found>>,
           loaded \subseteq loaded', loaded' \subseteq loaded \cup ToSet(config.files),
           ToSet(config.files) \subseteq Under(imports, e),
           \A f \in ToSet(config.files) : f = e /\ e \notin Dir
    PROVE  LossInv'
  <1>0. /\ stack \in Seq(Calls) /\ imports' = imports /\ imports \in [Source -> Seq(Entry)]
        /\ ~answer'.failed /\ answer'.pending
        /\ ToSet(answer.config.files) = {} /\ answer'.config = answer.config
    BY AnswersTyped, NoFiles DEF fileVars, LoaderInv, LoaderTypeOK, Calls, Pending
  <1> DEFINE call == Call(e, config, ListOf(e))
  <1>1. call.of = e /\ call.config = config /\ call.todo = ListIn(imports, e)
    BY DEF Call, ListOf, ListIn
  <1>2. call \in Calls
    <2>1. ListOf(e) \in Seq(Entry)
      <3>1. ASSUME e \in Dir PROVE Content[e] \in Seq(Entry)
        <4>1. Content[e] \in Seq(File)
          BY <3>1, FileAssumption
        <4> QED BY <4>1 DEF Entry, Source
      <3> QED BY <1>0, <3>1 DEF ListOf, Entry
    <2> QED BY <2>1 DEF Call, Calls
  <1> HIDE DEF call
  <1>3. stack' = <<call>> \o stack
    BY DEF call
  <1>4. /\ DOMAIN stack' = 1..(Len(stack) + 1) /\ DOMAIN stack = 1..Len(stack) /\ Len(stack) \in Nat
        /\ stack'[1] = call /\ 1 \in DOMAIN stack'
        /\ \A i \in DOMAIN stack : i + 1 \in DOMAIN stack' /\ stack'[i + 1] = stack[i]
        /\ \A i \in DOMAIN stack' : i # 1 => i - 1 \in DOMAIN stack /\ stack'[i] = stack[i - 1]
    BY <1>0, <1>2, <1>3, Pushed
  <1>a. \A i \in DOMAIN stack' : stack'[i] = call \/ \E j \in DOMAIN stack : stack'[i] = stack[j]
    BY <1>4
  <1>5. CallsNest'
    <2>1. \A i \in DOMAIN stack' : ToSet(stack'[i].todo) \subseteq ToSet(ListIn(imports', stack'[i].of))
      <3>1. ToSet(call.todo) \subseteq ToSet(ListIn(imports', call.of))
        BY <1>0, <1>1
      <3>2. \A i \in DOMAIN stack : ToSet(stack[i].todo) \subseteq ToSet(ListIn(imports', stack[i].of))
        BY <1>0, NestNow DEF LossInv
      <3> QED BY <1>a, <3>1, <3>2
    <2>2. ASSUME NEW i \in DOMAIN stack', i > 1 PROVE Head(stack'[i].todo) = stack'[i - 1].of
      <3>1. CASE i = 2
        <4>1. stack'[2] = stack[1] /\ 1 \in DOMAIN stack /\ stack # <<>> /\ 2 - 1 = 1
          BY <1>0, <1>4, <2>2, <3>1
        <4>2. Head(stack) = stack[1]
          BY <1>0, <4>1
        <4> QED BY <1>1, <1>4, <3>1, <4>1, <4>2 DEF Import, Top
      <3>2. CASE i # 2
        <4>1. /\ i - 1 \in DOMAIN stack /\ i - 1 > 1 /\ stack'[i] = stack[i - 1]
              /\ (i - 1) - 1 \in DOMAIN stack /\ stack'[i - 1] = stack[(i - 1) - 1]
          BY <1>4, <2>2, <3>2
        <4> QED BY <4>1, NestNow DEF LossInv
      <3> QED BY <3>1, <3>2
    <2> QED BY <2>1, <2>2, NestNext
  <1>6. FilesLieBelow'
    <2>1. \A i \in DOMAIN stack' :
              ToSet(stack'[i].config.files) \subseteq Under(imports', stack'[i].of)
      <3>1. ToSet(call.config.files) \subseteq Under(imports', call.of)
        BY <1>0, <1>1
      <3>2. \A i \in DOMAIN stack : ToSet(stack[i].config.files) \subseteq Under(imports', stack[i].of)
        BY <1>0, LiesBelowNow DEF LossInv
      <3> QED BY <1>a, <3>1, <3>2
    <2> QED BY <1>0, <2>1, LiesBelowNext
  <1>7. ImportsAreSettled'
    <2>1. \A x : Settled(x) => Settled(x)'
      BY DEF Settled
    <2>2. \A f \in ToSet(call.config.files) : \A x \in ToSet(imports'[f]) :
              f = call.of /\ x \in ToSet(call.todo)
      BY <1>0, <1>1 DEF ListIn
    <2>3. ASSUME NEW i \in DOMAIN stack',
                 NEW f \in ToSet(stack'[i].config.files), NEW x \in ToSet(imports'[f])
          PROVE  Settled(x)' \/ (f = stack'[i].of /\ x \in ToSet(stack'[i].todo))
      <3>1. \A j \in DOMAIN stack : \A g \in ToSet(stack[j].config.files) : \A y \in ToSet(imports'[g]) :
                Settled(y)' \/ (g = stack[j].of /\ y \in ToSet(stack[j].todo))
        BY <1>0, <2>1 DEF LossInv, ImportsAreSettled
      <3>2. CASE stack'[i] = call
        BY <2>2, <3>2
      <3>3. ASSUME NEW j \in DOMAIN stack, stack'[i] = stack[j]
            PROVE  Settled(x)' \/ (f = stack'[i].of /\ x \in ToSet(stack'[i].todo))
        BY <3>1, <3>3
      <3> QED BY <1>a, <3>2, <3>3
    <2>4. \A source \in DOMAIN found' : \A f \in ToSet(found'[source].files) :
              \A x \in ToSet(imports'[f]) : Settled(x)'
      BY <1>0, <2>1 DEF LossInv, ImportsAreSettled, ImportsSettled
    <2> QED BY <1>0, <2>3, <2>4 DEF ImportsAreSettled, ImportsSettled, Settled
  <1>8. DirectoriesAreLoaded'
    <2>1. call.of \in Dir => Behind(call.of) \subseteq ToSet(call.todo)
      BY <1>1 DEF Behind, ListIn
    <2>2. \A i \in DOMAIN stack' :
              stack'[i].of \in Dir => Behind(stack'[i].of) \subseteq loaded' \cup ToSet(stack'[i].todo)
      BY <1>4, <2>1 DEF LossInv, DirectoriesAreLoaded
    <2> QED BY <1>0, <2>2 DEF DirectoriesAreLoaded, Running, Behind
  <1>9. LostIsLogged'
    <2> SUFFICES ASSUME NEW g \in loaded', g \notin Kept'
                 PROVE  \E failed \in logged' : g \in Under(imports', failed)
      BY LostNext
    <2>1. /\ g \notin ToSet(config.files)
          /\ \A i \in DOMAIN stack : g \notin ToSet(stack[i].config.files)
          /\ \A source \in DOMAIN found : g \notin ToSet(found[source].files)
      <3>1. /\ \A i \in DOMAIN stack' : g \notin ToSet(stack'[i].config.files)
            /\ \A source \in DOMAIN found' : g \notin ToSet(found'[source].files)
        BY KeptNext
      <3>2. g \notin ToSet(call.config.files)
        BY <1>4, <3>1
      <3>3. \A i \in DOMAIN stack : g \notin ToSet(stack[i].config.files)
        BY <1>4, <3>1
      <3> QED BY <1>1, <3>1, <3>2, <3>3
    <2>2. g \notin Kept /\ g \in loaded
      BY <1>0, <2>1, KeptNow
    <2> QED BY <1>0, <2>2, LostNow DEF LossInv
  <1> QED BY <1>5, <1>6, <1>7, <1>8, <1>9 DEF LossInv

\* A file that cannot be read.
LEMMA UnreadIsAwaited ==
    ASSUME LoaderInv, LossInv, answer = Pending, phase # "error",
           NEW f \in Source, stack # <<>> => f = Import,
           stack' = stack, answer' = Failure, loaded' = loaded \cup {f},
           UNCHANGED <<fileVars, logged, found>>
    PROVE  LossInv'
  <1>0. /\ imports' = imports /\ imports \in [Source -> Seq(Entry)]
        /\ ~answer.failed /\ answer'.failed
        /\ ToSet(answer.config.files) = {} /\ ToSet(answer'.config.files) = {}
    BY AnswersTyped, NoFiles DEF fileVars, LoaderInv, LoaderTypeOK, Pending, Failure
  <1>1. CallsNest'
    BY <1>0, NestNow, NestNext DEF LossInv
  <1>2. FilesLieBelow'
    BY <1>0, LiesBelowNow, LiesBelowNext DEF LossInv
  <1>3. ImportsAreSettled'
    <2>1. \A e : Settled(e) => Settled(e)'
      BY DEF Settled
    <2> QED BY <1>0, <2>1 DEF LossInv, ImportsAreSettled, ImportsSettled, Settled
  <1>4. DirectoriesAreLoaded'
    BY <1>0 DEF LossInv, DirectoriesAreLoaded, Running, Behind
  <1>5. LostIsLogged'
    <2> SUFFICES ASSUME NEW g \in loaded', g \notin Kept'
                 PROVE  \/ \E failed \in logged' : g \in Under(imports', failed)
                        \/ stack' # <<>> => g \in Under(imports', Head(Head(stack').todo))
      BY <1>0, LostNext
    <2>1. g \notin Kept
      BY <1>0, KeptNow, KeptNext
    <2>2. CASE g \in loaded
      BY <1>0, <2>1, <2>2, LostNow DEF LossInv
    <2>3. CASE g = f
      <3>1. f \in Entry /\ f \notin Dir
        BY FileAssumption DEF Entry
      <3>2. f \in Under(imports, f)
        BY <1>0, <3>1, UnderIsClosed DEF Behind
      <3> QED BY <1>0, <2>3, <3>2 DEF Import, Top
    <2> QED BY <2>2, <2>3
  <1> QED BY <1>1, <1>2, <1>3, <1>4, <1>5 DEF LossInv

LEMMA EnterLosesNothing ==
    ASSUME LoaderInv, LossInv, answer = Pending, phase # "error",
           NEW f \in Source, stack # <<>> => f = Import, Enter(f),
           UNCHANGED <<fileVars, logged, found>>
    PROVE  LossInv'
  <1>0. loaded' = loaded \cup {f} /\ f \in Entry /\ f \notin Dir
        /\ imports \in [Source -> Seq(Entry)]
    BY FileAssumption DEF Enter, Mark, Entry, LoaderInv, LoaderTypeOK
  <1>1. CASE ~Readable(f)
    BY <1>0, <1>1, UnreadIsAwaited DEF Enter
  <1>2. CASE Readable(f)
    <2>1. stack' = <<Call(f, Raw(f), ListOf(f))>> \o stack /\ answer' = answer
      BY <1>0, <1>2 DEF Enter, ListOf
    <2>2. Raw(f) \in Config /\ ToSet(Raw(f).files) = {f}
      BY RawIsWell
    <2>3. f \in Under(imports, f)
      BY <1>0, UnderIsClosed DEF Behind
    <2>4. /\ ToSet(Raw(f).files) \subseteq Under(imports, f)
          /\ \A g \in ToSet(Raw(f).files) : g = f /\ f \notin Dir
          /\ loaded \subseteq loaded' /\ loaded' \subseteq loaded \cup ToSet(Raw(f).files)
      BY <1>0, <2>2, <2>3
    <2> HIDE DEF Import
    <2> QED BY <1>0, <2>1, <2>2, <2>4, CallLosesNothing
  <1> QED BY <1>1, <1>2

\* Load itself, between the calls.
LEMMA LoadLosesNothing ==
    ASSUME LossInv, stack = <<>>, stack' = stack, answer' = Pending, loaded' = loaded,
           UNCHANGED <<fileVars, logged>>, phase # "error",
           \A source \in DOMAIN found' :
              \/ found'[source] = answer.config
              \/ source \in DOMAIN found /\ found'[source] = found[source],
           phase' # "error" =>
              /\ ~answer.failed
              /\ Kept \subseteq Kept'
    PROVE  LossInv'
  <1>0. /\ imports' = imports /\ DOMAIN stack' = {} /\ ToSet(answer'.config.files) = {}
        /\ answer'.pending
    BY AnswersTyped, NoFiles DEF fileVars
  <1>1. CallsNest'
    BY <1>0, NestNext
  <1>2. FilesLieBelow'
    BY <1>0, LiesBelowNext
  <1>3. ImportsAreSettled'
    <2>1. \A e : Settled(e) => Settled(e)'
      BY DEF Settled
    <2>2. \A source \in DOMAIN found' : \A f \in ToSet(found'[source].files) :
              \A e \in ToSet(imports'[f]) : Settled(e)'
      BY <1>0, <2>1 DEF LossInv, ImportsAreSettled, ImportsSettled
    <2> QED BY <1>0, <2>2 DEF ImportsAreSettled, ImportsSettled, Settled
  <1>4. DirectoriesAreLoaded'
    BY <1>0 DEF DirectoriesAreLoaded, Running
  <1>5. LostIsLogged'
    <2> SUFFICES ASSUME phase' # "error", NEW g \in loaded', g \notin Kept'
                 PROVE  \E failed \in logged' : g \in Under(imports', failed)
      BY LostNext
    <2> QED BY <1>0, LostNow DEF LossInv
  <1> QED BY <1>1, <1>2, <1>3, <1>4, <1>5 DEF LossInv

LEMMA NothingIsLostYet == Init => LossInv
  <1> SUFFICES ASSUME Init PROVE LossInv
    OBVIOUS
  <1>1. /\ DOMAIN stack = {} /\ stack = <<>> /\ loaded = {} /\ answer.pending
        /\ ToSet(answer.config.files) = {}
        /\ \A source \in DOMAIN found : ToSet(found[source].files) = {}
    BY AnswersTyped, NoFiles DEF Init
  <1> QED BY <1>1 DEF LossInv, CallsNest, FilesLieBelow, ImportsAreSettled, ImportsSettled,
             DirectoriesAreLoaded, LostIsLogged, Running

LEMMA StepLosesNothing == LoaderInv /\ LossInv /\ LoaderInv' /\ [Next]_vars => LossInv'
  <1> SUFFICES ASSUME LoaderInv, LossInv, LoaderInv', [Next]_vars PROVE LossInv'
    OBVIOUS
  <1>0. /\ LoaderTypeOK /\ CallsWithinLoad /\ AnswerIsAwaited /\ KeptIsFirst
        /\ stack \in Seq(Calls) /\ answer \in Answers /\ imports \in [Source -> Seq(Entry)]
    BY DEF LoaderInv, LoaderTypeOK, Calls, Answers
  <1>a. ASSUME stack # <<>>
        PROVE  /\ phase # "error" /\ Top = stack[1] /\ 1 \in DOMAIN stack
               /\ Top.of \in Entry /\ Top.config \in Config
               /\ ToSet(Top.config.files) \subseteq Under(imports, Top.of)
               /\ ~answer.pending => Top.todo # <<>>
               /\ \A f \in ToSet(Top.config.files) : \A e \in ToSet(imports[f]) :
                     Settled(e) \/ (f = Top.of /\ e \in ToSet(Top.todo))
    <2>1. /\ Top = stack[1] /\ 1 \in DOMAIN stack /\ Top.of \in Entry /\ Top.config \in Config
          /\ ToSet(Top.config.files) \subseteq Under(imports, Top.of)
      BY <1>a, TopOfStack
    <2>2. phase # "error"
      BY <1>0, <1>a DEF CallsWithinLoad
    <2>3. ~answer.pending => Top.todo # <<>>
      BY <1>0, <2>1 DEF AnswerIsAwaited
    <2>4. \A f \in ToSet(Top.config.files) : \A e \in ToSet(imports[f]) :
              Settled(e) \/ (f = Top.of /\ e \in ToSet(Top.todo))
      BY <2>1 DEF LossInv, ImportsAreSettled
    <2> QED BY <2>1, <2>2, <2>3, <2>4
  <1>b. answer.pending => answer = Pending /\ ToSet(answer.config.files) = {} /\ ~answer.failed
    BY <1>0, AnswersTyped, NoFiles DEF AnswerIsAwaited, Pending
  <1>1. CASE Skip
    <2>1. /\ stack # <<>> /\ answer = Pending /\ answer' = Pending /\ Top.todo # <<>>
          /\ Import \in loaded /\ GoOn(Top.config)
          /\ UNCHANGED <<fileVars, phase, loaded, found>> /\ logged' = logged
      BY <1>1, <1>b DEF Skip, Looping
    <2>2. Behind(Import) = {Import}
      <3>1. Import \in Source
        BY <1>0, <2>1 DEF LoaderTypeOK
      <3> QED BY <3>1, FileAssumption DEF Behind
    <2>3. /\ Top.config \in Config /\ ToSet(Top.config.files) \subseteq Under(imports, Top.of)
          /\ ToSet(answer.config.files) \subseteq ToSet(Top.config.files)
          /\ ~answer.failed /\ Behind(Import) \subseteq loaded /\ logged \subseteq logged'
          /\ \A f \in ToSet(Top.config.files) : \A e \in ToSet(imports[f]) :
                Settled(e) \/ (f = Top.of /\ e \in ToSet(Top.todo))
      BY <1>a, <1>b, <2>1, <2>2, AnswersTyped
    <2> DEFINE config == Top.config
    <2>4. GoOn(config)
      BY <2>1
    <2> HIDE DEF config
    <2> QED BY <2>1, <2>3, <2>4, GoOnLosesNothing DEF config
  <1>2. CASE StatFails
    BY <1>2, FailureIsAwaited DEF StatFails, Looping
  <1>3. CASE LoadImport
    <2>1. Import \in Source /\ Enter(Import) /\ answer = Pending /\ stack # <<>>
          /\ UNCHANGED <<fileVars, logged, found>>
      BY <1>3, <1>b DEF LoadImport, Looping
    <2> HIDE DEF Import
    <2> QED BY <1>a, <2>1, EnterLosesNothing
  <1>4. CASE LoadDir
    <2>1. /\ Import \in Dir /\ stack # <<>> /\ Top.todo # <<>> /\ answer = Pending
          /\ stack' = <<Call(Import, Nothing, Content[Import])>> \o stack /\ answer' = answer
          /\ UNCHANGED <<fileVars, logged, found>> /\ loaded' = loaded
      BY <1>4, <1>b DEF LoadDir, Looping
    <2>2. ListOf(Import) = Content[Import] /\ Import \in Entry
      BY <2>1 DEF ListOf, Entry
    <2>3. Nothing \in Config /\ ToSet(Nothing.files) = {}
      BY NothingIsWell, NoFiles
    <2> HIDE DEF Import
    <2> QED BY <1>a, <2>1, <2>2, <2>3, CallLosesNothing
  <1>5. CASE Return
    BY <1>5, <1>b, ReturnLosesNothing DEF Return
  <1>6. CASE MergeImport
    <2>1. /\ stack # <<>> /\ ~answer.pending /\ ~answer.failed /\ answer.config \in Config
          /\ GoOn(Merge(Top.config, answer.config)) /\ answer' = Pending
          /\ UNCHANGED <<fileVars, phase, loaded, found>> /\ logged' = logged /\ Top.todo # <<>>
      BY <1>0, <1>6, <1>a DEF MergeImport, Running, Answers
    <2> DEFINE merged == Merge(Top.config, answer.config)
    <2>2. merged \in Config
      BY <1>a, <2>1, MergedFiles
    <2>3. ToSet(merged.files) = ToSet(Top.config.files) \cup ToSet(answer.config.files)
      BY <1>a, <2>1, MergedSet
    <2>4. GoOn(merged)
      BY <2>1
    <2> HIDE DEF merged
    <2>5. ToSet(answer.config.files) \subseteq Under(imports, Top.of)
      BY <2>1, LiesBelowNow, TopOfStack DEF LossInv, Import, Top
    <2>6. Behind(Import) \subseteq loaded
      BY <2>1 DEF LossInv, DirectoriesAreLoaded, Running
    <2>7. \A f \in ToSet(answer.config.files) : \A e \in ToSet(imports[f]) : Settled(e)
      BY DEF LossInv, ImportsAreSettled, ImportsSettled
    <2>8. \A f \in ToSet(merged.files) : \A e \in ToSet(imports[f]) :
              Settled(e) \/ (f = Top.of /\ e \in ToSet(Top.todo))
      BY <1>a, <2>1, <2>3, <2>7
    <2>9. /\ ToSet(merged.files) \subseteq Under(imports, Top.of)
          /\ ToSet(Top.config.files) \subseteq ToSet(merged.files)
          /\ ToSet(answer.config.files) \subseteq ToSet(merged.files)
      BY <1>a, <2>1, <2>3, <2>5
    <2> QED BY <2>1, <2>2, <2>4, <2>6, <2>8, <2>9, GoOnLosesNothing
  <1>7. CASE LogFailure
    <2>1. /\ stack # <<>> /\ answer.failed /\ GoOn(Top.config) /\ answer' = Pending
          /\ Top.of \in Source /\ logged' = logged \cup {Import} /\ Top.todo # <<>>
          /\ UNCHANGED <<fileVars, phase, loaded, found>>
      BY <1>7, <1>a DEF LogFailure, Running, Log
    <2>2. Top.of \notin Dir
      BY <2>1, FileAssumption
    <2>3. /\ Top.config \in Config /\ ToSet(Top.config.files) \subseteq Under(imports, Top.of)
          /\ Import \in logged' /\ logged \subseteq logged'
          /\ \A f \in ToSet(Top.config.files) : \A e \in ToSet(imports[f]) :
                Settled(e) \/ (f = Top.of /\ e \in ToSet(Top.todo))
      BY <1>a, <2>1
    <2> QED BY <2>1, <2>2, <2>3, GoOnLosesNothing
  <1>8. CASE PassFailure
    BY <1>8, <1>a, FailureIsAwaited DEF PassFailure, Running
  <1>9. CASE LoadGlobalConfig
    <2>1. phase = "start" /\ stack = <<>> /\ answer = Pending
          /\ UNCHANGED <<fileVars, logged, found>> /\ Global \in Source
      BY <1>0, <1>9, <1>b, FileAssumption DEF LoadGlobalConfig, CallsWithinLoad, Source
    <2>2. CASE UNCHANGED <<loaded, stack, answer>>
      <3>1. Kept \subseteq Kept'
        BY <2>1, <2>2, KeptNow, KeptNext
      <3>2. /\ \A source \in DOMAIN found' : source \in DOMAIN found /\ found'[source] = found[source]
            /\ phase # "error" /\ ~answer.failed /\ answer' = Pending
        BY <1>b, <2>1, <2>2, AnswersTyped
      <3> QED BY <2>1, <2>2, <3>1, <3>2, LoadLosesNothing
    <2>3. CASE Enter(Global)
      BY <2>1, <2>3, EnterLosesNothing
    <2> QED BY <1>9, <2>2, <2>3 DEF LoadGlobalConfig
  <1>10. CASE LoadLocal
    <2>1. phase = "resolve" /\ stack = <<>> /\ answer = Pending
          /\ UNCHANGED <<fileVars, logged, found>>
      BY <1>0, <1>10, <1>b DEF LoadLocal, CallsWithinLoad
    <2>2. CASE UNCHANGED <<loaded, stack, answer>>
      <3>1. Kept \subseteq Kept'
        BY <2>1, <2>2, KeptNow, KeptNext
      <3>2. /\ \A source \in DOMAIN found' : source \in DOMAIN found /\ found'[source] = found[source]
            /\ phase # "error" /\ ~answer.failed /\ answer' = Pending
        BY <1>b, <2>1, <2>2, AnswersTyped
      <3> QED BY <2>1, <2>2, <3>1, <3>2, LoadLosesNothing
    <2>3. ASSUME NEW file \in MayRequest \cup ResolveDefaultConfigFile, Enter(file)
          PROVE  LossInv'
      <3>1. file \in Source
        BY FileAssumption DEF ResolveDefaultConfigFile
      <3> QED BY <2>1, <2>3, <3>1, EnterLosesNothing
    <2> QED BY <1>10, <2>2, <2>3 DEF LoadLocal
  <1>11. CASE Done
    <2>1. stack = <<>> /\ ~answer.pending /\ answer' = Pending
          /\ UNCHANGED <<fileVars, logged>> /\ loaded' = loaded /\ stack' = stack
          /\ phase \in {"global", "local"}
      BY <1>0, <1>11 DEF Done, CallsWithinLoad
    <2>2. CASE phase' = "error" /\ UNCHANGED <<found, task>>
      BY <2>1, <2>2, LoadLosesNothing
    <2>3. CASE /\ ~answer.failed
               /\ found' = [found EXCEPT ![phase] = answer.config]
      <3>1. /\ found'[phase] = answer.config /\ phase \in DOMAIN found'
            /\ \A source \in DOMAIN found : source # phase => found'[source] = found[source]
            /\ DOMAIN found' = DOMAIN found
        BY <1>0, <2>1, <2>3 DEF LoaderTypeOK
      <3>2. found[phase] = Nothing
        BY <1>0, <2>1 DEF KeptIsFirst
      <3>3. ASSUME NEW g \in Kept PROVE g \in Kept'
        <4>1. CASE g \in ToSet(answer.config.files)
          BY <3>1, <4>1, KeptNext
        <4>2. ASSUME NEW source \in DOMAIN found, g \in ToSet(found[source].files) PROVE g \in Kept'
          <5>1. source # phase
            BY <3>2, <4>2, NoFiles
          <5> QED BY <3>1, <4>2, <5>1, KeptNext
        <4>3. \A i \in DOMAIN stack : FALSE
          BY <2>1
        <4> QED BY <3>3, <4>1, <4>2, <4>3, KeptNow
      <3>4. \A source \in DOMAIN found' :
                \/ found'[source] = answer.config
                \/ source \in DOMAIN found /\ found'[source] = found[source]
        BY <3>1
      <3>5. Kept \subseteq Kept' /\ phase # "error"
        BY <2>1, <3>3
      <3> QED BY <2>1, <2>3, <3>4, <3>5, LoadLosesNothing
    <2> QED BY <1>11, <2>2, <2>3 DEF Done
  <1>12. CASE UNCHANGED vars
    <2>1. UNCHANGED <<imports, phase, loaded, stack, answer, logged, found>>
      BY <1>12 DEF vars, fileVars
    <2>2. CallsNest'
      BY <2>1, NestNow, NestNext DEF LossInv
    <2>3. FilesLieBelow'
      BY <2>1, LiesBelowNow, LiesBelowNext DEF LossInv
    <2>4. ImportsAreSettled' /\ DirectoriesAreLoaded'
      BY <2>1 DEF LossInv, ImportsAreSettled, ImportsSettled, Settled, DirectoriesAreLoaded,
         Running, Import, Top, Behind
    <2>5. LostIsLogged'
      <3>1. \A g : g \in Kept' <=> g \in Kept
        BY <2>1, KeptNow, KeptNext
      <3> QED BY <2>1, <3>1, LostNow, LostNext DEF LossInv
    <2> QED BY <2>2, <2>3, <2>4, <2>5 DEF LossInv
  <1> QED
    BY <1>1, <1>2, <1>3, <1>4, <1>5, <1>6, <1>7, <1>8, <1>9, <1>10, <1>11, <1>12
       DEF Next, Ended

-----------------------------------------------------------------------------
(***************************************************************************)
(* The theorems                                                            *)
(***************************************************************************)
\* LoaderInv holds in every reachable state.
THEOREM SpecKeepsLoaderInv == Spec => []LoaderInv
  BY InitHolds, StepKeeps, PTL DEF Spec

\* CirclesAreCut: no file is loaded while it is being loaded, whatever imports
\* what.
THEOREM ImportsNeverCircle == Spec => []CirclesAreCut
  <1>1. LoaderInv => CirclesAreCut
    BY DEF LoaderInv
  <1> QED BY <1>1, SpecKeepsLoaderInv, PTL

LEMMA InvMergesByField == LoaderInv => TaskIsMergedByField
  <1> DEFINE from(field) == IF ToSet(found["global"].files) \cap defines[field] # {}
                           THEN found["global"].files
                           ELSE found["local"].files
  <1> SUFFICES ASSUME LoaderInv, phase = "ok"
               PROVE  /\ \A source \in DOMAIN found : IsInjective(found[source].files)
                      /\ Wins(task.context, from("context"))
                      /\ AllInOrder(task.commands, from("commands"))
    BY DEF TaskIsMergedByField
  <1>1. /\ \A source \in DOMAIN found : WellMerged(found[source])
        /\ found["global"] \in Config /\ found["local"] \in Config
        /\ DOMAIN found = {"global", "local"}
        /\ task = Keep(found["global"], found["local"])
        /\ Unset \notin defines["context"]
    BY FileAssumption DEF LoaderInv, MergedRight, LoaderTypeOK, KeptIsFirst
  <1>2. /\ Wins(found["global"].context, found["global"].files)
        /\ Wins(found["local"].context, found["local"].files)
        /\ AllInOrder(found["global"].commands, found["global"].files)
        /\ AllInOrder(found["local"].commands, found["local"].files)
    BY <1>1 DEF WellMerged
  <1>3. Wins(task.context, from("context"))
    <2>1. CASE ToSet(found["global"].files) \cap defines["context"] # {}
      <3>1. \E i \in DOMAIN found["global"].files : found["global"].files[i] \in defines["context"]
        BY <2>1 DEF ToSet
      <3>2. found["global"].context # Unset
        BY <1>1, <1>2, <3>1 DEF Wins
      <3>3. task.context = found["global"].context
        BY <1>1, <3>2 DEF Keep
      <3> QED BY <1>2, <2>1, <3>3
    <2>2. CASE ToSet(found["global"].files) \cap defines["context"] = {}
      <3>1. \A i \in DOMAIN found["global"].files : found["global"].files[i] \notin defines["context"]
        BY <2>2 DEF ToSet
      <3>2. found["global"].context = Unset
        BY <1>2, <3>1 DEF Wins
      <3>3. task.context = found["local"].context
        BY <1>1, <3>2 DEF Keep
      <3> QED BY <1>2, <2>2, <3>3
    <2> QED BY <2>1, <2>2
  <1>4. AllInOrder(task.commands, from("commands"))
    <2>1. ToSet(found["global"].commands) = ToSet(found["global"].files) \cap defines["commands"]
      BY <1>2 DEF AllInOrder
    <2>2. CASE ToSet(found["global"].files) \cap defines["commands"] # {}
      <3>1. found["global"].commands # <<>>
        BY <2>1, <2>2, NoFiles
      <3>2. task.commands = found["global"].commands
        BY <1>1, <3>1 DEF Keep
      <3> QED BY <1>2, <2>2, <3>2
    <2>3. CASE ToSet(found["global"].files) \cap defines["commands"] = {}
      <3>1. found["global"].commands \in Seq(Source)
        BY <1>1, FilesTyped
      <3>2. found["global"].commands = <<>>
        <4> DEFINE commands == found["global"].commands
        <4>1. commands \in Seq(Source) /\ \A i \in DOMAIN commands : FALSE
          BY <2>1, <2>3, <3>1 DEF ToSet
        <4> HIDE DEF commands
        <4>2. commands = <<>>
          BY <4>1, Popped
        <4> QED BY <4>2 DEF commands
      <3>3. task.commands = found["local"].commands
        BY <1>1, <3>2 DEF Keep
      <3> QED BY <1>2, <2>3, <3>3
    <2> QED BY <2>2, <2>3
  <1> QED BY <1>1, <1>3, <1>4 DEF WellMerged

\* TaskIsMergedByField: no file is merged twice into a configuration; the context
\* of the task is that of the last file merged which gives one, and its commands
\* are those of all files merged, once each and in their order, of the global
\* configuration if that gives the field and of the local one if it does not.
THEOREM FieldsAreMergedInOrder == Spec => []TaskIsMergedByField
  BY SpecKeepsLoaderInv, InvMergesByField, PTL

LEMMA InvLosesNothing == LoaderInv /\ LossInv => NothingLostSilently
  <1> SUFFICES ASSUME LoaderInv, LossInv, phase = "ok",
                      NEW f \in ToSet(Files), NEW e \in ToSet(imports[f]), NEW g \in Behind(e)
               PROVE  \/ g \in ToSet(Files)
                      \/ e \in logged
                      \/ \E failed \in logged : g \in Below(failed)
    BY DEF NothingLostSilently
  <1>1. /\ stack = <<>> /\ DOMAIN stack = {} /\ answer = Pending /\ ~answer.failed
        /\ ToSet(answer.config.files) = {}
        /\ found \in [{"global", "local"} -> Config]
    BY AnswersTyped, NoFiles
       DEF LoaderInv, LoaderTypeOK, CallsWithinLoad, AnswerIsAwaited, Pending
  <1>2. ToSet(Files) = ToSet(found["global"].files) \cup ToSet(found["local"].files)
    <2>1. found["global"] \in Config /\ found["local"] \in Config
      BY <1>1
    <2>2. Files = Merge(found["global"], found["local"]).files
      BY DEF Files, Merge
    <2> QED BY <2>1, <2>2, MergedSet
  <1>3. Settled(e)
    BY <1>1, <1>2 DEF LossInv, ImportsAreSettled, ImportsSettled
  <1>4. CASE g \in Kept
    <2>1. g \in ToSet(found["global"].files) \cup ToSet(found["local"].files)
      BY <1>1, <1>4, KeptNow
    <2> QED BY <1>2, <2>1
  <1>5. CASE g \in loaded /\ g \notin Kept
    BY <1>1, <1>5, LostNow, BelowNow DEF LossInv
  <1> QED BY <1>3, <1>4, <1>5 DEF Settled

\* NothingLostSilently: what a configuration imports is in it, or lies behind an
\* import whose failure was logged.
THEOREM LossesAreLogged == Spec => []NothingLostSilently
  <1>1. LoaderInv /\ LossInv /\ [Next]_vars => LoaderInv' /\ LossInv'
    BY StepKeeps, StepLosesNothing
  <1> QED BY InitHolds, NothingIsLostYet, <1>1, InvLosesNothing, PTL DEF Spec
=============================================================================
