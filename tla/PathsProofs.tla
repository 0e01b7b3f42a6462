----------------------------- MODULE PathsProofs -----------------------------
(***************************************************************************)
(* What the path guard promises for every path and every glob. NormalizePath *)
(* and Matches are about sequences of any length, so the proofs are         *)
(* inductions, stated with a set of the lengths at which the claim holds    *)
(* (Induction).                                                             *)
(***************************************************************************)
EXTENDS Paths, WellFoundedInduction, SequenceTheorems, TLAPS

\* A set of natural numbers that is not empty has a least element.
LEMMA LeastNatural ==
    ASSUME NEW T, T \subseteq Nat, T # {}
    PROVE  \E n \in T : \A k \in T : n <= k
<1> DEFINE R == {ss \in Nat \X Nat : ss[1] < ss[2]}
<1>1. IsWellFoundedOn(R, Nat)
  BY NatLessThanWellFounded DEF OpToRel
<1> HIDE DEF R
<1>2. PICK n \in T : \A k \in T : <<k, n>> \notin R
  BY <1>1, WFMin
<1>3. \A k \in T : ~(k < n)
  BY <1>2 DEF R
<1> QED
  BY <1>3

\* What holds of 0, and of n if it holds of n - 1, holds up to m.
LEMMA Induction ==
    ASSUME NEW m \in Nat, NEW Holds,
           0 \in Holds, \A n \in 1 .. m : n - 1 \in Holds => n \in Holds
    PROVE  \A n \in 0 .. m : n \in Holds
<1> DEFINE T == {n \in 0 .. m : n \notin Holds}
<1>1. SUFFICES ASSUME T # {} PROVE FALSE
  OBVIOUS
<1>2. T \subseteq Nat
  OBVIOUS
<1> HIDE DEF T
<1>3. PICK n \in T : \A k \in T : n <= k
  BY <1>1, <1>2, LeastNatural
<1>4. n \in 1 .. m /\ n - 1 \notin T
  BY <1>3 DEF T
<1> QED
  BY <1>3, <1>4 DEF T

-----------------------------------------------------------------------------
(* normalize_path *)

\* One turn of its loop.
Kept(parts, raw, n) ==
    IF n = 0 THEN <<>>
    ELSE IF raw[n] \in Skipped THEN parts[n - 1]
    ELSE Append(parts[n - 1], raw[n])

\* There is a function that the equations of the loop describe.
LEMMA LoopExists ==
    ASSUME NEW S, NEW raw \in Seq(S)
    PROVE  \E parts : parts = [n \in 0 .. Len(raw) |-> Kept(parts, raw, n)]
<1> DEFINE Runs(k) == \E parts : parts = [n \in 0 .. k |-> Kept(parts, raw, n)]
           Holds == {k \in 0 .. Len(raw) : Runs(k)}
<1>0. Len(raw) \in Nat
  OBVIOUS
<1>1. 0 \in Holds
  <2>1. [n \in 0 .. 0 |-> <<>>] = [n \in 0 .. 0 |-> Kept([i \in 0 .. 0 |-> <<>>], raw, n)]
    BY DEF Kept
  <2> QED
    BY <1>0, <2>1
<1>2. ASSUME NEW k \in 1 .. Len(raw), k - 1 \in Holds
      PROVE  Runs(k)
  <2>1. PICK f : f = [n \in 0 .. k - 1 |-> Kept(f, raw, n)]
    BY <1>2
  <2> DEFINE g == [n \in 0 .. k |-> IF n < k THEN f[n] ELSE Kept(f, raw, k)]
  <2>2. ASSUME NEW n \in 0 .. k PROVE g[n] = Kept(g, raw, n)
    <3>1. CASE n < k
      <4>1. g[n] = f[n] /\ f[n] = Kept(f, raw, n)
        BY <2>1, <3>1
      <4>2. n # 0 => g[n - 1] = f[n - 1]
        BY <3>1
      <4> QED
        BY <4>1, <4>2 DEF Kept
    <3>2. CASE n = k
      <4>1. g[n] = Kept(f, raw, k) /\ g[n - 1] = f[n - 1]
        BY <3>2
      <4> QED
        BY <3>2, <4>1 DEF Kept
    <3> QED
      BY <3>1, <3>2
  <2>3. g = [n \in 0 .. k |-> Kept(g, raw, n)]
    BY <2>2
  <2> HIDE DEF g
  <2> QED
    BY <2>3
<1> HIDE DEF Runs
<1>3. \A k \in 1 .. Len(raw) : k - 1 \in Holds => k \in Holds
  BY <1>2
<1> HIDE DEF Holds
<1>4. \A k \in 0 .. Len(raw) : k \in Holds
  BY <1>0, <1>1, <1>3, Induction
<1> QED
  BY <1>0, <1>4 DEF Holds, Runs

\* NormalizePath is the last value of its loop.
LEMMA LoopOf ==
    ASSUME NEW S, NEW raw \in Seq(S)
    PROVE  \E parts :
              /\ \A n \in 0 .. Len(raw) : parts[n] = Kept(parts, raw, n)
              /\ NormalizePath(raw) = parts[Len(raw)]
<1> DEFINE loop == CHOOSE parts : parts = [n \in 0 .. Len(raw) |-> Kept(parts, raw, n)]
<1>1. loop = [n \in 0 .. Len(raw) |-> Kept(loop, raw, n)]
  BY LoopExists
<1>2. NormalizePath(raw) = loop[Len(raw)]
  BY DEF NormalizePath, Kept
<1> HIDE DEF loop
<1> QED
  BY <1>1, <1>2

\* What is in a sequence that is one longer.
LEMMA SegmentsOfAppend ==
    ASSUME NEW S, NEW path \in Seq(S), NEW s \in S
    PROVE  Segments(Append(path, s)) = Segments(path) \cup {s}
<1> DEFINE longer == Append(path, s)
<1>1. DOMAIN longer = (DOMAIN path) \cup {Len(path) + 1} /\ longer[Len(path) + 1] = s
  OBVIOUS
<1>2. \A i \in DOMAIN path : longer[i] = path[i]
  OBVIOUS
<1> HIDE DEF longer
<1>3. Segments(longer) = Segments(path) \cup {s}
  BY <1>1, <1>2 DEF Segments
<1> QED
  BY <1>3 DEF longer

\* Its result has the segments of the path that are neither empty nor ".".
LEMMA NormalSegments ==
    ASSUME NEW S, NEW raw \in Seq(S)
    PROVE  /\ NormalizePath(raw) \in Seq(S)
           /\ Segments(NormalizePath(raw)) = Segments(raw) \ Skipped
<1>1. PICK parts :
          /\ \A n \in 0 .. Len(raw) : parts[n] = Kept(parts, raw, n)
          /\ NormalizePath(raw) = parts[Len(raw)]
  BY LoopOf
<1>2. Len(raw) \in Nat
  OBVIOUS
<1>3. parts[0] = <<>>
  BY <1>1, <1>2 DEF Kept
<1> DEFINE Upto(n) == {raw[i] : i \in 1 .. n} \ Skipped
<1>4. Segments(<<>>) = {} /\ Upto(0) = {} /\ Upto(Len(raw)) = Segments(raw) \ Skipped
  BY DEF Segments
<1>5. ASSUME NEW n \in 1 .. Len(raw)
      PROVE  /\ raw[n] \in Skipped => Upto(n) = Upto(n - 1)
             /\ raw[n] \notin Skipped => Upto(n) = Upto(n - 1) \cup {raw[n]}
  <2>1. 1 .. n = (1 .. n - 1) \cup {n}
    BY <1>2
  <2> QED
    BY <2>1
<1> HIDE DEF Upto
<1> DEFINE Holds == {n \in 0 .. Len(raw) :
                        parts[n] \in Seq(S) /\ Segments(parts[n]) = Upto(n)}
<1>6. 0 \in Holds
  <2>1. <<>> \in Seq(S)
    OBVIOUS
  <2>2. parts[0] \in Seq(S) /\ Segments(parts[0]) = Upto(0)
    BY <1>3, <1>4, <2>1
  <2> QED
    BY <1>2, <2>2
<1> HIDE DEF Holds
<1>7. ASSUME NEW n \in 1 .. Len(raw), n - 1 \in Holds
      PROVE  n \in Holds
  <2>1. parts[n - 1] \in Seq(S) /\ Segments(parts[n - 1]) = Upto(n - 1)
    BY <1>7 DEF Holds
  <2>2. n \in 0 .. Len(raw) /\ n # 0 /\ raw[n] \in S
    BY <1>2
  <2>3. parts[n] = Kept(parts, raw, n)
    BY <1>1, <2>2
  <2>4. CASE raw[n] \in Skipped
    <3>1. parts[n] = parts[n - 1]
      BY <2>2, <2>3, <2>4 DEF Kept
    <3>2. Upto(n) = Upto(n - 1)
      BY <1>5, <2>4
    <3> QED
      BY <2>1, <2>2, <3>1, <3>2 DEF Holds
  <2>5. CASE raw[n] \notin Skipped
    <3>1. parts[n] = Append(parts[n - 1], raw[n])
      BY <2>2, <2>3, <2>5 DEF Kept
    <3>2. Upto(n) = Upto(n - 1) \cup {raw[n]}
      BY <1>5, <2>5
    <3>3. Append(parts[n - 1], raw[n]) \in Seq(S)
      BY <2>1, <2>2
    <3>4. Segments(Append(parts[n - 1], raw[n])) = Segments(parts[n - 1]) \cup {raw[n]}
      BY <2>1, <2>2, SegmentsOfAppend
    <3> QED
      BY <2>1, <2>2, <3>1, <3>2, <3>3, <3>4 DEF Holds
  <2> QED
    BY <2>4, <2>5
<1>8. \A n \in 1 .. Len(raw) : n - 1 \in Holds => n \in Holds
  BY <1>7
<1>9. \A n \in 0 .. Len(raw) : n \in Holds
  BY <1>2, <1>6, <1>8, Induction
<1> QED
  BY <1>1, <1>2, <1>4, <1>9 DEF Holds

\* A path without such segments is its own normal form.
LEMMA NormalIsFixed ==
    ASSUME NEW S, NEW path \in Seq(S), Segments(path) \cap Skipped = {}
    PROVE  NormalizePath(path) = path
<1>1. PICK parts :
          /\ \A n \in 0 .. Len(path) : parts[n] = Kept(parts, path, n)
          /\ NormalizePath(path) = parts[Len(path)]
  BY LoopOf
<1>2. Len(path) \in Nat
  OBVIOUS
<1>3. parts[0] = <<>>
  BY <1>1, <1>2 DEF Kept
<1> DEFINE Holds == {n \in 0 .. Len(path) : parts[n] = SubSeq(path, 1, n)}
<1>4. 0 \in Holds
  <2>1. SubSeq(path, 1, 0) = <<>>
    OBVIOUS
  <2>2. parts[0] = SubSeq(path, 1, 0)
    BY <1>3, <2>1
  <2> QED
    BY <1>2, <2>2
<1> HIDE DEF Holds
<1>5. ASSUME NEW n \in 1 .. Len(path), n - 1 \in Holds
      PROVE  n \in Holds
  <2>1. n \in 0 .. Len(path) /\ n # 0 /\ n \in DOMAIN path
    BY <1>2
  <2>2. path[n] \notin Skipped
    BY <2>1 DEF Segments
  <2>3. parts[n - 1] = SubSeq(path, 1, n - 1)
    BY <1>5 DEF Holds
  <2>4. parts[n] = Append(SubSeq(path, 1, n - 1), path[n])
    BY <1>1, <2>1, <2>2, <2>3 DEF Kept
  <2>5. SubSeq(path, 1, n) = Append(SubSeq(path, 1, n - 1), path[n])
    OBVIOUS
  <2> QED
    BY <2>1, <2>4, <2>5 DEF Holds
<1>6. \A n \in 1 .. Len(path) : n - 1 \in Holds => n \in Holds
  BY <1>5
<1>7. \A n \in 0 .. Len(path) : n \in Holds
  BY <1>2, <1>4, <1>6, Induction
<1>8. SubSeq(path, 1, Len(path)) = path
  BY SubSeqFull
<1> QED
  BY <1>1, <1>2, <1>7, <1>8 DEF Holds

\* The normal form of a path that the guard does not refuse for its form is judged as the
\* path is, and normalizing does not change it again, with one exception: where a name
\* that begins like a drive, or white space alone, comes to the front, the path may pass
\* ("./C:notes") and its normal form ("C:notes") is refused.
THEOREM OneVerdictPerFile ==
    ASSUME NEW S, NEW raw \in Seq(S), NEW guard, ~UnsafePath(raw),
           NEW path, path = NormalizePath(raw)
    PROVE  /\ NormalizePath(path) = path
           /\ UnsafePath(path) <=> path[1] \in Drive \/ (Len(path) = 1 /\ path[1] \in Blank)
           /\ ~UnsafePath(path) => Classify(guard, path) = Classify(guard, raw)
<1>1. path \in Seq(S) /\ Segments(path) = Segments(raw) \ Skipped
  BY NormalSegments
<1>2. ".." \notin Segments(raw) /\ Segments(raw) \cap Illegal = {} /\ ~(Segments(raw) \subseteq Skipped)
  BY DEF UnsafePath
<1>3. NormalizePath(path) = path
  <2>1. Segments(path) \cap Skipped = {}
    BY <1>1
  <2> QED
    BY <1>1, <2>1, NormalIsFixed
<1>4. Len(path) > 0
  <2>1. path # <<>>
    BY <1>1, <1>2 DEF Segments
  <2> QED
    BY <1>1, <2>1
<1>5. path[1] # NoName
  <2>1. path[1] \in Segments(path)
    BY <1>1, <1>4 DEF Segments
  <2> QED
    BY <1>1, <2>1 DEF Skipped
<1>6. UnsafePath(path) <=> path[1] \in Drive \/ (Len(path) = 1 /\ path[1] \in Blank)
  BY <1>1, <1>2, <1>4, <1>5 DEF UnsafePath
<1>7. ~UnsafePath(path) => Classify(guard, path) = Classify(guard, raw)
  BY <1>3 DEF Classify
<1> QED
  BY <1>3, <1>6, <1>7

-----------------------------------------------------------------------------
(* _compile and the match *)

\* The segments of a glob before its first "**" stand for one segment each, from the
\* first segment of the path on.
LEMMA CutOfHead ==
    ASSUME NEW path, NEW G, NEW glob \in Seq(G), NEW cut, IsCut(cut, path, glob),
           NEW k \in 0 .. Len(glob),
           \A i \in 1 .. k : glob[i] # "**"
    PROVE  \A i \in 0 .. k : cut[i] = i
<1> DEFINE Holds == {i \in 0 .. k : cut[i] = i}
<1>0. k \in Nat
  OBVIOUS
<1>1. 0 \in Holds
  BY DEF IsCut
<1>2. \A i \in 1 .. k : i - 1 \in Holds => i \in Holds
  BY DEF IsCut
<1> HIDE DEF Holds
<1>3. \A i \in 0 .. k : i \in Holds
  BY <1>0, <1>1, <1>2, Induction
<1> QED
  BY <1>3 DEF Holds

\* What a glob says before its first wildcard is how every path it matches begins.
LEMMA HeadIsPrefix ==
    ASSUME NEW S, NEW path \in Seq(S), NEW G, NEW glob \in Seq(G), Fits(path, glob),
           NEW k \in 0 .. Len(glob),
           \A i \in 1 .. k : glob[i] \notin Wild
    PROVE  k <= Len(path) /\ \A i \in 1 .. k : path[i] = glob[i]
<1>1. PICK cut \in [0 .. Len(glob) -> 0 .. Len(path)] : IsCut(cut, path, glob)
  BY DEF Fits
<1>2. \A i \in 1 .. k : glob[i] # "**"
  BY DEF Wild
<1>3. \A i \in 0 .. k : cut[i] = i
  BY <1>1, <1>2, CutOfHead
<1>4. cut[k] \in 0 .. Len(path) /\ Len(path) \in Nat
  BY <1>1
<1>5. k <= Len(path)
  BY <1>3, <1>4
<1>6. ASSUME NEW i \in 1 .. k PROVE path[i] = glob[i]
  <2>1. i \in 1 .. Len(glob) /\ cut[i] = i
    BY <1>3
  <2> QED
    BY <1>1, <2>1 DEF IsCut, StandsFor, Wild
<1> QED
  BY <1>5, <1>6

\* Compiling a pattern changes nothing before its trailing slash.
LEMMA CompileKeepsHead ==
    ASSUME NEW S, NEW pattern \in Seq(S) \ {<<>>}, NEW k \in 0 .. Len(pattern),
           \A i \in 1 .. k : pattern[i] # NoName
    PROVE  /\ Compile(pattern) \in Seq(S \cup {"**"}) /\ Len(Compile(pattern)) >= Len(pattern)
           /\ \A i \in 1 .. k : Compile(pattern)[i] = pattern[i]
<1> DEFINE glob == Compile(pattern)
<1>1. CASE pattern[Len(pattern)] = NoName
  <2>1. glob = [pattern EXCEPT ![Len(pattern)] = "**"]
    BY <1>1 DEF Compile
  <2>2. Len(pattern) \notin 1 .. k
    BY <1>1
  <2> HIDE DEF glob
  <2>3. pattern \in [1 .. Len(pattern) -> S] /\ Len(pattern) \in Nat
    OBVIOUS
  <2>4. glob \in [1 .. Len(pattern) -> S \cup {"**"}]
    BY <2>1, <2>3
  <2>5. glob \in Seq(S \cup {"**"}) /\ Len(glob) = Len(pattern)
    BY <2>3, <2>4
  <2>6. \A i \in 1 .. k : glob[i] = pattern[i]
    BY <2>1, <2>2
  <2> QED
    BY <2>5, <2>6 DEF glob
<1>2. CASE glob = Append(pattern, "**")
  <2> HIDE DEF glob
  <2>1. glob \in Seq(S \cup {"**"}) /\ Len(glob) = Len(pattern) + 1
    BY <1>2
  <2>2. \A i \in 1 .. k : glob[i] = pattern[i]
    BY <1>2
  <2> QED
    BY <2>1, <2>2 DEF glob
<1>3. CASE glob = pattern
  <2> HIDE DEF glob
  <2> QED
    BY <1>3 DEF glob
<1> QED
  BY <1>1, <1>2, <1>3 DEF Compile

\* path is the file or directory dir, or lies below it.
AtOrBelow(path, dir) == Len(dir) <= Len(path) /\ \A i \in 1 .. Len(dir) : path[i] = dir[i]

Plain(pattern) == Segments(pattern) \cap (Wild \cup {NoName}) = {}

\* No name below the first n of a path has a line break in it.
Unbroken(path, n) == \A i \in n + 1 .. Len(path) : path[i] \notin Broken

\* "dir/**" matches what is at or below dir, if no name below dir has a line break in it.
LEMMA SubtreeFits ==
    ASSUME NEW S, NEW path \in Seq(S), NEW dir \in Seq(S), Plain(dir)
    PROVE  Fits(path, Append(dir, "**")) <=> AtOrBelow(path, dir) /\ Unbroken(path, Len(dir))
<1> DEFINE glob == Append(dir, "**")
           k == Len(dir)
<1>1. /\ glob \in Seq(S \cup {"**"})
      /\ Len(glob) = k + 1 /\ k \in Nat /\ Len(path) \in Nat
      /\ glob[k + 1] = "**"
      /\ \A i \in 1 .. k : glob[i] = dir[i]
  OBVIOUS
<1>2. \A i \in 1 .. k : dir[i] \notin Wild
  BY DEF Plain, Segments
<1>n. "**" \in Wild
  BY DEF Wild
<1> HIDE DEF glob, k
<1>3. ASSUME Fits(path, glob) PROVE AtOrBelow(path, dir) /\ Unbroken(path, k)
  <2>1. k \in 0 .. Len(glob) /\ \A i \in 1 .. k : glob[i] \notin Wild
    BY <1>1, <1>2
  <2>2. k <= Len(path) /\ \A i \in 1 .. k : path[i] = glob[i]
    BY <1>1, <1>3, <2>1, HeadIsPrefix
  <2>3. PICK cut \in [0 .. Len(glob) -> 0 .. Len(path)] : IsCut(cut, path, glob)
    BY <1>3 DEF Fits
  <2>4. \A i \in 1 .. k : glob[i] # "**"
    BY <2>1, <1>n
  <2>5. cut[k] = k /\ cut[k + 1] = Len(path)
    <3> DEFINE G == S \cup {"**"}
    <3>0. glob \in Seq(G)
      BY <1>1
    <3> HIDE DEF G
    <3>1. \A i \in 0 .. k : cut[i] = i
      BY <2>1, <2>3, <2>4, <3>0, CutOfHead
    <3>2. cut[Len(glob)] = Len(path)
      BY <2>3 DEF IsCut
    <3> QED
      BY <1>1, <3>1, <3>2
  <2>6. k + 1 \in 1 .. Len(glob) /\ ~Leading(glob, k + 1)
    BY <1>1 DEF Leading
  <2>7. \A j \in cut[k] + 1 .. cut[k + 1] : path[j] \notin Broken
    BY <1>1, <2>3, <2>6 DEF IsCut
  <2> QED
    BY <1>1, <2>2, <2>5, <2>7 DEF AtOrBelow, Unbroken, k
<1>4. ASSUME AtOrBelow(path, dir), Unbroken(path, k) PROVE Fits(path, glob)
  <2> DEFINE cut == [i \in 0 .. Len(glob) |-> IF i <= k THEN i ELSE Len(path)]
  <2>1. k <= Len(path) /\ \A i \in 1 .. k : path[i] = dir[i]
    BY <1>4 DEF AtOrBelow, k
  <2>2. cut \in [0 .. Len(glob) -> 0 .. Len(path)]
    BY <1>1, <2>1
  <2>3. cut[0] = 0 /\ cut[Len(glob)] = Len(path)
    BY <1>1
  <2>4. ASSUME NEW i \in 1 .. Len(glob)
        PROVE  \/ /\ glob[i] = "**" /\ cut[i - 1] <= cut[i]
                  /\ ~Leading(glob, i)
                  /\ \A j \in cut[i - 1] + 1 .. cut[i] : path[j] \notin Broken
               \/ /\ glob[i] # "**" /\ cut[i] = cut[i - 1] + 1
                  /\ StandsFor(glob[i], path[cut[i]])
    <3>1. CASE i = k + 1
      <4>1. cut[i - 1] = k /\ cut[i] = Len(path) /\ ~Leading(glob, i)
        BY <1>1, <3>1 DEF Leading
      <4> QED
        BY <1>1, <1>4, <2>1, <3>1, <4>1 DEF Unbroken
    <3>2. CASE i \in 1 .. k
      <4>1. cut[i] = i /\ cut[i - 1] = i - 1
        BY <1>1, <3>2
      <4>2. glob[i] = path[i] /\ glob[i] # "**"
        BY <1>1, <1>2, <1>n, <2>1, <3>2
      <4> QED
        BY <1>1, <4>1, <4>2 DEF StandsFor
    <3>3. i = k + 1 \/ i \in 1 .. k
      BY <1>1
    <3> HIDE DEF cut
    <3> QED
      BY <3>1, <3>2, <3>3
  <2> HIDE DEF cut
  <2> QED
    BY <2>2, <2>3, <2>4 DEF Fits, IsCut
<1> QED
  BY <1>3, <1>4 DEF glob, k

\* What the match reads a path as is a sequence too.
LEMMA ReadingIsSequence ==
    ASSUME NEW S, NEW path \in Seq(S), NEW p \in Readings(path)
    PROVE  p \in Seq(S \cup {Chomped[s] : s \in DOMAIN Chomped})
<1> DEFINE T == S \cup {Chomped[s] : s \in DOMAIN Chomped}
<1>1. CASE p = path
  BY <1>1
<1>2. ASSUME NEW n \in {i \in {Len(path)} : path[i] \in DOMAIN Chomped},
             p = [path EXCEPT ![n] = Chomped[path[n]]]
      PROVE  p \in Seq(T)
  <2>1. path \in [1 .. Len(path) -> T] /\ Len(path) \in Nat /\ Chomped[path[n]] \in T
    BY <1>2
  <2> HIDE DEF T
  <2>2. p \in [1 .. Len(path) -> T]
    BY <1>2, <2>1
  <2> QED
    BY <2>1, <2>2
<1> QED
  BY <1>1, <1>2 DEF Readings

\* path is the file or directory dir or lies below it, no name below dir has a line break
\* in it, and one at the end of the path is passed over.
InSubtree(path, dir) ==
    \E p \in Readings(path) : AtOrBelow(p, dir) /\ Unbroken(p, Len(dir))

\* A directory of a contract's terms means the same however it is written: "dir", "dir/"
\* and "dir/**" match the directory itself and what is below it, and nothing else. A name
\* below it with a line break in it, other than one that ends the path, is not matched.
THEOREM SubtreeGlob ==
    ASSUME NEW S, NEW path \in Seq(S), NEW dir \in Seq(S), dir # <<>>, Plain(dir),
           NEW pattern \in {dir, Append(dir, NoName), Append(dir, "**")}
    PROVE  Matches(path, pattern) <=> InSubtree(path, dir)
<1>1. NoName # "**" /\ NoName # "*"
  BY Zenon DEF NoName
<1>2. Compile(dir) = Append(dir, "**")
  <2>1. dir[Len(dir)] # NoName /\ Segments(dir) \cap Wild = {}
    BY DEF Plain, Segments
  <2> QED
    BY <2>1 DEF Compile
<1>3. Compile(Append(dir, NoName)) = Append(dir, "**")
  <2> DEFINE slash == Append(dir, NoName)
  <2>1. slash[Len(slash)] = NoName
    OBVIOUS
  <2>2. [slash EXCEPT ![Len(slash)] = "**"] = Append(dir, "**")
    <3> DEFINE deep == Append(dir, "**")
    <3>1. Len(slash) = Len(dir) + 1 /\ Len(deep) = Len(dir) + 1
      OBVIOUS
    <3>2. slash \in Seq(S \cup {NoName}) /\ deep \in Seq(S \cup {"**"})
      OBVIOUS
    <3>3. /\ \A i \in 1 .. Len(dir) : slash[i] = deep[i]
          /\ deep[Len(dir) + 1] = "**"
      OBVIOUS
    <3> HIDE DEF slash, deep
    <3>4. /\ slash \in [1 .. Len(dir) + 1 -> S \cup {NoName}]
          /\ deep \in [1 .. Len(dir) + 1 -> S \cup {"**"}]
      BY <3>1, <3>2
    <3>5. [slash EXCEPT ![Len(slash)] = "**"] = deep
      BY <3>1, <3>3, <3>4
    <3> QED
      BY <3>5 DEF deep
  <2> HIDE DEF slash
  <2>3. Compile(slash) = [slash EXCEPT ![Len(slash)] = "**"]
    BY <2>1 DEF Compile
  <2> QED
    BY <2>2, <2>3 DEF slash
<1>4. Compile(Append(dir, "**")) = Append(dir, "**")
  <2> DEFINE deep == Append(dir, "**")
  <2>1. deep[Len(deep)] = "**" /\ Len(deep) \in DOMAIN deep
    OBVIOUS
  <2> HIDE DEF deep
  <2>2. "**" \in Segments(deep)
    BY <2>1 DEF Segments
  <2>3. Compile(deep) = deep
    BY <1>1, <2>1, <2>2 DEF Compile, Wild
  <2> QED
    BY <2>3 DEF deep
<1>5. Matches(path, pattern) <=> \E p \in Readings(path) : Fits(p, Append(dir, "**"))
  BY <1>2, <1>3, <1>4 DEF Matches
<1>6. ASSUME NEW p \in Readings(path)
      PROVE  Fits(p, Append(dir, "**")) <=> AtOrBelow(p, dir) /\ Unbroken(p, Len(dir))
  <2> DEFINE T == S \cup {Chomped[s] : s \in DOMAIN Chomped}
  <2>1. p \in Seq(T) /\ dir \in Seq(T)
    BY ReadingIsSequence
  <2> QED
    BY <2>1, SubtreeFits
<1> QED
  BY <1>5, <1>6 DEF InSubtree

\* No spelling of a file at or below a directory that the contract protects or keeps for
\* grading is accepted, whatever the allow-list says, if no name below the directory has a
\* line break in it (but for one that ends the path). With one, the allow-list decides.
THEOREM ProtectedSubtree ==
    ASSUME NEW S, NEW raw \in Seq(S), NEW dir \in Seq(S), dir # <<>>, Plain(dir),
           NEW guard,
           {dir, Append(dir, NoName), Append(dir, "**")}
               \cap (guard.protected \cup guard.grader) # {},
           InSubtree(NormalizePath(raw), dir)
    PROVE  Classify(guard, raw) \in {"unsafe_path", "protected_path", "grader_path"}
<1> DEFINE path == NormalizePath(raw)
<1>1. path \in Seq(S)
  BY NormalSegments
<1>2. PICK pattern \in {dir, Append(dir, NoName), Append(dir, "**")} :
          pattern \in guard.protected \cup guard.grader
  OBVIOUS
<1>3. Matches(path, pattern)
  BY <1>1, SubtreeGlob
<1>4. MatchAny(path, guard.protected) \/ MatchAny(path, guard.grader)
  BY <1>2, <1>3 DEF MatchAny
<1> QED
  BY <1>4 DEF Classify

=============================================================================
